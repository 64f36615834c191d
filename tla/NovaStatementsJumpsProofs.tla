--------------------- MODULE NovaStatementsJumpsProofs ---------------------
(***************************************************************************)
(* The jumps of NovaStatements reach their targets.  NovaStatementsProofs   *)
(* says when a jump has landed (Lands), when it waits (Waiting) and what    *)
(* the lists keep (Contexts).  Here each step of the generator is shown to  *)
(* keep JumpOK: every jump has landed or waits, a list holds the jumps of   *)
(* the constructs that are open, each behind the mark of the construct it   *)
(* leaves, and the frames hold what their constructs wait for.  Behind the  *)
(* last node nothing is open, so nothing waits, and what has landed is at   *)
(* the Destination that JumpsLand names.                                    *)
(***************************************************************************)
EXTENDS NovaStatementsProofs

(* The frames, by what the next node is.                                     *)

LEMMA FramesLeaf ==
  ASSUME NEW t, NEW st, TreeOK(t, st), NEW n \in 0..Len(t) - 1, NEW c, Coded(c, n), NEW c2,
         Follows(c, c2, n), NEW fr, Frames(t, st, c, n, Stack(st, n), fr), t[n + 1].kind \in Leaves
  PROVE  Frames(t, st, c2, n + 1, Stack(st, n + 1), fr) /\ FramesWait(t, st, c, c2, n, fr, fr)
<1>1. Stack(st, n + 1) = Stack(st, n)  BY LevelNext
<1>2. t[n + 1].kind # "default"  BY DEF Leaves, Declarations
<1>3. PICK s : s = Stack(st, n)  OBVIOUS
<1>4. Frames(t, st, c2, n + 1, s, fr)  BY <1>2, <1>3, FramesKeep
<1> QED BY <1>1, <1>3, <1>4 DEF FramesWait

LEMMA FramesOpen ==
  ASSUME NEW t, NEW st, TreeOK(t, st), NEW n \in 0..Len(t) - 1, NEW c, Coded(c, n), NEW c2,
         Follows(c, c2, n), NEW fr, Frames(t, st, c, n, Stack(st, n), fr),
         t[n + 1].kind \in Openers, t[n + 1].kind # "default",
         NEW f \in FrameType, FrameOK(t, st, c2, n + 1, n + 1, f), NEW fr2, Grows(fr2, fr, f)
  PROVE  /\ Frames(t, st, c2, n + 1, Stack(st, n + 1), fr2)
         /\ FramesWait(t, st, c, c2, n, fr, fr2)
         /\ FrameWait(Stack(st, n + 1), fr2, n + 1, f.patch)
<1>1. PICK s, s2 : s = Stack(st, n) /\ s2 = Stack(st, n + 1)  OBVIOUS
<1>2. n \in Nat /\ s \in Seq(1..n) /\ Grows(s2, s, n + 1)
  <2>1. PICK kind : kind = t[n + 1].kind  OBVIOUS
  <2>2. kind \in Scoped \cup {"if"}  BY <2>1 DEF Openers
  <2> QED BY <1>1, <2>1, <2>2, StackNext
<1>3. Frames(t, st, c2, n + 1, s, fr)  BY <1>1, FramesKeep
<1>4. Frames(t, st, c2, n + 1, s2, fr2)  BY <1>2, <1>3, FramesPush
<1>5. fr \in Seq(FrameType) /\ Len(fr) = Len(s)  BY <1>1 DEF Frames
<1>6. \A x, i : /\ FrameWait(s, fr, x, i) => FrameWait(s2, fr2, x, i)
                /\ f.patch = i => FrameWait(s2, fr2, n + 1, i)
  BY <1>2, <1>5, FrameWaitPush
<1> QED BY <1>1, <1>4, <1>6 DEF FramesWait

(* The innermost frame is that of the construct that ends.                   *)
TopLands(t, st, c, c2, n, top, last) ==
  last.patch \in 1..Len(c) /\ c[last.patch].node = top => Lands(t, st, c2, n + 1, last.patch)
LEMMA FramesTop ==
  ASSUME NEW t, NEW st, TreeOK(t, st), NEW n \in 0..Len(t) - 1, NEW c, Coded(c, n), NEW c2,
         Follows(c, c2, n), NEW fr, Frames(t, st, c, n, Stack(st, n), fr),
         Stack(st, n) # <<>>, t[n + 1].kind # "default",
         NEW top, top = Stack(st, n)[Level(st, n)], NEW last, last = Last(fr)
  PROVE  /\ last \in FrameType /\ FrameOK(t, st, c, n, top, last) /\ top \in 1..n
         /\ Frames(t, st, c2, n + 1, Front(Stack(st, n)), Front(fr))
         /\ Front(Stack(st, n)) \in Seq(1..n)
         /\ TopLands(t, st, c, c2, n, top, last) =>
              \A i \in 1..Len(c) : \A x : FrameWait(Stack(st, n), fr, x, i) /\ c[i].node = x =>
                FrameWait(Front(Stack(st, n)), Front(fr), x, i) \/ Lands(t, st, c2, n + 1, i)
<1>1. PICK s : s = Stack(st, n)  OBVIOUS
<1>2. n \in Nat /\ s \in Seq(1..n)
  <2>1. PICK kind, s2 : kind = t[n + 1].kind /\ s2 = Stack(st, n + 1)  OBVIOUS
  <2> QED BY <1>1, <2>1, StackNext
<1>3. fr \in Seq(FrameType) /\ Len(fr) = Len(s)
      /\ \A j \in 1..Len(fr) : FrameOK(t, st, c, n, s[j], fr[j])
  BY <1>1 DEF Frames
<1>4. Frames(t, st, c2, n + 1, s, fr)  BY <1>1, FramesKeep
<1>5. /\ Frames(t, st, c2, n + 1, Front(s), Front(fr)) /\ Front(s) \in Seq(1..n)
      /\ fr # <<>> /\ Last(fr) = fr[Len(fr)] /\ Last(fr) \in FrameType /\ Last(s) \in 1..n
  <2>1. \A j \in 1..Len(fr) : j < Len(fr) => FrameOK(t, st, c2, n + 1, s[j], fr[j])
    BY <1>4 DEF Frames
  <2> QED BY <1>1, <1>2, <1>3, <2>1, FramesFront
<1>6. top = Last(s)  BY <1>1 DEF Last, Level
<1>7. FrameOK(t, st, c, n, top, last)
  <2>1. Len(fr) \in 1..Len(fr)
    <3>1. Len(fr) \in Nat /\ Len(fr) # 0  BY <1>3, <1>5
    <3> QED BY <3>1
  <2>2. FrameOK(t, st, c, n, s[Len(fr)], fr[Len(fr)])  BY <1>3, <2>1
  <2>3. top = s[Len(fr)]  BY <1>3, <1>6 DEF Last
  <2> QED BY <1>5, <2>2, <2>3
<1>8. ASSUME TopLands(t, st, c, c2, n, top, last), NEW i \in 1..Len(c), NEW x,
             FrameWait(s, fr, x, i), c[i].node = x
      PROVE  FrameWait(Front(s), Front(fr), x, i) \/ Lands(t, st, c2, n + 1, i)
  <2>1. FrameWait(Front(s), Front(fr), x, i) \/ (x = Last(s) /\ i = Last(fr).patch)
    BY <1>1, <1>2, <1>3, <1>8, FrameWaitFront
  <2> QED BY <1>6, <1>8, <2>1 DEF TopLands
<1> QED BY <1>1, <1>5, <1>6, <1>7, <1>8

LEMMA FramesClose ==
  ASSUME NEW t, NEW st, TreeOK(t, st), NEW n \in 0..Len(t) - 1, NEW c, Coded(c, n), NEW c2,
         Follows(c, c2, n), NEW fr, Frames(t, st, c, n, Stack(st, n), fr), t[n + 1].kind \in Ends,
         NEW top, top = Stack(st, n)[Level(st, n)], NEW last, last = Last(fr)
  PROVE  /\ last \in FrameType /\ FrameOK(t, st, c, n, top, last) /\ top \in 1..n
         /\ Frames(t, st, c2, n + 1, Stack(st, n + 1), Front(fr))
         /\ TopLands(t, st, c, c2, n, top, last) => FramesWait(t, st, c, c2, n, fr, Front(fr))
<1>1. Stack(st, n) # <<>> /\ Stack(st, n + 1) = Front(Stack(st, n))
  <2>1. PICK kind, s, s2 : kind = t[n + 1].kind /\ s = Stack(st, n) /\ s2 = Stack(st, n + 1)
    OBVIOUS
  <2>2. s # <<>> /\ s2 = Front(s)  BY <2>1, StackNext
  <2> QED BY <2>1, <2>2
<1>2. t[n + 1].kind # "default"  BY DEF Ends
<1>3. /\ last \in FrameType /\ FrameOK(t, st, c, n, top, last) /\ top \in 1..n
      /\ Frames(t, st, c2, n + 1, Front(Stack(st, n)), Front(fr))
      /\ Front(Stack(st, n)) \in Seq(1..n)
      /\ TopLands(t, st, c, c2, n, top, last) =>
           \A i \in 1..Len(c) : \A x : FrameWait(Stack(st, n), fr, x, i) /\ c[i].node = x =>
             FrameWait(Front(Stack(st, n)), Front(fr), x, i) \/ Lands(t, st, c2, n + 1, i)
  BY <1>1, <1>2, FramesTop
<1> QED BY <1>1, <1>3 DEF FramesWait

LEMMA FramesElse ==
  ASSUME NEW t, NEW st, TreeOK(t, st), NEW n \in 0..Len(t) - 1, NEW c, Coded(c, n), NEW c2,
         Follows(c, c2, n), NEW fr, Frames(t, st, c, n, Stack(st, n), fr), t[n + 1].kind = "else",
         NEW top, top = Stack(st, n)[Level(st, n)], NEW last, last = Last(fr),
         NEW f \in FrameType, FrameOK(t, st, c2, n + 1, n + 1, f), NEW fr2, Grows(fr2, Front(fr), f)
  PROVE  /\ last \in FrameType /\ FrameOK(t, st, c, n, top, last) /\ top \in 1..n
         /\ Frames(t, st, c2, n + 1, Stack(st, n + 1), fr2)
         /\ TopLands(t, st, c, c2, n, top, last) => FramesWait(t, st, c, c2, n, fr, fr2)
         /\ FrameWait(Stack(st, n + 1), fr2, n + 1, f.patch)
<1>1. Stack(st, n) # <<>> /\ Grows(Stack(st, n + 1), Front(Stack(st, n)), n + 1) /\ n \in Nat
  <2>1. PICK kind, s, s2 : kind = t[n + 1].kind /\ s = Stack(st, n) /\ s2 = Stack(st, n + 1)
    OBVIOUS
  <2>2. n \in Nat /\ s # <<>> /\ Grows(s2, Front(s), n + 1)  BY <2>1, StackNext
  <2> QED BY <2>1, <2>2
<1>2. t[n + 1].kind # "default"  OBVIOUS
<1>3. /\ last \in FrameType /\ FrameOK(t, st, c, n, top, last) /\ top \in 1..n
      /\ Frames(t, st, c2, n + 1, Front(Stack(st, n)), Front(fr))
      /\ Front(Stack(st, n)) \in Seq(1..n)
      /\ TopLands(t, st, c, c2, n, top, last) =>
           \A i \in 1..Len(c) : \A x : FrameWait(Stack(st, n), fr, x, i) /\ c[i].node = x =>
             FrameWait(Front(Stack(st, n)), Front(fr), x, i) \/ Lands(t, st, c2, n + 1, i)
  BY <1>1, <1>2, FramesTop
<1>4. PICK s, g, s2 : s = Front(Stack(st, n)) /\ g = Front(fr) /\ s2 = Stack(st, n + 1)  OBVIOUS
<1>5. s \in Seq(1..n) /\ Grows(s2, s, n + 1) /\ Grows(fr2, g, f)
      /\ Frames(t, st, c2, n + 1, s, g)
  BY <1>1, <1>3, <1>4
<1>6. Frames(t, st, c2, n + 1, s2, fr2)  BY <1>1, <1>5, FramesPush
<1>7. g \in Seq(FrameType) /\ Len(g) = Len(s)  BY <1>5 DEF Frames
<1>8. \A x, i : /\ FrameWait(s, g, x, i) => FrameWait(s2, fr2, x, i)
                /\ f.patch = i => FrameWait(s2, fr2, n + 1, i)
  BY <1>1, <1>5, <1>7, FrameWaitPush
<1>9. TopLands(t, st, c, c2, n, top, last) => FramesWait(t, st, c, c2, n, fr, fr2)
  BY <1>3, <1>4, <1>8 DEF FramesWait
<1> QED BY <1>3, <1>4, <1>6, <1>8, <1>9

-----------------------------------------------------------------------------
(* The lists.                                                                *)
LEMMA ListSame ==
  ASSUME NEW t, NEW st, NEW c, NEW c2, NEW n, NEW list
  PROVE  ListWaits(t, st, c, c2, n, list, list)
BY DEF ListWaits

LEMMA ListMore ==
  ASSUME NEW t, NEW st, NEW c, NEW c2, NEW n, NEW list \in Seq(Nat), NEW i \in Nat, NEW list2,
         Grows(list2, list, i)
  PROVE  ListWaits(t, st, c, c2, n, list, list2) /\ Listed(list2, i)
<1>1. NatGrows(list2, list, i)  BY DEF NatGrows
<1> DEFINE N == Nat
<1>2. list \in Seq(N) /\ i \in N  OBVIOUS
<1> HIDE DEF N
<1>3. /\ Len(list2) = Len(list) + 1 /\ Len(list) \in Nat /\ list2[Len(list) + 1] = i
      /\ \A k \in 1..Len(list) : list2[k] = list[k]
  BY <1>2, GrowsTo
<1>4. PICK l \in Nat : l = Len(list)  BY <1>3
<1>5. \A k \in 1..l : k \in 1..l + 1  OBVIOUS
<1>6. l + 1 \in 1..l + 1  OBVIOUS
<1> QED BY <1>3, <1>4, <1>5, <1>6 DEF ListWaits, Listed

LEMMA GotosSame ==
  ASSUME NEW t, NEW st, NEW c, NEW c2, NEW n, NEW gp, NEW lb
  PROVE  GotosWait(t, st, c, c2, n, gp, lb, gp, lb)
BY DEF GotosWait

LEMMA NoCase ==
  ASSUME NEW t, NEW st, NEW c, NEW c2, NEW n, t[n + 1].kind # "case"
  PROVE  CasesWait(t, st, c, c2, n)
BY DEF CasesWait

-----------------------------------------------------------------------------
(* All that is to be known of the jumps.                                     *)
Patched(t, st, n, c, fr, bs, ls, bp, cp, gp, lb) ==
  /\ Linked(t, st, c, n, bs, ls, bp, cp, gp, lb)
  /\ Frames(t, st, c, n, Stack(st, n), fr)
  /\ Placed(t, st, c, n, fr, bp, cp, gp, lb)
Placing(t, st, c, c2, n, fr, bp, cp, gp, lb) ==
  \A i \in Len(c) + 1 .. Len(c2) : c2[i].op \in {"jump", "branch"} =>
    Lands(t, st, c2, n + 1, i) \/ Waiting(t, st, c2, n + 1, fr, bp, cp, gp, lb, i)

LEMMA PatchedCalm ==
  ASSUME NEW t, NEW st, TreeOK(t, st), NEW n \in 0..Len(t) - 1, NEW c, NEW c2, NEW fr,
         NEW bs, NEW ls, NEW bp, NEW cp, NEW gp, NEW lb,
         Patched(t, st, n, c, fr, bs, ls, bp, cp, gp, lb), Follows(c, c2, n), t[n + 1].kind \in Calm,
         NEW fr2, Frames(t, st, c2, n + 1, Stack(st, n + 1), fr2),
         FramesWait(t, st, c, c2, n, fr, fr2), TargetsKept(t, st, c, c2, n),
         CasesWait(t, st, c, c2, n), Placing(t, st, c, c2, n, fr2, bp, cp, gp, lb)
  PROVE  Patched(t, st, n + 1, c2, fr2, bs, ls, bp, cp, gp, lb)
<1>1. Coded(c, n)  BY DEF Patched, Linked
<1>2. Linked(t, st, c2, n + 1, bs, ls, bp, cp, gp, lb)  BY LinkedCalm DEF Patched
<1>3. Placed(t, st, c2, n + 1, fr2, bp, cp, gp, lb)
  <2>1. /\ ListWaits(t, st, c, c2, n, bp, bp) /\ ListWaits(t, st, c, c2, n, cp, cp)
        /\ GotosWait(t, st, c, c2, n, gp, lb, gp, lb)
    BY ListSame, GotosSame
  <2>2. Placed(t, st, c, n, fr, bp, cp, gp, lb)  BY DEF Patched
  <2>3. \A i \in Len(c) + 1 .. Len(c2) : c2[i].op \in {"jump", "branch"} =>
          Lands(t, st, c2, n + 1, i) \/ Waiting(t, st, c2, n + 1, fr2, bp, cp, gp, lb, i)
    BY DEF Placing
  <2> QED BY <1>1, <2>1, <2>2, <2>3, PlacedOn
<1> QED BY <1>2, <1>3 DEF Patched

LEMMA Quietly ==
  ASSUME NEW t, NEW st, NEW n \in Nat, NEW c, Coded(c, n), NEW d, Emits(n, d), Quiet(d),
         NEW c2, c2 = c \o d
  PROVE  /\ Follows(c, c2, n) /\ TargetsKept(t, st, c, c2, n)
         /\ \A fr, bp, cp, gp, lb : Placing(t, st, c, c2, n, fr, bp, cp, gp, lb)
<1>1. Follows(c, c2, n) /\ Added(c, d, c2)  BY EmitsAfter
<1>2. \A i \in Len(c) + 1 .. Len(c2) : c2[i].op \notin {"jump", "branch"}  BY <1>1 DEF Added, Quiet
<1> QED BY <1>1, <1>2 DEF TargetsKept, Placing

LEMMA Nothing ==
  ASSUME NEW t, NEW st, NEW n \in Nat, NEW c, Coded(c, n)
  PROVE  /\ Follows(c, c, n) /\ TargetsKept(t, st, c, c, n)
         /\ \A fr, bp, cp, gp, lb : Placing(t, st, c, c, n, fr, bp, cp, gp, lb)
<1>1. Follows(c, c, n) /\ Len(c) \in Nat  BY SameFollows, CodeLength
<1>2. Len(c) + 1 .. Len(c) = {}  BY <1>1
<1> QED BY <1>1, <1>2 DEF TargetsKept, Placing

-----------------------------------------------------------------------------
(* The symbols, as far as the code needs them.                               *)
Tabling(t, st, n, fr, sy) ==
  /\ sy \in Seq(SymbolType) /\ Len(sy) <= MaxLocals
  /\ \A i \in 1..Len(sy) : sy[i].node \in 0..n
  /\ Framed(t, Stack(st, n), fr, sy)

LEMMA AllAre ==
  ASSUME NEW n \in Nat, NEW sy \in Seq(SymbolType), \A i \in 1..Len(sy) : sy[i].node \in 0..n
  PROVE  Kept(sy, Len(sy), n + 1)
<1>1. Len(sy) \in Nat  OBVIOUS
<1>2. \A i \in 1..Len(sy) : i <= Len(sy) /\ sy[i].node < n + 1  BY <1>1
<1> QED BY <1>1, <1>2 DEF Kept

LEMMA Later ==
  ASSUME NEW n \in Nat, NEW sy, \A i \in 1..Len(sy) : sy[i].node \in 0..n
  PROVE  \A i \in 1..Len(sy) : sy[i].node \in 0..n + 1
<1>1. \A x \in 0..n : x \in 0..n + 1  OBVIOUS
<1> QED BY <1>1

LEMMA TablingLeaf ==
  ASSUME NEW t, NEW st, TreeOK(t, st), NEW n \in 0..Len(t) - 1, NEW fr, NEW sy, NEW sy2,
         Tabling(t, st, n, fr, sy), t[n + 1].kind \in Leaves, Alike(sy, sy2)
  PROVE  Tabling(t, st, n + 1, fr, sy2)
<1>1. n \in Nat /\ Stack(st, n + 1) = Stack(st, n)  BY StackNext
<1>2. \A i \in 1..Len(sy) : sy[i].node \in 0..n + 1  BY <1>1, Later DEF Tabling
<1>3. Framed(t, Stack(st, n), fr, sy2)  BY FramedKeeps DEF Tabling
<1>4. sy2 \in Seq(SymbolType) /\ Len(sy2) = Len(sy) /\ \A i \in 1..Len(sy) : sy2[i].node = sy[i].node
  BY DEF Alike
<1> QED BY <1>1, <1>2, <1>3, <1>4 DEF Tabling

LEMMA TableGrows ==
  ASSUME NEW n \in Nat, NEW sy \in Seq(SymbolType), \A i \in 1..Len(sy) : sy[i].node \in 0..n,
         Len(sy) < MaxLocals, NEW x \in SymbolType, x.node = n + 1, NEW sy2, Grows(sy2, sy, x)
  PROVE  /\ sy2 \in Seq(SymbolType) /\ Len(sy2) <= MaxLocals
         /\ \A i \in 1..Len(sy2) : sy2[i].node \in 0..n + 1
         /\ Kept(sy2, Len(sy), n + 1)
<1>1. PICK T : T = SymbolType  OBVIOUS
<1>2. sy \in Seq(T) /\ x \in T  BY <1>1
<1>3. /\ sy2 \in Seq(T) /\ Len(sy2) = Len(sy) + 1 /\ Len(sy) \in Nat
      /\ \A i \in 1..Len(sy) : sy2[i] = sy[i]
      /\ sy2[Len(sy) + 1] = x
  BY <1>2, GrowsTo
<1>4. PICK L \in Nat : L = Len(sy)  BY <1>3
<1>5. \A i \in 1..L + 1 : i \in 1..L \/ i = L + 1  OBVIOUS
<1>6. \A i \in 1..Len(sy) : sy[i].node \in 0..n + 1  BY Later
<1>7. n + 1 \in 0..n + 1  OBVIOUS
<1>8. \A i \in 1..L + 1 : sy2[i].node \in 0..n + 1
  <2>1. \A i \in 1..L : sy2[i].node \in 0..n + 1  BY <1>3, <1>4, <1>6
  <2>2. sy2[L + 1].node \in 0..n + 1  BY <1>3, <1>4, <1>7
  <2> QED BY <1>5, <2>1, <2>2
<1>9. L + 1 <= MaxLocals  BY <1>4, LocalsFit
<1>10. Kept(sy2, L, n + 1)
  <2>1. Kept(sy, L, n + 1)  BY <1>4, AllAre
  <2>2. \A i \in 1..L : i <= L <=> sy[i].node < n + 1  BY <1>4, <2>1 DEF Kept
  <2>3. ~(L + 1 <= L) /\ ~(sy2[L + 1].node < n + 1)  BY <1>3, <1>4
  <2>4. \A i \in 1..L + 1 : i <= L <=> sy2[i].node < n + 1  BY <1>3, <1>4, <1>5, <2>2, <2>3
  <2>5. L \in 0..L + 1  OBVIOUS
  <2> QED BY <1>3, <1>4, <2>4, <2>5 DEF Kept
<1> QED BY <1>1, <1>3, <1>4, <1>8, <1>9, <1>10

LEMMA TablingDeclare ==
  ASSUME NEW t, NEW st, TreeOK(t, st), NEW n \in 0..Len(t) - 1, NEW fr, NEW sy, NEW x, NEW sy2,
         Tabling(t, st, n, fr, sy), t[n + 1].kind \in Leaves, Len(sy) < MaxLocals,
         Grows(sy2, sy, x), x \in SymbolType, x.node = n + 1
  PROVE  Tabling(t, st, n + 1, fr, sy2)
<1>1. n \in Nat /\ Stack(st, n + 1) = Stack(st, n) /\ Stack(st, n) \in Seq(1..n)  BY StackNext
<1>2. sy \in Seq(SymbolType) /\ Framed(t, Stack(st, n), fr, sy)
      /\ \A i \in 1..Len(sy) : sy[i].node \in 0..n
  BY DEF Tabling
<1>3. Framed(t, Stack(st, n), fr, sy2)  BY <1>1, <1>2, FramedAdds
<1>4. /\ sy2 \in Seq(SymbolType) /\ Len(sy2) <= MaxLocals
      /\ \A i \in 1..Len(sy2) : sy2[i].node \in 0..n + 1
      /\ Kept(sy2, Len(sy), n + 1)
  BY <1>1, <1>2, TableGrows
<1> QED BY <1>1, <1>3, <1>4 DEF Tabling

LEMMA TablingOpen ==
  ASSUME NEW t, NEW st, TreeOK(t, st), NEW n \in 0..Len(t) - 1, NEW fr, NEW sy, NEW f, NEW fr2,
         Tabling(t, st, n, fr, sy), t[n + 1].kind \in Scoped \cup {"if"},
         Grows(fr2, fr, f), t[n + 1].kind \in Scopes => f.kept = Len(sy)
  PROVE  Tabling(t, st, n + 1, fr2, sy)
<1>1. n \in Nat /\ Grows(Stack(st, n + 1), Stack(st, n), n + 1) /\ Stack(st, n) \in Seq(1..n)
  BY StackNext
<1>2. sy \in Seq(SymbolType) /\ Framed(t, Stack(st, n), fr, sy)
      /\ \A i \in 1..Len(sy) : sy[i].node \in 0..n
  BY DEF Tabling
<1>3. Kept(sy, Len(sy), n + 1)  BY <1>1, <1>2, AllAre
<1>4. Framed(t, Stack(st, n + 1), fr2, sy)
  <2>1. t[n + 1].kind \in Scopes => Kept(sy, f.kept, n + 1)  BY <1>3
  <2> QED BY <1>1, <1>2, <2>1, FramedPush
<1>5. \A i \in 1..Len(sy) : sy[i].node \in 0..n + 1  BY <1>1, <1>2, Later
<1> QED BY <1>4, <1>5 DEF Tabling

LEMMA TablingFor ==
  ASSUME NEW t, NEW st, TreeOK(t, st), NEW n \in 0..Len(t) - 1, NEW fr, NEW sy, NEW f, NEW fr2,
         NEW x, NEW sy2, Tabling(t, st, n, fr, sy), t[n + 1].kind = "for", Len(sy) < MaxLocals,
         Grows(fr2, fr, f), f.kept = Len(sy), Grows(sy2, sy, x), x \in SymbolType, x.node = n + 1
  PROVE  Tabling(t, st, n + 1, fr2, sy2)
<1>1. t[n + 1].kind \in Scoped \cup {"if"}  BY DEF Scoped, LoopKinds
<1>2. n \in Nat /\ Grows(Stack(st, n + 1), Stack(st, n), n + 1) /\ Stack(st, n) \in Seq(1..n)
  BY <1>1, StackNext
<1>3. sy \in Seq(SymbolType) /\ Framed(t, Stack(st, n), fr, sy)
      /\ \A i \in 1..Len(sy) : sy[i].node \in 0..n
  BY DEF Tabling
<1>4. /\ sy2 \in Seq(SymbolType) /\ Len(sy2) <= MaxLocals
      /\ \A i \in 1..Len(sy2) : sy2[i].node \in 0..n + 1
      /\ Kept(sy2, Len(sy), n + 1)
  BY <1>2, <1>3, TableGrows
<1>5. Framed(t, Stack(st, n), fr, sy2)  BY <1>2, <1>3, FramedAdds
<1>6. Framed(t, Stack(st, n + 1), fr2, sy2)
  <2>1. t[n + 1].kind \in Scopes => Kept(sy2, f.kept, n + 1)  BY <1>4
  <2> QED BY <1>2, <1>5, <2>1, FramedPush
<1> QED BY <1>4, <1>6 DEF Tabling

LEMMA TablingElse ==
  ASSUME NEW t, NEW st, TreeOK(t, st), NEW n \in 0..Len(t) - 1, NEW fr, NEW sy, NEW f, NEW fr2,
         Tabling(t, st, n, fr, sy), t[n + 1].kind = "else", Grows(fr2, Front(fr), f)
  PROVE  Tabling(t, st, n + 1, fr2, sy)
<1>0. n \in Nat  BY DEF TreeOK
<1>1. /\ Stack(st, n) # <<>> /\ Grows(Stack(st, n + 1), Front(Stack(st, n)), n + 1)
      /\ Stack(st, n) \in Seq(1..n)
  <2>1. PICK s, s2, kind : s = Stack(st, n) /\ s2 = Stack(st, n + 1) /\ kind = t[n + 1].kind
    OBVIOUS
  <2>2. s \in Seq(1..n) /\ s # <<>> /\ Grows(s2, Front(s), n + 1)  BY <2>1, StackNext
  <2> QED BY <2>1, <2>2
<1>2. Framed(t, Stack(st, n), fr, sy) /\ \A i \in 1..Len(sy) : sy[i].node \in 0..n  BY DEF Tabling
<1>3. Framed(t, Front(Stack(st, n)), Front(fr), sy)  BY <1>0, <1>1, <1>2, FramedPop
<1>4. Front(Stack(st, n)) \in Seq(1..n)  BY <1>0, <1>1, FrontOf
<1>5. t[n + 1].kind \notin Scopes  BY DEF Scopes
<1>6. Framed(t, Stack(st, n + 1), fr2, sy)  BY <1>0, <1>1, <1>3, <1>4, <1>5, FramedPush
<1>7. \A i \in 1..Len(sy) : sy[i].node \in 0..n + 1  BY <1>0, <1>1, <1>2, Later
<1> QED BY <1>6, <1>7 DEF Tabling

LEMMA TablingClose ==
  ASSUME NEW t, NEW st, TreeOK(t, st), NEW n \in 0..Len(t) - 1, NEW fr, NEW sy,
         Tabling(t, st, n, fr, sy), t[n + 1].kind \in Ends
  PROVE  Tabling(t, st, n + 1, Front(fr), sy)
<1>1. /\ n \in Nat /\ Stack(st, n) # <<>> /\ Stack(st, n + 1) = Front(Stack(st, n))
      /\ Stack(st, n) \in Seq(1..n)
  BY StackNext
<1>2. Framed(t, Stack(st, n), fr, sy) /\ \A i \in 1..Len(sy) : sy[i].node \in 0..n  BY DEF Tabling
<1>3. Framed(t, Stack(st, n + 1), Front(fr), sy)  BY <1>1, <1>2, FramedPop
<1>4. \A i \in 1..Len(sy) : sy[i].node \in 0..n + 1  BY <1>1, <1>2, Later
<1> QED BY <1>3, <1>4 DEF Tabling

LEMMA TablingEnd ==
  ASSUME NEW t, NEW st, TreeOK(t, st), NEW n \in 0..Len(t) - 1, NEW fr, NEW sy, NEW sy2,
         Tabling(t, st, n, fr, sy), t[n + 1].kind \in {"endblock", "endcase", "endfor"},
         sy2 = SubSeq(sy, 1, Last(fr).kept)
  PROVE  Tabling(t, st, n + 1, Front(fr), sy2)
<1>1. t[n + 1].kind \in Ends  BY DEF Ends
<1>2. /\ n \in Nat /\ Stack(st, n) # <<>> /\ Stack(st, n + 1) = Front(Stack(st, n))
      /\ Stack(st, n) \in Seq(1..n) /\ Rising(Stack(st, n))
      /\ t[Last(Stack(st, n))].kind \in Closes(t[n + 1].kind)
  BY <1>1, StackNext
<1>3. t[Last(Stack(st, n))].kind \in Scopes  BY <1>2 DEF Closes, Scopes
<1>4. /\ sy \in Seq(SymbolType) /\ Len(sy) <= MaxLocals /\ Framed(t, Stack(st, n), fr, sy)
      /\ \A i \in 1..Len(sy) : sy[i].node \in 0..n
  BY DEF Tabling
<1>5. PICK k : k = Last(fr).kept  OBVIOUS
<1>6. Kept(sy, k, Last(Stack(st, n))) /\ Framed(t, Stack(st, n + 1), Front(fr), sy2)
  BY <1>2, <1>3, <1>4, <1>5, FramedCuts
<1>7. k \in 0..Len(sy)  BY <1>6 DEF Kept
<1>8. sy2 \in Seq(SymbolType) /\ Len(sy2) = k /\ \A i \in 1..k : sy2[i] = sy[i]
  BY <1>4, <1>5, <1>7, Cut
<1>9. \A i \in 1..Len(sy) : sy[i].node \in 0..n + 1  BY <1>2, <1>4, Later
<1>10. Len(sy) \in Nat /\ k <= MaxLocals /\ \A i \in 1..k : i \in 1..Len(sy)
  BY <1>4, <1>7, LocalsFit
<1> QED BY <1>6, <1>8, <1>9, <1>10 DEF Tabling

LEMMA TablingMark ==
  ASSUME NEW t, NEW st, NEW n \in Nat, Stack(st, n) \in Seq(1..n), NEW fr, NEW sy, NEW g,
         Tabling(t, st, n, fr, sy), Stack(st, n) # <<>>, t[Last(Stack(st, n))].kind \notin Scopes,
         List(g), Len(g) = Len(fr), \A j \in 1..Len(fr) - 1 : g[j] = fr[j]
  PROVE  Tabling(t, st, n, g, sy)
<1>1. Framed(t, Stack(st, n), fr, sy)  BY DEF Tabling
<1>2. Framed(t, Stack(st, n), g, sy)  BY <1>1, FramedMark
<1> QED BY <1>2 DEF Tabling

-----------------------------------------------------------------------------
(* Code that ends in y, and what is new before y is no jump.                 *)
Tailed(c, c2, y) ==
  /\ c2 \in Seq(Instruction) /\ Len(c) \in Nat /\ Len(c2) \in Nat
  /\ Len(c) < Len(c2) /\ c2[Len(c2)] = y
  /\ \A i \in 1..Len(c) : c2[i] = c[i]
  /\ \A i \in Len(c) + 1 .. Len(c2) : i = Len(c2) \/ c2[i].op \notin {"jump", "branch"}

Adds(c, c2, k) == Len(c2) = Len(c) + k

LEMMA TailedBy ==
  ASSUME NEW n \in Nat, NEW c, Coded(c, n), NEW d, Emits(n, d), Quiet(d),
         NEW y \in Instruction, y.node = n + 1, NEW c2, c2 = c \o Append(d, y)
  PROVE  Follows(c, c2, n) /\ Tailed(c, c2, y) /\ Adds(c, c2, Len(d) + 1)
<1>1. PICK T : T = Instruction  OBVIOUS
<1>2. d \in Seq(T) /\ y \in T  BY <1>1 DEF Emits
<1>3. PICK e : e = Append(d, y)  OBVIOUS
<1>4. /\ Len(e) = Len(d) + 1 /\ Len(d) \in Nat
      /\ \A i \in 1..Len(d) : e[i] = d[i]
      /\ e[Len(d) + 1] = y
  BY <1>2, <1>3, AppendProperties
<1>5. Emits(n, e)  BY <1>3, AppendIs
<1>6. Follows(c, c2, n) /\ Added(c, e, c2)  BY <1>3, <1>5, EmitsAfter
<1>7. /\ c2 \in Seq(Instruction) /\ Len(c2) = Len(c) + Len(e) /\ Len(c) \in Nat
      /\ \A i \in 1..Len(c) : c2[i] = c[i]
      /\ \A i \in Len(c) + 1 .. Len(c2) : c2[i] = e[i - Len(c)] /\ i - Len(c) \in 1..Len(e)
  BY <1>6 DEF Added
<1>8. PICK l \in Nat, m \in Nat : l = Len(c) /\ m = Len(d)  BY <1>4, <1>7
<1>9. Len(c2) = l + m + 1 /\ Len(e) = m + 1  BY <1>4, <1>7, <1>8
<1>10. l + m + 1 \in l + 1 .. l + m + 1 /\ (l + m + 1) - l = m + 1 /\ l < l + m + 1  BY <1>8
<1>11. c2[Len(c2)] = y  BY <1>4, <1>7, <1>8, <1>9, <1>10
<1>12. ASSUME NEW i \in Len(c) + 1 .. Len(c2)
       PROVE  i = Len(c2) \/ c2[i].op \notin {"jump", "branch"}
  <2>1. i \in l + 1 .. l + m + 1  BY <1>8, <1>9
  <2>2. CASE i = l + m + 1  BY <1>9, <2>2
  <2>3. CASE i # l + m + 1
    <3>1. i - l \in 1..m  BY <2>1, <2>3
    <3>2. c2[i] = d[i - l]  BY <1>4, <1>7, <1>8, <3>1
    <3> QED BY <1>8, <3>1, <3>2 DEF Quiet
  <2> QED BY <2>2, <2>3
<1> QED BY <1>6, <1>7, <1>8, <1>9, <1>10, <1>11, <1>12 DEF Tailed, Adds

LEMMA TailedIs ==
  ASSUME NEW n \in Nat, NEW c, Coded(c, n), NEW d, Emits(n, d), Quiet(d),
         NEW y \in Instruction, y.node = n + 1,
         NEW c2, c2 = Append(c \o d, y) \/ c2 = (c \o d) \o <<y>>
  PROVE  Follows(c, c2, n) /\ Tailed(c, c2, y) /\ Adds(c, c2, Len(d) + 1)
<1>1. PICK T : T = Instruction  OBVIOUS
<1>2. c \in Seq(T) /\ d \in Seq(T) /\ y \in T /\ <<y>> \in Seq(T)  BY <1>1 DEF Emits, Coded
<1>3. c \o d \in Seq(T)  BY <1>2, ConcatProperties
<1>4. Append(c \o d, y) = (c \o d) \o <<y>>  BY <1>2, <1>3, AppendIsConcat
<1>5. (c \o d) \o <<y>> = c \o (d \o <<y>>)  BY <1>2, ConcatAssociative
<1>6. Append(d, y) = d \o <<y>>  BY <1>2, AppendIsConcat
<1>7. c2 = c \o Append(d, y)  BY <1>4, <1>5, <1>6
<1> QED BY <1>7, TailedBy

LEMMA TailedOne ==
  ASSUME NEW n \in Nat, NEW c, Coded(c, n), NEW y \in Instruction, y.node = n + 1,
         NEW c2, c2 = Append(c, y)
  PROVE  Follows(c, c2, n) /\ Tailed(c, c2, y) /\ Adds(c, c2, 1)
<1>1. PICK T : T = Instruction  OBVIOUS
<1>2. c \in Seq(T)  BY <1>1 DEF Coded
<1>3. PICK d : d = <<>>  OBVIOUS
<1>4. c \o d = c /\ Len(d) = 0 /\ Len(c) \in Nat  BY <1>2, <1>3, ConcatEmptySeq
<1>5. Emits(n, d) /\ Quiet(d)  BY <1>3, EmitsNone
<1>6. c2 = Append(c \o d, y)  BY <1>4
<1>7. Follows(c, c2, n) /\ Tailed(c, c2, y) /\ Adds(c, c2, Len(d) + 1)
  BY <1>5, <1>6, TailedIs
<1> QED BY <1>4, <1>7

LEMMA TailedKeeps ==
  ASSUME NEW t, NEW st, NEW n, NEW c, NEW c2, NEW y, Tailed(c, c2, y)
  PROVE  /\ TargetsKept(t, st, c, c2, n) /\ Len(c2) \in 1..Len(c2)
         /\ Len(c2) \in Len(c) + 1 .. Len(c2)
         /\ \A fr, bp, cp, gp, lb :
              (y.op \in {"jump", "branch"} =>
                 \/ Lands(t, st, c2, n + 1, Len(c2))
                 \/ Waiting(t, st, c2, n + 1, fr, bp, cp, gp, lb, Len(c2)))
              => Placing(t, st, c, c2, n, fr, bp, cp, gp, lb)
<1>1. /\ Len(c) \in Nat /\ Len(c2) \in Nat /\ Len(c) < Len(c2) /\ c2[Len(c2)] = y
      /\ \A i \in 1..Len(c) : c2[i] = c[i]
      /\ \A i \in Len(c) + 1 .. Len(c2) : i = Len(c2) \/ c2[i].op \notin {"jump", "branch"}
  BY DEF Tailed
<1>2. TargetsKept(t, st, c, c2, n)  BY <1>1 DEF TargetsKept
<1>3. Len(c2) \in 1..Len(c2) /\ Len(c2) \in Len(c) + 1 .. Len(c2)  BY <1>1
<1>4. ASSUME NEW fr, NEW bp, NEW cp, NEW gp, NEW lb,
             y.op \in {"jump", "branch"} =>
                 \/ Lands(t, st, c2, n + 1, Len(c2))
                 \/ Waiting(t, st, c2, n + 1, fr, bp, cp, gp, lb, Len(c2))
      PROVE  Placing(t, st, c, c2, n, fr, bp, cp, gp, lb)
  BY <1>1, <1>4 DEF Placing
<1> QED BY <1>2, <1>3, <1>4

-----------------------------------------------------------------------------
(* The invariant of the generator.                                           *)
JumpOK(st) ==
  /\ Complete(st) /\ OneDefault(ast) /\ OneLabel(ast)
  /\ at \in 1..Len(ast) + 1 /\ scope \in Int
  /\ Tabling(ast, st, at - 1, frames, symbols)
  /\ Patched(ast, st, at - 1, code, frames, breaks, loops, breakPatches, continuePatches,
             gotoPatches, labels)

Meeting(st, n, kinds) ==
  /\ Complete(st) /\ TreeOK(ast, st) /\ OneDefault(ast) /\ OneLabel(ast)
  /\ n \in 0..Len(ast) - 1 /\ n \in Nat /\ at = n + 1 /\ scope \in Int
  /\ Tabling(ast, st, n, frames, symbols) /\ Tabled(n)
  /\ Patched(ast, st, n, code, frames, breaks, loops, breakPatches, continuePatches,
             gotoPatches, labels)
  /\ Coded(code, n) /\ Frames(ast, st, code, n, Stack(st, n), frames)
  /\ ast[n + 1].kind \in kinds
  /\ ast' = ast /\ at' = at + 1

LEMMA Meets ==
  ASSUME NEW st, JumpOK(st), NEW kinds, Emitting(kinds)
  PROVE  \E n : Meeting(st, n, kinds)
<1>1. Len(ast) \in Nat /\ at \in Nat /\ at >= 1 /\ TreeOK(ast, st)
  BY DEF JumpOK, Complete, TreeOK
<1>2. PICK n \in Nat : n = at - 1  BY <1>1
<1>3. at = n + 1 /\ at <= Len(ast) /\ n \in 0..Len(ast) - 1  BY <1>1, <1>2 DEF Emitting
<1>4. /\ Tabling(ast, st, n, frames, symbols)
      /\ Patched(ast, st, n, code, frames, breaks, loops, breakPatches, continuePatches,
                 gotoPatches, labels)
  BY <1>2 DEF JumpOK
<1>5. ast[n + 1].kind \in kinds /\ ast' = ast /\ at' = at + 1
  BY <1>3 DEF Emitting, parseVars
<1>6. Tabled(n)  BY <1>3, <1>4 DEF Tabling, Tabled
<1>7. Coded(code, n) /\ Frames(ast, st, code, n, Stack(st, n), frames)
  BY <1>4 DEF Patched, Linked
<1> QED BY <1>1, <1>3, <1>4, <1>5, <1>6, <1>7 DEF Meeting, JumpOK

LEMMA Met ==
  ASSUME NEW st, NEW n, NEW kinds, Meeting(st, n, kinds), scope' \in Int,
         Tabling(ast, st, n + 1, frames', symbols'),
         Patched(ast, st, n + 1, code', frames', breaks', loops', breakPatches',
                 continuePatches', gotoPatches', labels')
  PROVE  JumpOK(st)'
<1>1. /\ Complete(st) /\ OneDefault(ast) /\ OneLabel(ast) /\ n \in 0..Len(ast) - 1 /\ n \in Nat
      /\ at = n + 1 /\ ast' = ast /\ at' = at + 1 /\ Len(ast) \in Nat
  BY DEF Meeting, TreeOK
<1>2. at' - 1 = n + 1 /\ at' \in 1..Len(ast) + 1  BY <1>1
<1>3. Complete(st)'  BY <1>1 DEF Complete
<1> QED BY <1>1, <1>2, <1>3 DEF JumpOK

LEMMA MetCalm ==
  ASSUME NEW st, NEW n, NEW kinds, Meeting(st, n, kinds), kinds \subseteq Calm,
         UNCHANGED <<patchVars, labels>>, scope' \in Int,
         Tabling(ast, st, n + 1, frames', symbols'), Follows(code, code', n),
         Frames(ast, st, code', n + 1, Stack(st, n + 1), frames'),
         FramesWait(ast, st, code, code', n, frames, frames'),
         TargetsKept(ast, st, code, code', n), CasesWait(ast, st, code, code', n),
         Placing(ast, st, code, code', n, frames', breakPatches, continuePatches, gotoPatches,
                 labels)
  PROVE  JumpOK(st)'
<1>1. /\ breaks' = breaks /\ loops' = loops /\ breakPatches' = breakPatches
      /\ continuePatches' = continuePatches /\ gotoPatches' = gotoPatches /\ labels' = labels
  BY DEF patchVars
<1>2. /\ Patched(ast, st, n, code, frames, breaks, loops, breakPatches, continuePatches,
                 gotoPatches, labels)
      /\ TreeOK(ast, st) /\ n \in 0..Len(ast) - 1 /\ ast[n + 1].kind \in Calm
  BY DEF Meeting
<1>3. PICK c2, fr2 : c2 = code' /\ fr2 = frames'  OBVIOUS
<1>4. Patched(ast, st, n + 1, c2, fr2, breaks, loops, breakPatches, continuePatches,
              gotoPatches, labels)
  BY <1>2, <1>3, PatchedCalm
<1> QED BY <1>1, <1>3, <1>4, Met

-----------------------------------------------------------------------------
(* Each node leaves the invariant as it was: blocks, declarations, returns.  *)
LEMMA FrameTyped ==
  ASSUME NEW kept \in Nat, NEW start \in Nat, NEW patch \in Nat, NEW cases \in SUBSET Nat,
         NEW f, f = Frame(kept, start, patch, cases)
  PROVE  /\ f \in FrameType /\ f.kept = kept /\ f.start = start /\ f.patch = patch
         /\ f.cases = cases
BY DEF Frame, FrameType

LEMMA PlainFrame ==
  ASSUME NEW kept \in Nat, NEW f, f = Frame(kept, 0, 0, {})
  PROVE  f \in FrameType /\ f.kept = kept /\ f.patch = 0
<1>1. PICK zero \in Nat, none \in SUBSET Nat : zero = 0 /\ none = {}  OBVIOUS
<1>2. f = Frame(kept, zero, zero, none)  BY <1>1
<1> QED BY <1>1, <1>2, FrameTyped

LEMMA ScopeFrame ==
  ASSUME NEW t, NEW st, NEW c, NEW n, NEW m, t[m].kind \in {"block", "case", "default"},
         NEW f, f.patch = 0
  PROVE  FrameOK(t, st, c, n, m, f)
BY DEF FrameOK, Starts, Leaving, Branching, Defaulting, Testing

LEMMA JumpBlock ==
  ASSUME NEW st, JumpOK(st), EmitBlock
  PROVE  JumpOK(st)'
<1>1. /\ Emitting({"block"}) /\ scope' = scope + 1 /\ symbols' = symbols /\ code' = code
      /\ UNCHANGED <<patchVars, labels>>
  BY DEF EmitBlock
<1>2. PICK n : Meeting(st, n, {"block"})  BY <1>1, Meets
<1>3. PICK f : f = Frame(Len(symbols), 0, 0, {}) /\ Grows(frames', frames, f)
  BY DEF EmitBlock, Push, Grows
<1>4. /\ TreeOK(ast, st) /\ n \in 0..Len(ast) - 1 /\ n \in Nat /\ ast[n + 1].kind = "block"
      /\ Coded(code, n) /\ Frames(ast, st, code, n, Stack(st, n), frames)
      /\ Tabling(ast, st, n, frames, symbols) /\ scope \in Int
  BY <1>2 DEF Meeting
<1>5. PICK k \in Nat : k = Len(symbols)  BY <1>4 DEF Tabling
<1>6. f \in FrameType /\ f.kept = Len(symbols) /\ f.patch = 0  BY <1>3, <1>5, PlainFrame
<1>7. /\ ast[n + 1].kind \in Openers /\ ast[n + 1].kind # "default"
      /\ ast[n + 1].kind \in Scoped \cup {"if"} /\ ast[n + 1].kind # "case"
  BY <1>4 DEF Openers, Scoped
<1>8. /\ Follows(code, code, n) /\ TargetsKept(ast, st, code, code, n)
      /\ Placing(ast, st, code, code, n, frames', breakPatches, continuePatches, gotoPatches,
                 labels)
  BY <1>4, Nothing
<1>9. FrameOK(ast, st, code, n + 1, n + 1, f)  BY <1>4, <1>6, ScopeFrame
<1>10. /\ Frames(ast, st, code, n + 1, Stack(st, n + 1), frames')
       /\ FramesWait(ast, st, code, code, n, frames, frames')
  BY <1>3, <1>4, <1>6, <1>7, <1>8, <1>9, FramesOpen
<1>11. CasesWait(ast, st, code, code, n)  BY <1>7, NoCase
<1>12. Tabling(ast, st, n + 1, frames', symbols)  BY <1>3, <1>4, <1>6, <1>7, TablingOpen
<1>13. {"block"} \subseteq Calm  BY DEF Calm
<1>14. scope' \in Int  BY <1>1, <1>4
<1> QED BY <1>1, <1>2, <1>8, <1>10, <1>11, <1>12, <1>13, <1>14, MetCalm

LEMMA JumpBlockEnd ==
  ASSUME NEW st, JumpOK(st), EmitBlockEnd
  PROVE  JumpOK(st)'
<1> DEFINE K == {"endblock", "endcase"}
<1>1. /\ Emitting(K) /\ scope' = scope - 1 /\ frames' = Front(frames)
      /\ code' = code \o CleanupFrom(Top.kept) /\ symbols' = SubSeq(symbols, 1, Top.kept)
      /\ UNCHANGED <<patchVars, labels>>
  BY DEF EmitBlockEnd, Pop
<1>2. PICK n : Meeting(st, n, K)  BY <1>1, Meets
<1>4. /\ TreeOK(ast, st) /\ n \in 0..Len(ast) - 1 /\ n \in Nat /\ ast[n + 1].kind \in K
      /\ Coded(code, n) /\ Frames(ast, st, code, n, Stack(st, n), frames)
      /\ Tabling(ast, st, n, frames, symbols) /\ scope \in Int /\ Tabled(n)
  BY <1>2 DEF Meeting
<1>5. PICK d, c2 : d = CleanupFrom(Top.kept) /\ c2 = code'  OBVIOUS
<1>6. Emits(n, d) /\ Quiet(d)  BY <1>4, <1>5, CleanupIs
<1>7. /\ ast[n + 1].kind \in Ends /\ ast[n + 1].kind \in {"endblock", "endcase", "endfor"}
      /\ ast[n + 1].kind # "case" /\ Closes(ast[n + 1].kind) \subseteq {"block", "case", "default"}
  BY <1>4 DEF Ends, Closes
<1>8. /\ Follows(code, c2, n) /\ TargetsKept(ast, st, code, c2, n)
      /\ Placing(ast, st, code, c2, n, frames', breakPatches, continuePatches, gotoPatches,
                 labels)
  BY <1>1, <1>4, <1>5, <1>6, Quietly
<1>9. PICK top, last : top = Stack(st, n)[Level(st, n)] /\ last = Last(frames)  OBVIOUS
<1>10. /\ FrameOK(ast, st, code, n, top, last)
       /\ Frames(ast, st, c2, n + 1, Stack(st, n + 1), Front(frames))
       /\ TopLands(ast, st, code, c2, n, top, last) =>
            FramesWait(ast, st, code, c2, n, frames, Front(frames))
  BY <1>4, <1>7, <1>8, <1>9, FramesClose
<1>11. ast[top].kind \in {"block", "case", "default"}  BY <1>4, <1>7, <1>9, EndShuts
<1>12. last.patch = 0  BY <1>10, <1>11 DEF FrameOK, Leaving
<1>13. TopLands(ast, st, code, c2, n, top, last)  BY <1>12 DEF TopLands
<1>14. CasesWait(ast, st, code, c2, n)  BY <1>7, NoCase
<1>15. Tabling(ast, st, n + 1, Front(frames), symbols')  BY <1>1, <1>4, <1>7, TablingEnd DEF Top
<1>16. K \subseteq Calm  BY DEF Calm
<1>17. scope' \in Int  BY <1>1, <1>4
<1> HIDE DEF K
<1> QED BY <1>1, <1>2, <1>5, <1>8, <1>10, <1>13, <1>14, <1>15, <1>16, <1>17, MetCalm

\* A statement that changes neither the frames nor the number of the symbols.
LEMMA JumpLeaf ==
  ASSUME NEW st, NEW n, NEW kinds, Meeting(st, n, kinds), kinds \subseteq Calm,
         kinds \subseteq Leaves, frames' = frames, scope' = scope,
         UNCHANGED <<patchVars, labels>>, Tabling(ast, st, n + 1, frames, symbols'),
         Follows(code, code', n), TargetsKept(ast, st, code, code', n),
         Placing(ast, st, code, code', n, frames, breakPatches, continuePatches, gotoPatches,
                 labels)
  PROVE  JumpOK(st)'
<1>1. /\ TreeOK(ast, st) /\ n \in 0..Len(ast) - 1 /\ ast[n + 1].kind \in Leaves
      /\ Coded(code, n) /\ Frames(ast, st, code, n, Stack(st, n), frames) /\ scope' \in Int
  BY DEF Meeting
<1>2. PICK c2 : c2 = code'  OBVIOUS
<1>3. /\ Frames(ast, st, c2, n + 1, Stack(st, n + 1), frames)
      /\ FramesWait(ast, st, code, c2, n, frames, frames)
  BY <1>1, <1>2, FramesLeaf
<1>4. ast[n + 1].kind # "case"  BY <1>1 DEF Leaves, Declarations
<1>5. CasesWait(ast, st, code, c2, n)  BY <1>4, NoCase
<1> QED BY <1>1, <1>2, <1>3, <1>5, MetCalm

LEMMA SymbolIs ==
  ASSUME NEW e \in NodeType, e.name \in Variable, NEW kind \in Declarations, NEW depth \in Int,
         NEW m \in Nat, at = m, NEW y, y = Symbol(e.name, kind, depth, e.epoch, e.depth)
  PROVE  y \in SymbolType /\ y.node = m
<1>1. e.epoch \in Nat /\ e.depth \in Nat  BY DEF NodeType
<1>2. PICK a, b, c : a = e.name /\ b = e.epoch /\ c = e.depth  OBVIOUS
<1>3. a \in Variable /\ b \in Nat /\ c \in Nat /\ at \in Nat /\ y = Symbol(a, kind, depth, b, c)
  BY <1>1, <1>2
<1>4. y \in SymbolType /\ y.node = at /\ y.name = a  BY <1>3, SymbolOf
<1> QED BY <1>4

LEMMA JumpDeclaration ==
  ASSUME NEW st, JumpOK(st), EmitDeclaration
  PROVE  JumpOK(st)'
<1>1. /\ Emitting(Declarations) /\ UNCHANGED <<frames, scope, patchVars, labels>>
      /\ CanDeclare(ast[at].name, scope)
  BY DEF EmitDeclaration
<1>2. PICK n : Meeting(st, n, Declarations)  BY <1>1, Meets
<1>3. PICK e : e = ast[at]  OBVIOUS
<1>4. /\ TreeOK(ast, st) /\ n \in 0..Len(ast) - 1 /\ n \in Nat /\ at = n + 1
      /\ e.kind \in Declarations /\ e = ast[n + 1] /\ scope \in Int
      /\ Coded(code, n) /\ Tabling(ast, st, n, frames, symbols) /\ Tabled(n)
  BY <1>2, <1>3 DEF Meeting
<1>5. Suits(ast, Stack(st, n), e) /\ e \in NodeType
  <2>1. n + 1 \in 1..Len(ast) /\ (n + 1) - 1 = n /\ ast \in Seq(NodeType)  BY <1>4 DEF TreeOK
  <2>2. NodeOK(ast, st, n + 1)  BY <1>4, <2>1 DEF TreeOK
  <2> QED BY <1>4, <2>1, <2>2 DEF NodeOK
<1>6. PICK y : y = Symbol(e.name, e.kind, scope, e.epoch, e.depth)  OBVIOUS
<1>7. Grows(symbols', symbols, y)  BY <1>3, <1>6 DEF EmitDeclaration, Grows
<1>8. e.name \in Variable /\ e.epoch \in Nat /\ e.depth \in Nat
  BY <1>4, <1>5 DEF Suits, Variable, NodeType
<1>9. y \in SymbolType /\ y.node = n + 1
  <2>1. PICK k, m : k = e.kind /\ m = n + 1  OBVIOUS
  <2>2. k \in Declarations /\ m \in Nat /\ at = m /\ y = Symbol(e.name, k, scope, e.epoch, e.depth)
    BY <1>4, <1>6, <2>1
  <2>3. y \in SymbolType /\ y.node = m  BY <1>4, <1>5, <1>8, <2>2, SymbolIs
  <2> QED BY <2>1, <2>3
<1>10. Len(symbols) < MaxLocals  BY <1>1 DEF CanDeclare
<1>11. Declarations \subseteq Leaves /\ Declarations \subseteq Calm
  BY DEF Leaves, Calm, Declarations
<1>12. Tabling(ast, st, n + 1, frames, symbols')
  <2>1. ast[n + 1].kind \in Leaves  BY <1>4, <1>11
  <2> QED BY <1>4, <1>7, <1>9, <1>10, <2>1, TablingDeclare
<1>13. PICK r, d : r = Len(symbols) + 1 /\ d = Storage(e.kind, r)  OBVIOUS
<1>14. code' = code \o d  BY <1>3, <1>13 DEF EmitDeclaration
<1>15. Emits(n, d) /\ Quiet(d)
  <2>1. Len(symbols) \in Nat  BY <1>4 DEF Tabling
  <2>2. r \in 0..MaxLocals  BY <1>10, <1>13, <2>1, LocalsFit
  <2> QED BY <1>4, <1>13, <2>2, StorageIs
<1>16. PICK c2 : c2 = code'  OBVIOUS
<1>17. /\ Follows(code, c2, n) /\ TargetsKept(ast, st, code, c2, n)
       /\ Placing(ast, st, code, c2, n, frames, breakPatches, continuePatches, gotoPatches,
                  labels)
  BY <1>4, <1>14, <1>15, <1>16, Quietly
<1> QED BY <1>1, <1>2, <1>11, <1>12, <1>16, <1>17, JumpLeaf

LEMMA GoesIs ==
  ASSUME NEW n \in Nat, at = n + 1, NEW op \in {"jump", "branch", "ret"}, NEW to \in Nat,
         NEW y, y = Ins(op, 0, to)
  PROVE  y \in Instruction /\ y.node = n + 1 /\ y.op = op /\ y.to = to
<1>1. PICK r \in 0..MaxLocals : r = 0  BY LocalsFit
<1> QED BY <1>1 DEF Ins, Instruction

LEMMA JumpReturn ==
  ASSUME NEW st, JumpOK(st), EmitReturn
  PROVE  JumpOK(st)'
<1> DEFINE K == {"return"}
<1>1. /\ Emitting(K) /\ UNCHANGED <<frames, symbols, scope, patchVars, labels>>
      /\ code' = code \o AggregateCleanup \o <<Ins("ret", 0, 0)>>
  BY DEF EmitReturn
<1>2. PICK n : Meeting(st, n, K)  BY <1>1, Meets
<1>3. K \subseteq Calm /\ K \subseteq Leaves  BY DEF Calm, Leaves
<1> HIDE DEF K
<1>4. /\ TreeOK(ast, st) /\ n \in 0..Len(ast) - 1 /\ n \in Nat /\ at = n + 1
      /\ Coded(code, n) /\ Tabling(ast, st, n, frames, symbols) /\ Tabled(n)
      /\ ast[n + 1].kind \in Leaves
  BY <1>2, <1>3 DEF Meeting
<1>5. PICK d, y, c2 : d = AggregateCleanup /\ y = Ins("ret", 0, 0) /\ c2 = code'  OBVIOUS
<1>6. Emits(n, d) /\ Quiet(d)  BY <1>4, <1>5, CleanupIs
<1>7. y \in Instruction /\ y.node = n + 1 /\ y.op \notin {"jump", "branch"}
  <2>1. PICK op, to : op = "ret" /\ to = 0  OBVIOUS
  <2>2. op \in {"jump", "branch", "ret"} /\ to \in Nat /\ y = Ins(op, 0, to)  BY <1>5, <2>1
  <2>3. y \in Instruction /\ y.node = n + 1 /\ y.op = op /\ y.to = to  BY <1>4, <2>2, GoesIs
  <2> QED BY <2>1, <2>3
<1>8. Follows(code, c2, n) /\ Tailed(code, c2, y)
  <2>1. c2 = (code \o d) \o <<y>>  BY <1>1, <1>5
  <2> QED BY <1>4, <1>6, <1>7, <2>1, TailedIs
<1>9. /\ TargetsKept(ast, st, code, c2, n)
      /\ Placing(ast, st, code, c2, n, frames, breakPatches, continuePatches, gotoPatches,
                 labels)
  BY <1>7, <1>8, TailedKeeps
<1>10. Tabling(ast, st, n + 1, frames, symbols)
  <2>1. Alike(symbols, symbols)  BY <1>4 DEF Alike, Tabling
  <2> QED BY <1>4, <2>1, TablingLeaf
<1> QED BY <1>1, <1>2, <1>3, <1>5, <1>8, <1>9, <1>10, JumpLeaf

-----------------------------------------------------------------------------
(* Expressions and ifs                                                       *)
LEMMA FoundSymbol ==
  ASSUME NEW n, Tabled(n), NEW x, NEW i, i = FindSymbol(x), i # 0
  PROVE  i \in 1..Len(symbols) /\ i \in 0..MaxLocals
<1> DEFINE S == {j \in DOMAIN symbols : symbols[j].name = x}
<1>1. PICK L \in Nat : L = Len(symbols) /\ L <= MaxLocals /\ DOMAIN symbols = 1..L
  BY DEF Tabled
<1>2. S \in SUBSET (1..L)  BY <1>1
<1>3. i = IF S = {} THEN 0 ELSE CHOOSE j \in S : \A k \in S : k <= j  BY DEF FindSymbol
<1> HIDE DEF S
<1>4. S # {}  BY <1>3
<1>5. \E j \in S : \A k \in S : k <= j  BY <1>2, <1>4, Greatest
<1>6. i \in S  BY <1>3, <1>4, <1>5
<1>7. i \in 1..L  BY <1>2, <1>6
<1>8. i \in 0..MaxLocals  BY <1>1, <1>7, LocalsFit
<1> QED BY <1>1, <1>7, <1>8

LEMMA JumpExpression ==
  ASSUME NEW st, JumpOK(st), EmitExpression
  PROVE  JumpOK(st)'
<1> DEFINE K == {"update", "address"}
<1>1. PICK e, i : e = ast[at] /\ i = FindSymbol(e.name)  OBVIOUS
<1>2. /\ Emitting(K) /\ i # 0 /\ UNCHANGED <<frames, scope, patchVars, labels>>
      /\ code' = code \o InContext(e.how, Touch(e.kind, i))
      /\ symbols' = AfterTouch(e.kind, i)
  BY <1>1 DEF EmitExpression
<1>3. PICK n : Meeting(st, n, K)  BY <1>2, Meets
<1>4. K \subseteq Calm /\ K \subseteq Leaves  BY DEF Calm, Leaves, Declarations
<1>5. /\ TreeOK(ast, st) /\ n \in 0..Len(ast) - 1 /\ n \in Nat /\ at = n + 1
      /\ Coded(code, n) /\ Tabling(ast, st, n, frames, symbols) /\ Tabled(n)
      /\ ast[n + 1].kind \in Leaves /\ ast[n + 1].kind \in {"update", "address"}
  BY <1>3, <1>4 DEF Meeting
<1> HIDE DEF K
<1>6. i \in 0..MaxLocals  BY <1>1, <1>2, <1>5, FoundSymbol
<1>7. PICK b : b = Touch(e.kind, i)  OBVIOUS
<1>8. Emits(n, b) /\ Quiet(b) /\ Len(b) \in Nat
  <2>1. PICK kind : kind = e.kind  OBVIOUS
  <2> QED BY <1>5, <1>6, <1>7, <2>1, TouchIs
<1>9. PICK how, d, c2 : how = e.how /\ d = InContext(how, b) /\ c2 = code'  OBVIOUS
<1>10. Len(code) \in Nat  BY <1>5, CodeLength
<1>11. /\ Emits(n, d)
       /\ \A k \in 1..Len(d) : d[k].op \in {"jump", "branch"} =>
            d[k].to = Len(code) + Len(d) + 1
  BY <1>5, <1>8, <1>9, <1>10, ExpressionIs
<1>12. c2 = code \o d  BY <1>2, <1>7, <1>9
<1>13. Follows(code, c2, n) /\ Added(code, d, c2)  BY <1>5, <1>11, <1>12, EmitsAfter
<1>14. /\ CodeAt(c2, n + 2) = Len(c2) + 1 /\ Coded(c2, n + 1) /\ Len(c2) \in Nat
  BY <1>5, <1>13, CodeNow
<1>15. TargetsKept(ast, st, code, c2, n)  BY <1>13 DEF Added, TargetsKept
<1>16. ASSUME NEW j \in Len(code) + 1 .. Len(c2), c2[j].op \in {"jump", "branch"}
       PROVE  Lands(ast, st, c2, n + 1, j)
  <2>1. /\ c2[j] = d[j - Len(code)] /\ j - Len(code) \in 1..Len(d)
        /\ Len(c2) = Len(code) + Len(d)
    BY <1>13 DEF Added
  <2>2. c2[j].to = CodeAt(c2, n + 2)  BY <1>11, <1>14, <1>16, <2>1
  <2>3. c2[j].node = n + 1  BY <1>13 DEF Follows
  <2>4. PICK k, at2 : k = n + 2 /\ at2 = "at"  OBVIOUS
  <2>5. PICK x, op, r : x = c2[j].node /\ op = c2[j].op /\ r = Rank(c2, j)  OBVIOUS
  <2>6. AimsStraight(ast, x, at2, k)  BY <1>5, <2>3, <2>4, <2>5 DEF AimsStraight
  <2>7. Aims(ast, st, c2[j].node, c2[j].op, Rank(c2, j), at2, k)  BY <2>5, <2>6 DEF Aims
  <2>8. j \in 1..Len(c2) /\ n + 1 \in Nat /\ n + 1 <= Len(ast) /\ Len(ast) \in Nat
        /\ k \in 1..(n + 1) + 1
    BY <1>5, <1>10, <1>14, <2>4 DEF TreeOK
  <2> QED BY <1>14, <2>2, <2>4, <2>7, <2>8, LandsAt
<1>17. Placing(ast, st, code, c2, n, frames, breakPatches, continuePatches, gotoPatches, labels)
  BY <1>16 DEF Placing
<1>18. Tabling(ast, st, n + 1, frames, symbols')
  <2>1. Alike(symbols, symbols')  BY <1>2, <1>5, TouchAlike DEF Tabling
  <2> QED BY <1>5, <2>1, TablingLeaf
<1> QED BY <1>2, <1>3, <1>4, <1>9, <1>13, <1>15, <1>17, <1>18, JumpLeaf

-----------------------------------------------------------------------------
(* One target is set.                                                        *)
Sets(t, st, c, c1, c2, n, i, to) ==
  /\ Follows(c, c2, n) /\ Retargets(c1, c2) /\ c2[i].to = to /\ i \in 1..Len(c2)
  /\ c2[i].op = c[i].op /\ c2[i].node = c[i].node
  /\ Lands(t, st, c2, n + 1, i) => TargetsKept(t, st, c, c2, n)
  /\ \A j \in 1..Len(c1) : j # i => c2[j].to = c1[j].to
KeepsTargets(c, c1) == \A j \in 1..Len(c) : c1[j].to = c[j].to

LEMMA PatchLands ==
  ASSUME NEW t, NEW st, NEW n \in Nat, NEW c, Coded(c, n), NEW c1, Follows(c, c1, n),
         KeepsTargets(c, c1), NEW i \in 1..Len(c), NEW to \in Nat, NEW c2, c2 = Patch(c1, i, to)
  PROVE  Sets(t, st, c, c1, c2, n, i, to)
<1>0. \A j \in 1..Len(c) : c1[j].to = c[j].to  BY DEF KeepsTargets
<1>1. c1 \in Seq(Instruction) /\ Len(c) <= Len(c1) /\ Len(c) \in Nat /\ Len(c1) \in Nat
      /\ \A j \in 1..Len(c) : c1[j].op = c[j].op /\ c1[j].node = c[j].node
  BY CodeLength DEF Follows
<1>2. \A j \in 1..Len(c) : j \in 1..Len(c1)  BY <1>1
<1>3. Retargets(c1, c2) /\ \A j \in 1..Len(c1) : c2[j].to = IF j = i THEN to ELSE c1[j].to
  BY <1>1, <1>2, PatchIs
<1>4. Follows(c, c2, n)  BY <1>1, <1>3, RetargetsFollows
<1>5. Len(c2) = Len(c1)  BY <1>3 DEF Retargets
<1>6. c2[i].op = c[i].op /\ c2[i].node = c[i].node  BY <1>4 DEF Follows
<1>7. Lands(t, st, c2, n + 1, i) => TargetsKept(t, st, c, c2, n)
  BY <1>0, <1>2, <1>3 DEF TargetsKept
<1> QED BY <1>2, <1>3, <1>4, <1>5, <1>6, <1>7 DEF Sets

LEMMA JumpIf ==
  ASSUME NEW st, JumpOK(st), EmitIf
  PROVE  JumpOK(st)'
<1>1. /\ Emitting({"if"}) /\ UNCHANGED <<symbols, scope, patchVars, labels>>
      /\ code' = Append(code, Ins("branch", 0, 0))
  BY DEF EmitIf
<1>2. PICK n : Meeting(st, n, {"if"})  BY <1>1, Meets
<1>3. PICK f, start, c2, y : /\ f = Frame(0, start, Len(code) + 1, {}) /\ start = 0
                             /\ Grows(frames', frames, f)
                             /\ c2 = code' /\ y = Ins("branch", 0, 0)
  BY DEF EmitIf, Push, Grows, Size
<1>4. /\ TreeOK(ast, st) /\ n \in 0..Len(ast) - 1 /\ n \in Nat /\ ast[n + 1].kind = "if"
      /\ Coded(code, n) /\ Frames(ast, st, code, n, Stack(st, n), frames) /\ at = n + 1
      /\ Tabling(ast, st, n, frames, symbols) /\ scope \in Int
  BY <1>2 DEF Meeting
<1>5. y \in Instruction /\ y.node = n + 1 /\ y.op = "branch"
  <2>1. PICK op, to : op = "branch" /\ to = 0  OBVIOUS
  <2>2. op \in {"jump", "branch", "ret"} /\ to \in Nat /\ y = Ins(op, 0, to)  BY <1>3, <2>1
  <2>3. y \in Instruction /\ y.node = n + 1 /\ y.op = op /\ y.to = to  BY <1>4, <2>2, GoesIs
  <2> QED BY <2>1, <2>3
<1>6. Follows(code, c2, n) /\ Tailed(code, c2, y) /\ Adds(code, c2, 1)
  BY <1>1, <1>3, <1>4, <1>5, TailedOne
<1>7. Len(c2) = Len(code) + 1 /\ Len(code) \in Nat /\ Len(c2) \in Nat /\ c2[Len(c2)] = y
  BY <1>6 DEF Adds, Tailed
<1>8. f \in FrameType /\ f.patch = Len(c2)
  <2>1. PICK zero \in Nat, patch \in Nat, none \in SUBSET Nat :
          zero = 0 /\ patch = Len(c2) /\ none = {}
    BY <1>7
  <2>2. f = Frame(zero, zero, patch, none)  BY <1>3, <1>7, <2>1
  <2> QED BY <2>1, <2>2, FrameTyped
<1>9. FrameOK(ast, st, c2, n + 1, n + 1, f)
  <2>1. f.patch \in 1..Len(c2) /\ c2[f.patch].node = n + 1  BY <1>5, <1>7, <1>8
  <2> QED BY <1>4, <2>1 DEF FrameOK, Starts, Leaving, Branching, Defaulting, Testing
<1>10. /\ ast[n + 1].kind \in Openers /\ ast[n + 1].kind # "default"
       /\ ast[n + 1].kind \in Scoped \cup {"if"} /\ ast[n + 1].kind # "case"
       /\ ast[n + 1].kind \notin Scopes
  BY <1>4 DEF Openers, Scoped, Scopes
<1>11. /\ Frames(ast, st, c2, n + 1, Stack(st, n + 1), frames')
       /\ FramesWait(ast, st, code, c2, n, frames, frames')
       /\ FrameWait(Stack(st, n + 1), frames', n + 1, f.patch)
  BY <1>3, <1>4, <1>6, <1>8, <1>9, <1>10, FramesOpen
<1>12. CasesWait(ast, st, code, c2, n)  BY <1>10, NoCase
<1>13. Tabling(ast, st, n + 1, frames', symbols)  BY <1>3, <1>4, <1>10, TablingOpen
<1>14. Waiting(ast, st, c2, n + 1, frames', breakPatches, continuePatches, gotoPatches, labels,
               Len(c2))
  BY <1>4, <1>5, <1>7, <1>8, <1>11 DEF Waiting
<1>15. /\ TargetsKept(ast, st, code, c2, n)
       /\ Placing(ast, st, code, c2, n, frames', breakPatches, continuePatches, gotoPatches,
                  labels)
  BY <1>6, <1>14, TailedKeeps
<1>16. {"if"} \subseteq Calm  BY DEF Calm
<1> QED BY <1>1, <1>2, <1>3, <1>4, <1>6, <1>11, <1>12, <1>13, <1>15, <1>16, MetCalm

-----------------------------------------------------------------------------
(* Else and the end of an if                                                 *)
\* A jump that is set to go to what comes next.
LEMMA NextLands ==
  ASSUME NEW t, NEW st, TreeOK(t, st), NEW n \in 0..Len(t) - 1, NEW c, Coded(c, n), NEW c2,
         Follows(c, c2, n), NEW i \in 1..Len(c2), NEW x, x = c2[i].node,
         NEW op, op = c2[i].op, NEW k, k \in {n + 1, n + 2}, c2[i].to = CodeAt(c2, k),
         \A r : Aims(t, st, x, op, r, "at", k)
  PROVE  Lands(t, st, c2, n + 1, i)
<1>1. n \in Nat /\ Len(t) \in Nat /\ n + 1 \in Nat /\ n + 1 <= Len(t) /\ k \in 1..(n + 1) + 1
  BY DEF TreeOK
<1>2. Coded(c2, n + 1)  BY <1>1, CodeNow
<1>3. Aims(t, st, c2[i].node, c2[i].op, Rank(c2, i), "at", k)  OBVIOUS
<1> QED BY <1>1, <1>2, <1>3, LandsAt

LEMMA JumpElse ==
  ASSUME NEW st, JumpOK(st), EmitElse
  PROVE  JumpOK(st)'
<1>1. /\ Emitting({"else"}) /\ UNCHANGED <<symbols, scope, patchVars, labels>>
      /\ code' = Patch(Append(code, Ins("jump", 0, 0)), Top.patch, Size(code) + 1)
  BY DEF EmitElse
<1>2. PICK n : Meeting(st, n, {"else"})  BY <1>1, Meets
<1>3. PICK f, start, y : /\ f = Frame(0, start, Len(code) + 1, {}) /\ start = 0
                         /\ Grows(frames', Front(frames), f) /\ y = Ins("jump", 0, 0)
  BY DEF EmitElse, Grows, Size
<1>4. /\ TreeOK(ast, st) /\ n \in 0..Len(ast) - 1 /\ n \in Nat /\ ast[n + 1].kind = "else"
      /\ Coded(code, n) /\ Frames(ast, st, code, n, Stack(st, n), frames) /\ at = n + 1
      /\ Tabling(ast, st, n, frames, symbols) /\ scope \in Int /\ n + 1 \in 1..Len(ast)
  BY <1>2 DEF Meeting, TreeOK
<1>5. y \in Instruction /\ y.node = n + 1 /\ y.op = "jump"
  <2>1. PICK op, to : op = "jump" /\ to = 0  OBVIOUS
  <2>2. op \in {"jump", "branch", "ret"} /\ to \in Nat /\ y = Ins(op, 0, to)  BY <1>3, <2>1
  <2>3. y \in Instruction /\ y.node = n + 1 /\ y.op = op /\ y.to = to  BY <1>4, <2>2, GoesIs
  <2> QED BY <2>1, <2>3
<1>6. PICK c1 : c1 = Append(code, y)  OBVIOUS
<1>7. Follows(code, c1, n) /\ Tailed(code, c1, y) /\ Adds(code, c1, 1)
  BY <1>4, <1>5, <1>6, TailedOne
<1>8. /\ Len(c1) = Len(code) + 1 /\ Len(code) \in Nat /\ Len(c1) \in Nat /\ c1[Len(c1)] = y
      /\ \A i \in 1..Len(code) : c1[i].to = code[i].to
  BY <1>7 DEF Adds, Tailed
<1>9. PICK top, last, i, to, c2 :
        /\ top = Stack(st, n)[Level(st, n)] /\ last = Last(frames) /\ i = last.patch
        /\ to = Len(code) + 2 /\ c2 = code'
  OBVIOUS
<1>10. to = Size(code) + 1 /\ to \in Nat  BY <1>8, <1>9 DEF Size
<1>11. c2 = Patch(c1, i, to)  BY <1>1, <1>3, <1>6, <1>9, <1>10 DEF Top
<1>12. /\ f \in FrameType /\ f.patch = Len(c1)
  <2>1. PICK zero \in Nat, patch \in Nat, none \in SUBSET Nat :
          zero = 0 /\ patch = Len(c1) /\ none = {}
    BY <1>8
  <2>2. f = Frame(zero, zero, patch, none)  BY <1>3, <1>8, <2>1
  <2> QED BY <2>1, <2>2, FrameTyped
<1>13. ast[top].kind = "if" /\ top \in 1..n /\ Takes(ast, st, top, n + 1)
  <2>1. (n + 1) - 1 = n  BY <1>4
  <2>2. Takes(ast, st, top, n + 1)  BY <1>4, <1>9, <2>1 DEF Takes
  <2>3. top \in 1..(n + 1) - 1 /\ ast[top].kind = "if"  BY <1>4, <2>2, TakesOver
  <2> QED BY <2>1, <2>2, <2>3
<1>14. last \in FrameType /\ FrameOK(ast, st, code, n, top, last)
  <2>1. Follows(code, code, n)  BY <1>4, SameFollows
  <2>2. ast[n + 1].kind # "default" /\ Stack(st, n) # <<>>
    <3>1. PICK s, s2, kind : s = Stack(st, n) /\ s2 = Stack(st, n + 1) /\ kind = ast[n + 1].kind
      OBVIOUS
    <3>2. kind = "else"  BY <1>4, <3>1
    <3>3. s # <<>>  BY <1>4, <3>1, <3>2, StackNext
    <3> QED BY <3>1, <3>2, <3>3
  <2> QED BY <1>4, <1>9, <2>1, <2>2, FramesTop
<1>15. i \in 1..Len(code) /\ code[i].node = top
  BY <1>9, <1>13, <1>14 DEF FrameOK, Leaving
<1>16. /\ Follows(code, c2, n) /\ Retargets(c1, c2) /\ c2[i].to = to /\ i \in 1..Len(c2)
       /\ c2[i].op = code[i].op /\ c2[i].node = code[i].node
       /\ Lands(ast, st, c2, n + 1, i) => TargetsKept(ast, st, code, c2, n)
       /\ \A j \in 1..Len(c1) : j # i => c2[j].to = c1[j].to
  <2>1. KeepsTargets(code, c1)  BY <1>8 DEF KeepsTargets
  <2>2. Sets(ast, st, code, c1, c2, n, i, to)
    BY <1>4, <1>7, <1>10, <1>11, <1>15, <2>1, PatchLands
  <2> QED BY <2>2 DEF Sets
<1>17. Len(c2) = Len(c1) /\ c2[Len(c2)].op = "jump" /\ c2[Len(c2)].node = n + 1
       /\ CodeAt(c2, n + 2) = Len(c2) + 1
  <2>1. CodeAt(c2, n + 2) = Len(c2) + 1  BY <1>4, <1>16, CodeNow
  <2>2. Len(c1) \in 1..Len(c1)  BY <1>8
  <2> QED BY <1>5, <1>8, <1>16, <2>1, <2>2 DEF Retargets
<1>18. Lands(ast, st, c2, n + 1, i)
  <2>1. PICK k : k = n + 2  OBVIOUS
  <2>2. k - 1 = n + 1 /\ k \in {n + 1, n + 2}  BY <1>4, <2>1
  <2>3. PICK x, op : x = c2[i].node /\ op = c2[i].op  OBVIOUS
  <2>4. AimsIf(ast, st, x, "at", k)  BY <1>13, <1>15, <1>16, <2>2, <2>3 DEF AimsIf
  <2>5. \A r : Aims(ast, st, x, op, r, "at", k)  BY <2>4 DEF Aims
  <2>6. c2[i].to = CodeAt(c2, k)  BY <1>8, <1>9, <1>16, <1>17, <2>1
  <2> QED BY <1>4, <1>16, <2>2, <2>3, <2>5, <2>6, NextLands
<1>19. TopLands(ast, st, code, c2, n, top, last)  BY <1>9, <1>18 DEF TopLands
<1>20. FrameOK(ast, st, c2, n + 1, n + 1, f)
  <2>1. f.patch \in 1..Len(c2) /\ c2[f.patch].node = n + 1  BY <1>8, <1>12, <1>17
  <2> QED BY <1>4, <2>1 DEF FrameOK, Starts, Leaving, Branching, Defaulting, Testing
<1>21. /\ Frames(ast, st, c2, n + 1, Stack(st, n + 1), frames')
       /\ FramesWait(ast, st, code, c2, n, frames, frames')
       /\ FrameWait(Stack(st, n + 1), frames', n + 1, f.patch)
  BY <1>3, <1>4, <1>9, <1>12, <1>16, <1>19, <1>20, FramesElse
<1>22. Placing(ast, st, code, c2, n, frames', breakPatches, continuePatches, gotoPatches, labels)
  <2>1. \A j \in Len(code) + 1 .. Len(c2) : j = Len(c2)  BY <1>8, <1>17
  <2>2. Waiting(ast, st, c2, n + 1, frames', breakPatches, continuePatches, gotoPatches, labels,
                Len(c2))
    BY <1>4, <1>12, <1>17, <1>21 DEF Waiting
  <2> QED BY <2>1, <2>2 DEF Placing
<1>23. CasesWait(ast, st, code, c2, n)
  <2>1. ast[n + 1].kind # "case"  BY <1>4
  <2> QED BY <2>1, NoCase
<1>24. Tabling(ast, st, n + 1, frames', symbols)  BY <1>3, <1>4, TablingElse
<1>25. {"else"} \subseteq Calm  BY DEF Calm
<1> QED BY <1>1, <1>2, <1>4, <1>9, <1>16, <1>18, <1>21, <1>22, <1>23, <1>24, <1>25, MetCalm

LEMMA JumpIfEnd ==
  ASSUME NEW st, JumpOK(st), EmitIfEnd
  PROVE  JumpOK(st)'
<1>1. /\ Emitting({"endif"}) /\ UNCHANGED <<symbols, scope, patchVars, labels>>
      /\ code' = Patch(code, Top.patch, Size(code)) /\ frames' = Front(frames)
  BY DEF EmitIfEnd, Pop
<1>2. PICK n : Meeting(st, n, {"endif"})  BY <1>1, Meets
<1>4. /\ TreeOK(ast, st) /\ n \in 0..Len(ast) - 1 /\ n \in Nat /\ ast[n + 1].kind = "endif"
      /\ Coded(code, n) /\ Frames(ast, st, code, n, Stack(st, n), frames) /\ at = n + 1
      /\ Tabling(ast, st, n, frames, symbols) /\ scope \in Int /\ n + 1 \in 1..Len(ast)
  BY <1>2 DEF Meeting, TreeOK
<1>5. PICK top, last, i, to, c2 :
        /\ top = Stack(st, n)[Level(st, n)] /\ last = Last(frames) /\ i = last.patch
        /\ to = Len(code) + 1 /\ c2 = code'
  OBVIOUS
<1>6. ast[n + 1].kind \in Ends /\ Closes(ast[n + 1].kind) = {"if", "else"}
      /\ ast[n + 1].kind # "case"
  BY <1>4 DEF Ends, Closes
<1>7. Shuts(ast, st, top, n + 1) /\ ast[top].kind \in {"if", "else"}
  BY <1>4, <1>5, <1>6, EndShuts
<1>8. Follows(code, code, n) /\ Len(code) \in Nat  BY <1>4, SameFollows, CodeLength
<1>9. last \in FrameType /\ FrameOK(ast, st, code, n, top, last) /\ top \in 1..n
  BY <1>4, <1>5, <1>6, <1>8, FramesClose
<1>10. i \in 1..Len(code) /\ code[i].node = top
  BY <1>5, <1>7, <1>9 DEF FrameOK, Leaving
<1>11. c2 = Patch(code, i, to) /\ to \in Nat  BY <1>1, <1>5, <1>8 DEF Top, Size
<1>12. /\ Follows(code, c2, n) /\ Retargets(code, c2) /\ c2[i].to = to /\ i \in 1..Len(c2)
       /\ c2[i].op = code[i].op /\ c2[i].node = code[i].node
       /\ Lands(ast, st, c2, n + 1, i) => TargetsKept(ast, st, code, c2, n)
  <2>1. KeepsTargets(code, code)  BY DEF KeepsTargets
  <2>2. Sets(ast, st, code, code, c2, n, i, to)  BY <1>4, <1>8, <1>10, <1>11, <2>1, PatchLands
  <2> QED BY <2>2 DEF Sets
<1>13. Len(c2) = Len(code) /\ CodeAt(c2, n + 1) = Len(code) + 1
  <2>1. CodeAt(c2, n + 1) = Len(code) + 1  BY <1>4, <1>12, CodeNow
  <2> QED BY <1>12, <2>1 DEF Retargets
<1>14. Lands(ast, st, c2, n + 1, i)
  <2>1. PICK k : k = n + 1  OBVIOUS
  <2>2. k \in {n + 1, n + 2}  BY <2>1
  <2>3. PICK x, op : x = c2[i].node /\ op = c2[i].op  OBVIOUS
  <2>4. ast[top].kind = "if" => \A l : ~Takes(ast, st, top, l)  BY <1>4, <1>5, <1>6, NotTaken
  <2>5. AimsIf(ast, st, x, "at", k)  BY <1>7, <1>10, <1>12, <2>1, <2>3, <2>4 DEF AimsIf
  <2>6. \A r : Aims(ast, st, x, op, r, "at", k)  BY <2>5 DEF Aims
  <2>7. c2[i].to = CodeAt(c2, k)  BY <1>5, <1>12, <1>13, <2>1
  <2> QED BY <1>4, <1>12, <2>2, <2>3, <2>6, <2>7, NextLands
<1>15. TopLands(ast, st, code, c2, n, top, last)  BY <1>5, <1>14 DEF TopLands
<1>16. /\ Frames(ast, st, c2, n + 1, Stack(st, n + 1), frames')
       /\ FramesWait(ast, st, code, c2, n, frames, frames')
  BY <1>1, <1>4, <1>5, <1>6, <1>12, <1>15, FramesClose
<1>17. Placing(ast, st, code, c2, n, frames', breakPatches, continuePatches, gotoPatches, labels)
  <2>1. \A j \in Len(code) + 1 .. Len(c2) : FALSE  BY <1>8, <1>13
  <2> QED BY <2>1 DEF Placing
<1>18. CasesWait(ast, st, code, c2, n)  BY <1>6, NoCase
<1>19. Tabling(ast, st, n + 1, frames', symbols)  BY <1>1, <1>4, <1>6, TablingClose
<1>20. {"endif"} \subseteq Calm  BY DEF Calm
<1> QED BY <1>1, <1>2, <1>4, <1>5, <1>12, <1>14, <1>16, <1>17, <1>18, <1>19, <1>20, MetCalm

-----------------------------------------------------------------------------
(* The contexts of breaks and continues at the ends of loops and switches    *)
OneJump(t, c, c2, n) ==
  t[n + 1].kind \in LoopEnds =>
    \A a, b \in Len(c) + 1 .. Len(c2) : c2[a].op = "jump" /\ c2[b].op = "jump" => a = b

LEMMA LinkedRest ==
  ASSUME NEW t, NEW st, NEW n \in Nat, NEW c, NEW c2,
         NEW bs, NEW ls, NEW bp, NEW cp, NEW gp, NEW lb, Linked(t, st, c, n, bs, ls, bp, cp, gp, lb),
         Follows(c, c2, n), t[n + 1].kind # "label", OneJump(t, c, c2, n)
  PROVE  /\ Labelled(t, c2, n + 1, lb) /\ Going(t, c2, gp) /\ OneBack(t, c2) /\ Coded(c2, n + 1)
         /\ Coded(c, n)
         /\ Context(t, st, c, n, Breakable, "break", bs, bp)
         /\ Context(t, st, c, n, LoopKinds, "continue", ls, cp)
<1>1. Coded(c, n)  BY DEF Linked
<1>2. Labelled(t, c2, n + 1, lb)  BY <1>1, LabelledOn DEF Linked
<1>3. Going(t, c2, gp)  BY <1>1, GoingOn DEF Linked
<1>4. OneBack(t, c2)
  <2>1. OneBack(t, c)  BY DEF Linked
  <2>2. t[n + 1].kind \in LoopEnds =>
          \A a, b \in Len(c) + 1 .. Len(c2) : c2[a].op = "jump" /\ c2[b].op = "jump" => a = b
    BY DEF OneJump
  <2> QED BY <1>1, <2>1, <2>2, OneBackOn
<1>5. Coded(c2, n + 1)  BY <1>1, CodeNow
<1> QED BY <1>1, <1>2, <1>3, <1>4, <1>5 DEF Linked

LEMMA LinkedLoop ==
  ASSUME NEW t, NEW st, TreeOK(t, st), NEW n \in 0..Len(t) - 1, NEW c, NEW c2,
         NEW bs, NEW ls, NEW bp, NEW cp, NEW gp, NEW lb, Linked(t, st, c, n, bs, ls, bp, cp, gp, lb),
         Follows(c, c2, n), t[n + 1].kind \in LoopKinds,
         NEW f \in ContextType, f.patches = Len(bp), NEW bs2, Grows(bs2, bs, f),
         NEW g \in ContextType, g.patches = Len(cp), NEW ls2, Grows(ls2, ls, g)
  PROVE  Linked(t, st, c2, n + 1, bs2, ls2, bp, cp, gp, lb)
<1>1. n \in Nat  BY DEF TreeOK
<1>2. t[n + 1].kind # "label" /\ OneJump(t, c, c2, n)  BY DEF LoopKinds, OneJump, LoopEnds
<1>3. /\ Labelled(t, c2, n + 1, lb) /\ Going(t, c2, gp) /\ OneBack(t, c2) /\ Coded(c2, n + 1)
      /\ Coded(c, n)
      /\ Context(t, st, c, n, Breakable, "break", bs, bp)
      /\ Context(t, st, c, n, LoopKinds, "continue", ls, cp)
  BY <1>1, <1>2, LinkedRest
<1>4. PICK K1 \in {Breakable, LoopKinds}, K2 \in {Breakable, LoopKinds} :
        K1 = Breakable /\ K2 = LoopKinds
  OBVIOUS
<1>5. PICK b, d : b = "break" /\ d = "continue"  OBVIOUS
<1>6. t[n + 1].kind \in K1 /\ t[n + 1].kind \in K2  BY <1>4 DEF Breakable
<1>7. Context(t, st, c2, n + 1, K1, b, bs2, bp)  BY <1>3, <1>4, <1>5, <1>6, ContextPush
<1>8. Context(t, st, c2, n + 1, K2, d, ls2, cp)  BY <1>3, <1>4, <1>5, <1>6, ContextPush
<1> QED BY <1>3, <1>4, <1>5, <1>7, <1>8 DEF Linked

LEMMA LinkedSwitch ==
  ASSUME NEW t, NEW st, TreeOK(t, st), NEW n \in 0..Len(t) - 1, NEW c, NEW c2,
         NEW bs, NEW ls, NEW bp, NEW cp, NEW gp, NEW lb, Linked(t, st, c, n, bs, ls, bp, cp, gp, lb),
         Follows(c, c2, n), t[n + 1].kind = "switch",
         NEW f \in ContextType, f.patches = Len(bp), NEW bs2, Grows(bs2, bs, f)
  PROVE  Linked(t, st, c2, n + 1, bs2, ls, bp, cp, gp, lb)
<1>1. n \in Nat  BY DEF TreeOK
<1>2. t[n + 1].kind # "label" /\ OneJump(t, c, c2, n)  BY DEF OneJump, LoopEnds
<1>3. /\ Labelled(t, c2, n + 1, lb) /\ Going(t, c2, gp) /\ OneBack(t, c2) /\ Coded(c2, n + 1)
      /\ Coded(c, n)
      /\ Context(t, st, c, n, Breakable, "break", bs, bp)
      /\ Context(t, st, c, n, LoopKinds, "continue", ls, cp)
  BY <1>1, <1>2, LinkedRest
<1>4. PICK K1 \in {Breakable, LoopKinds}, K2 \in {Breakable, LoopKinds} :
        K1 = Breakable /\ K2 = LoopKinds
  OBVIOUS
<1>5. PICK b, d, x : b = "break" /\ d = "continue" /\ x = t[n + 1].kind  OBVIOUS
<1>6. t[n + 1].kind \in K1 /\ Apart(x, K2)  BY <1>4, <1>5 DEF Breakable, Apart, LoopKinds, Ends
<1>7. Context(t, st, c2, n + 1, K1, b, bs2, bp)  BY <1>3, <1>4, <1>5, <1>6, ContextPush
<1>8. Context(t, st, c2, n + 1, K2, d, ls, cp)  BY <1>3, <1>4, <1>5, <1>6, ContextSame
<1> QED BY <1>3, <1>4, <1>5, <1>7, <1>8 DEF Linked

LEMMA LinkedLoopEnd ==
  ASSUME NEW t, NEW st, TreeOK(t, st), NEW n \in 0..Len(t) - 1, NEW c, NEW c2,
         NEW bs, NEW ls, NEW bp, NEW cp, NEW gp, NEW lb, Linked(t, st, c, n, bs, ls, bp, cp, gp, lb),
         Follows(c, c2, n), t[n + 1].kind \in LoopEnds, OneJump(t, c, c2, n),
         NEW p, p = Last(bs).patches, NEW q, q = Last(ls).patches,
         NEW top, top = Stack(st, n)[Level(st, n)]
  PROVE  /\ Linked(t, st, c2, n + 1, Front(bs), Front(ls), SubSeq(bp, 1, p), SubSeq(cp, 1, q),
                   gp, lb)
         /\ Leavers(t, st, c, Breakable, "break", bp, p, top)
         /\ Leavers(t, st, c, LoopKinds, "continue", cp, q, top)
<1>1. n \in Nat  BY DEF TreeOK
<1>2. t[n + 1].kind # "label" /\ t[n + 1].kind \in Ends
      /\ Closes(t[n + 1].kind) \subseteq LoopKinds /\ Closes(t[n + 1].kind) \subseteq Breakable
  BY DEF LoopEnds, Ends, Closes, LoopKinds, Breakable
<1>3. /\ Labelled(t, c2, n + 1, lb) /\ Going(t, c2, gp) /\ OneBack(t, c2) /\ Coded(c2, n + 1)
      /\ Coded(c, n)
      /\ Context(t, st, c, n, Breakable, "break", bs, bp)
      /\ Context(t, st, c, n, LoopKinds, "continue", ls, cp)
  BY <1>1, <1>2, LinkedRest
<1>4. PICK K1 \in {Breakable, LoopKinds}, K2 \in {Breakable, LoopKinds} :
        K1 = Breakable /\ K2 = LoopKinds
  OBVIOUS
<1>5. PICK b, d : b = "break" /\ d = "continue"  OBVIOUS
<1>6. Closes(t[n + 1].kind) \subseteq K1 /\ Closes(t[n + 1].kind) \subseteq K2  BY <1>2, <1>4
<1>7. /\ Context(t, st, c2, n + 1, K1, b, Front(bs), SubSeq(bp, 1, p))
      /\ Leavers(t, st, c, K1, b, bp, p, top)
  BY <1>2, <1>3, <1>4, <1>5, <1>6, ContextPop
<1>8. /\ Context(t, st, c2, n + 1, K2, d, Front(ls), SubSeq(cp, 1, q))
      /\ Leavers(t, st, c, K2, d, cp, q, top)
  BY <1>2, <1>3, <1>4, <1>5, <1>6, ContextPop
<1> QED BY <1>3, <1>4, <1>5, <1>7, <1>8 DEF Linked

LEMMA LinkedSwitchEnd ==
  ASSUME NEW t, NEW st, TreeOK(t, st), NEW n \in 0..Len(t) - 1, NEW c, NEW c2,
         NEW bs, NEW ls, NEW bp, NEW cp, NEW gp, NEW lb, Linked(t, st, c, n, bs, ls, bp, cp, gp, lb),
         Follows(c, c2, n), t[n + 1].kind = "endswitch", NEW p, p = Last(bs).patches,
         NEW top, top = Stack(st, n)[Level(st, n)]
  PROVE  /\ Linked(t, st, c2, n + 1, Front(bs), ls, SubSeq(bp, 1, p), cp, gp, lb)
         /\ Leavers(t, st, c, Breakable, "break", bp, p, top)
<1>1. n \in Nat  BY DEF TreeOK
<1>2. t[n + 1].kind # "label" /\ OneJump(t, c, c2, n) /\ t[n + 1].kind \in Ends
  BY DEF OneJump, LoopEnds, Ends
<1>3. /\ Labelled(t, c2, n + 1, lb) /\ Going(t, c2, gp) /\ OneBack(t, c2) /\ Coded(c2, n + 1)
      /\ Coded(c, n)
      /\ Context(t, st, c, n, Breakable, "break", bs, bp)
      /\ Context(t, st, c, n, LoopKinds, "continue", ls, cp)
  BY <1>1, <1>2, LinkedRest
<1>4. PICK K1 \in {Breakable, LoopKinds}, K2 \in {Breakable, LoopKinds} :
        K1 = Breakable /\ K2 = LoopKinds
  OBVIOUS
<1>5. PICK b, d, x : b = "break" /\ d = "continue" /\ x = t[n + 1].kind  OBVIOUS
<1>6. Closes(t[n + 1].kind) \subseteq K1  BY <1>4 DEF Closes, Breakable
<1>7. Apart(x, K2)  BY <1>4, <1>5 DEF Apart, LoopKinds, Closes
<1>8. /\ Context(t, st, c2, n + 1, K1, b, Front(bs), SubSeq(bp, 1, p))
      /\ Leavers(t, st, c, K1, b, bp, p, top)
  BY <1>2, <1>3, <1>4, <1>5, <1>6, ContextPop
<1>9. Context(t, st, c2, n + 1, K2, d, ls, cp)  BY <1>3, <1>4, <1>5, <1>7, ContextSame
<1> QED BY <1>3, <1>4, <1>5, <1>8, <1>9 DEF Linked

LEMMA PatchedOn ==
  ASSUME NEW t, NEW st, TreeOK(t, st), NEW n \in 0..Len(t) - 1, NEW c, NEW c2, NEW fr,
         NEW bs, NEW ls, NEW bp, NEW cp, NEW gp, NEW lb,
         Patched(t, st, n, c, fr, bs, ls, bp, cp, gp, lb), Follows(c, c2, n),
         NEW fr2, Frames(t, st, c2, n + 1, Stack(st, n + 1), fr2),
         NEW bs2, NEW ls2, NEW bp2, NEW cp2, NEW gp2, NEW lb2,
         Linked(t, st, c2, n + 1, bs2, ls2, bp2, cp2, gp2, lb2),
         FramesWait(t, st, c, c2, n, fr, fr2), TargetsKept(t, st, c, c2, n),
         CasesWait(t, st, c, c2, n), ListWaits(t, st, c, c2, n, bp, bp2),
         ListWaits(t, st, c, c2, n, cp, cp2), GotosWait(t, st, c, c2, n, gp, lb, gp2, lb2),
         Placing(t, st, c, c2, n, fr2, bp2, cp2, gp2, lb2)
  PROVE  Patched(t, st, n + 1, c2, fr2, bs2, ls2, bp2, cp2, gp2, lb2)
<1>1. Coded(c, n)  BY DEF Patched, Linked
<1>2. Placed(t, st, c, n, fr, bp, cp, gp, lb)  BY DEF Patched
<1>3. \A i \in Len(c) + 1 .. Len(c2) : c2[i].op \in {"jump", "branch"} =>
        Lands(t, st, c2, n + 1, i) \/ Waiting(t, st, c2, n + 1, fr2, bp2, cp2, gp2, lb2, i)
  BY DEF Placing
<1>4. Placed(t, st, c2, n + 1, fr2, bp2, cp2, gp2, lb2)  BY <1>1, <1>2, <1>3, PlacedOn
<1> QED BY <1>4 DEF Patched

-----------------------------------------------------------------------------
(* Loops are entered.                                                        *)
LEMMA ListLength ==
  ASSUME NEW st, NEW n, NEW kinds, Meeting(st, n, kinds)
  PROVE  /\ breakPatches \in Seq(Nat) /\ continuePatches \in Seq(Nat)
         /\ Len(breakPatches) \in Nat /\ Len(continuePatches) \in Nat
         /\ Linked(ast, st, code, n, breaks, loops, breakPatches, continuePatches, gotoPatches,
                   labels)
         /\ gotoPatches \in Seq(Nat \X Labels)
BY DEF Meeting, Patched, Linked, Context, Contexts, Marks, Going

LEMMA ContextIs ==
  ASSUME NEW patches \in Nat, NEW kept \in Nat, NEW f, f = [patches |-> patches, kept |-> kept]
  PROVE  f \in ContextType /\ f.patches = patches
BY DEF ContextType

LEMMA JumpLoop ==
  ASSUME NEW st, NEW n, NEW kinds, Meeting(st, n, kinds), kinds \subseteq LoopKinds,
         NEW kept \in Nat, PushLoop(kept),
         UNCHANGED <<breakPatches, continuePatches, gotoPatches, labels>>, scope' \in Int,
         NEW f \in FrameType, Grows(frames', frames, f),
         FrameOK(ast, st, code', n + 1, n + 1, f),
         Tabling(ast, st, n + 1, frames', symbols'),
         Follows(code, code', n), TargetsKept(ast, st, code, code', n),
         FrameWait(Stack(st, n + 1), frames', n + 1, f.patch) =>
           Placing(ast, st, code, code', n, frames', breakPatches, continuePatches, gotoPatches,
                   labels)
  PROVE  JumpOK(st)'
<1>1. /\ TreeOK(ast, st) /\ n \in 0..Len(ast) - 1 /\ n \in Nat /\ ast[n + 1].kind \in LoopKinds
      /\ Coded(code, n) /\ Frames(ast, st, code, n, Stack(st, n), frames)
      /\ Patched(ast, st, n, code, frames, breaks, loops, breakPatches, continuePatches,
                 gotoPatches, labels)
  BY DEF Meeting
<1>2. PICK lb \in Nat, lc \in Nat : lb = Len(breakPatches) /\ lc = Len(continuePatches)
  BY ListLength
<1>3. PICK fb, fc : /\ fb = [patches |-> lb, kept |-> kept] /\ Grows(breaks', breaks, fb)
                    /\ fc = [patches |-> lc, kept |-> kept] /\ Grows(loops', loops, fc)
  BY <1>2 DEF PushLoop, PushBreak, Grows
<1>4. /\ fb \in ContextType /\ fb.patches = Len(breakPatches)
      /\ fc \in ContextType /\ fc.patches = Len(continuePatches)
  BY <1>2, <1>3, ContextIs
<1>5. /\ ast[n + 1].kind \in Openers /\ ast[n + 1].kind # "default" /\ ast[n + 1].kind # "case"
  BY <1>1 DEF Openers, Scoped, LoopKinds
<1>6. PICK c2, fr2, bs2, ls2 : c2 = code' /\ fr2 = frames' /\ bs2 = breaks' /\ ls2 = loops'
  OBVIOUS
<1>7. /\ Frames(ast, st, c2, n + 1, Stack(st, n + 1), fr2)
      /\ FramesWait(ast, st, code, c2, n, frames, fr2)
      /\ FrameWait(Stack(st, n + 1), fr2, n + 1, f.patch)
  BY <1>1, <1>5, <1>6, FramesOpen
<1>8. Linked(ast, st, c2, n + 1, bs2, ls2, breakPatches, continuePatches, gotoPatches, labels)
  <2>1. Linked(ast, st, code, n, breaks, loops, breakPatches, continuePatches, gotoPatches,
               labels)
    BY ListLength
  <2> QED BY <1>1, <1>3, <1>4, <1>6, <2>1, LinkedLoop
<1>9. /\ ListWaits(ast, st, code, c2, n, breakPatches, breakPatches)
      /\ ListWaits(ast, st, code, c2, n, continuePatches, continuePatches)
      /\ GotosWait(ast, st, code, c2, n, gotoPatches, labels, gotoPatches, labels)
      /\ CasesWait(ast, st, code, c2, n)
  BY <1>5, ListSame, GotosSame, NoCase
<1>10. Patched(ast, st, n + 1, c2, fr2, bs2, ls2, breakPatches, continuePatches, gotoPatches,
               labels)
  BY <1>1, <1>6, <1>7, <1>8, <1>9, PatchedOn
<1> QED BY <1>6, <1>10, Met

\* The branch a loop tests with.
LEMMA BranchIs ==
  ASSUME NEW n \in Nat, at = n + 1, NEW y, y = Ins("branch", 0, 0)
  PROVE  y \in Instruction /\ y.node = n + 1 /\ y.op = "branch"
<1>1. PICK op, to : op = "branch" /\ to = 0  OBVIOUS
<1>2. op \in {"jump", "branch", "ret"} /\ to \in Nat /\ y = Ins(op, 0, to)  BY <1>1
<1>3. y \in Instruction /\ y.node = n + 1 /\ y.op = op /\ y.to = to  BY <1>2, GoesIs
<1> QED BY <1>1, <1>3

LEMMA JumpWhile ==
  ASSUME NEW st, JumpOK(st), EmitWhile
  PROVE  JumpOK(st)'
<1>1. /\ Emitting({"while"}) /\ PushLoop(Len(symbols))
      /\ UNCHANGED <<symbols, scope, breakPatches, continuePatches, gotoPatches, labels>>
      /\ code' = Append(code, Ins("branch", 0, 0))
  BY DEF EmitWhile
<1>2. PICK n : Meeting(st, n, {"while"})  BY <1>1, Meets
<1>3. PICK f, kept, c2, y : /\ f = Frame(kept, Len(code) + 1, Len(code) + 1, {}) /\ kept = 0
                            /\ Grows(frames', frames, f)
                            /\ c2 = code' /\ y = Ins("branch", 0, 0)
  BY DEF EmitWhile, Push, Grows, Size
<1>4. /\ TreeOK(ast, st) /\ n \in 0..Len(ast) - 1 /\ n \in Nat /\ ast[n + 1].kind = "while"
      /\ Coded(code, n) /\ Frames(ast, st, code, n, Stack(st, n), frames) /\ at = n + 1
      /\ Tabling(ast, st, n, frames, symbols) /\ scope \in Int
  BY <1>2 DEF Meeting
<1>5. y \in Instruction /\ y.node = n + 1 /\ y.op = "branch"  BY <1>3, <1>4, BranchIs
<1>6. Follows(code, c2, n) /\ Tailed(code, c2, y) /\ Adds(code, c2, 1)
  BY <1>1, <1>3, <1>4, <1>5, TailedOne
<1>7. Len(c2) = Len(code) + 1 /\ Len(code) \in Nat /\ Len(c2) \in Nat /\ c2[Len(c2)] = y
  BY <1>6 DEF Adds, Tailed
<1>8. f \in FrameType /\ f.patch = Len(c2) /\ f.start = Len(c2)
  <2>1. PICK zero \in Nat, patch \in Nat, none \in SUBSET Nat :
          zero = 0 /\ patch = Len(c2) /\ none = {}
    BY <1>7
  <2>2. f = Frame(zero, patch, patch, none)  BY <1>3, <1>7, <2>1
  <2> QED BY <2>1, <2>2, FrameTyped
<1>9. FrameOK(ast, st, c2, n + 1, n + 1, f)
  <2>1. f.patch \in 1..Len(c2) /\ c2[f.patch].node = n + 1  BY <1>5, <1>7, <1>8
  <2>2. f.start = CodeAt(c2, n + 1)
    <3>1. CodeAt(c2, n + 1) = Len(code) + 1  BY <1>4, <1>6, CodeNow
    <3> QED BY <1>7, <1>8, <3>1
  <2> QED BY <1>4, <2>1, <2>2 DEF FrameOK, Starts, Leaving, Branching, Defaulting, Testing
<1>10. Tabling(ast, st, n + 1, frames', symbols)
  <2>1. ast[n + 1].kind \in Scoped \cup {"if"} /\ ast[n + 1].kind \notin Scopes
    BY <1>4 DEF Scoped, Scopes, LoopKinds
  <2> QED BY <1>3, <1>4, <2>1, TablingOpen
<1>11. TargetsKept(ast, st, code, c2, n)  BY <1>6, TailedKeeps
<1>12. ASSUME FrameWait(Stack(st, n + 1), frames', n + 1, f.patch)
       PROVE  Placing(ast, st, code, c2, n, frames', breakPatches, continuePatches, gotoPatches,
                      labels)
  <2>1. Waiting(ast, st, c2, n + 1, frames', breakPatches, continuePatches, gotoPatches, labels,
                Len(c2))
    BY <1>4, <1>5, <1>7, <1>8, <1>12 DEF Waiting
  <2> QED BY <1>6, <2>1, TailedKeeps
<1>13. {"while"} \subseteq LoopKinds  BY DEF LoopKinds
<1>14. PICK k \in Nat : k = Len(symbols)  BY <1>4 DEF Tabling
<1> QED BY <1>1, <1>2, <1>3, <1>4, <1>6, <1>8, <1>9, <1>10, <1>11, <1>12, <1>13, <1>14, JumpLoop

LEMMA JumpDo ==
  ASSUME NEW st, JumpOK(st), EmitDo
  PROVE  JumpOK(st)'
<1>1. /\ Emitting({"do"}) /\ PushLoop(Len(symbols))
      /\ UNCHANGED <<symbols, scope, code, breakPatches, continuePatches, gotoPatches, labels>>
  BY DEF EmitDo
<1>2. PICK n : Meeting(st, n, {"do"})  BY <1>1, Meets
<1>3. PICK f, kept : /\ f = Frame(kept, Len(code) + 1, kept, {}) /\ kept = 0
                     /\ Grows(frames', frames, f)
  BY DEF EmitDo, Push, Grows, Size
<1>4. /\ TreeOK(ast, st) /\ n \in 0..Len(ast) - 1 /\ n \in Nat /\ ast[n + 1].kind = "do"
      /\ Coded(code, n) /\ Frames(ast, st, code, n, Stack(st, n), frames) /\ at = n + 1
      /\ Tabling(ast, st, n, frames, symbols) /\ scope \in Int
  BY <1>2 DEF Meeting
<1>5. /\ Follows(code, code, n) /\ TargetsKept(ast, st, code, code, n)
      /\ Placing(ast, st, code, code, n, frames', breakPatches, continuePatches, gotoPatches,
                 labels)
  BY <1>4, Nothing
<1>6. Len(code) \in Nat /\ CodeAt(code, n + 1) = Len(code) + 1  BY <1>4, CodeLength, CodeAtEnd
<1>7. f \in FrameType /\ f.patch = 0 /\ f.start = Len(code) + 1
  <2>0. PICK z \in Nat : z = Len(code) + 1  BY <1>6
  <2>1. PICK zero \in Nat, start \in Nat, none \in SUBSET Nat :
          zero = 0 /\ start = z /\ none = {}
    BY <2>0
  <2>2. f = Frame(zero, start, zero, none)  BY <1>3, <2>0, <2>1
  <2> QED BY <2>0, <2>1, <2>2, FrameTyped
<1>8. FrameOK(ast, st, code, n + 1, n + 1, f)
  BY <1>4, <1>6, <1>7 DEF FrameOK, Starts, Leaving, Branching, Defaulting, Testing
<1>9. Tabling(ast, st, n + 1, frames', symbols)
  <2>1. ast[n + 1].kind \in Scoped \cup {"if"} /\ ast[n + 1].kind \notin Scopes
    BY <1>4 DEF Scoped, Scopes, LoopKinds
  <2> QED BY <1>3, <1>4, <2>1, TablingOpen
<1>10. {"do"} \subseteq LoopKinds  BY DEF LoopKinds
<1>11. PICK k \in Nat : k = Len(symbols)  BY <1>4 DEF Tabling
<1> QED BY <1>1, <1>2, <1>3, <1>4, <1>5, <1>7, <1>8, <1>9, <1>10, <1>11, JumpLoop

-----------------------------------------------------------------------------
(* A for, with clauses and without                                           *)
LEMMA JumpForPlain ==
  ASSUME NEW st, JumpOK(st), EmitFor, ast[at].how = "none"
  PROVE  JumpOK(st)'
<1>1. /\ Emitting({"for"}) /\ PushLoop(Len(symbols)) /\ scope' = scope + 1
      /\ symbols' = symbols /\ code' = code
      /\ UNCHANGED <<breakPatches, continuePatches, gotoPatches, labels>>
  BY DEF EmitFor
<1>2. PICK n : Meeting(st, n, {"for"})  BY <1>1, Meets
<1>3. PICK f, zero : /\ f = Frame(Len(symbols), Len(code) + 1, zero, {}) /\ zero = 0
                     /\ Grows(frames', frames, f)
  BY DEF EmitFor, Push, Grows, Size
<1>4. /\ TreeOK(ast, st) /\ n \in 0..Len(ast) - 1 /\ n \in Nat /\ ast[n + 1].kind = "for"
      /\ ast[n + 1].how = "none"
      /\ Coded(code, n) /\ Frames(ast, st, code, n, Stack(st, n), frames) /\ at = n + 1
      /\ Tabling(ast, st, n, frames, symbols) /\ scope \in Int
  BY <1>2 DEF Meeting
<1>5. /\ Follows(code, code, n) /\ TargetsKept(ast, st, code, code, n)
      /\ Placing(ast, st, code, code, n, frames', breakPatches, continuePatches, gotoPatches,
                 labels)
  BY <1>4, Nothing
<1>6. Len(code) \in Nat /\ CodeAt(code, n + 1) = Len(code) + 1  BY <1>4, CodeLength, CodeAtEnd
<1>7. PICK kept \in Nat : kept = Len(symbols)  BY <1>4 DEF Tabling
<1>8. f \in FrameType /\ f.patch = 0 /\ f.start = Len(code) + 1 /\ f.kept = Len(symbols)
  <2>0. PICK z \in Nat : z = Len(code) + 1  BY <1>6
  <2>1. PICK p \in Nat, start \in Nat, none \in SUBSET Nat :
          p = 0 /\ start = z /\ none = {}
    BY <2>0
  <2>2. f = Frame(kept, start, p, none)  BY <1>3, <1>7, <2>0, <2>1
  <2> QED BY <1>7, <2>0, <2>1, <2>2, FrameTyped
<1>9. FrameOK(ast, st, code, n + 1, n + 1, f)
  BY <1>4, <1>6, <1>8 DEF FrameOK, Starts, Leaving, Branching, Defaulting, Testing
<1>10. Tabling(ast, st, n + 1, frames', symbols)
  <2>1. ast[n + 1].kind \in Scoped \cup {"if"}  BY <1>4 DEF Scoped, LoopKinds
  <2> QED BY <1>3, <1>4, <1>8, <2>1, TablingOpen
<1>11. {"for"} \subseteq LoopKinds  BY DEF LoopKinds
<1>12. scope' \in Int  BY <1>1, <1>4
<1> QED BY <1>1, <1>2, <1>3, <1>4, <1>5, <1>7, <1>8, <1>9, <1>10, <1>11, <1>12, JumpLoop

LEMMA JumpForClauses ==
  ASSUME NEW st, JumpOK(st), EmitFor, ast[at].how # "none"
  PROVE  JumpOK(st)'
<1> DEFINE e == ast[at]
<1>1. PICK r, d, y : /\ r = Len(symbols) + 1 /\ d = Storage(e.how, r) /\ y = Ins("branch", 0, 0)
  OBVIOUS
<1>2. /\ Emitting({"for"}) /\ PushLoop(r) /\ scope' = scope + 1
      /\ code' = Append(code \o d, y) /\ CanDeclare(e.name, scope + 1)
      /\ UNCHANGED <<breakPatches, continuePatches, gotoPatches, labels>>
  BY <1>1 DEF EmitFor
<1>3. PICK n : Meeting(st, n, {"for"})  BY <1>2, Meets
<1>4. PICK f, z : /\ z = Len(code \o d) + 1 /\ f = Frame(Len(symbols), z, z, {})
                  /\ Grows(frames', frames, f)
  BY <1>1 DEF EmitFor, Push, Grows, Size
<1>5. PICK x : /\ x = Symbol(e.name, e.how, scope + 1, e.epoch, e.depth)
               /\ Grows(symbols', symbols, x)
  BY <1>1 DEF EmitFor, Grows
<1>6. /\ TreeOK(ast, st) /\ n \in 0..Len(ast) - 1 /\ n \in Nat /\ ast[n + 1].kind = "for"
      /\ ast[n + 1].how # "none" /\ e = ast[n + 1] /\ Tabled(n)
      /\ Coded(code, n) /\ Frames(ast, st, code, n, Stack(st, n), frames) /\ at = n + 1
      /\ Tabling(ast, st, n, frames, symbols) /\ scope \in Int
  BY <1>3 DEF Meeting
<1>7. Suits(ast, Stack(st, n), ast[n + 1]) /\ ast[n + 1] \in NodeType
  <2>1. n + 1 \in 1..Len(ast) /\ (n + 1) - 1 = n /\ ast \in Seq(NodeType)  BY <1>6 DEF TreeOK
  <2>2. NodeOK(ast, st, n + 1)  BY <1>6, <2>1 DEF TreeOK
  <2> QED BY <2>1, <2>2 DEF NodeOK
<1>8. PICK how : how = e.how  OBVIOUS
<1>9. e.name \in Variable /\ how \in Declarations /\ e \in NodeType /\ e.epoch \in Nat
      /\ e.depth \in Nat
  BY <1>6, <1>7, <1>8 DEF Suits, Variable, NodeType, Declarations
<1> HIDE DEF e
<1>10. x \in SymbolType /\ x.node = n + 1
  <2>1. PICK depth, m : depth = scope + 1 /\ m = n + 1  OBVIOUS
  <2>2. depth \in Int /\ m \in Nat /\ at = m /\ x = Symbol(e.name, how, depth, e.epoch, e.depth)
    BY <1>5, <1>6, <1>8, <2>1
  <2>3. x \in SymbolType /\ x.node = m  BY <1>9, <2>2, SymbolIs
  <2> QED BY <2>1, <2>3
<1>11. Len(symbols) < MaxLocals  BY <1>2 DEF CanDeclare
<1>12. PICK kept \in Nat : kept = Len(symbols)  BY <1>6 DEF Tabling
<1>13. r \in 0..MaxLocals /\ r \in Nat  BY <1>1, <1>11, <1>12, LocalsFit
<1>14. Emits(n, d) /\ Quiet(d) /\ Len(d) = 1  BY <1>1, <1>6, <1>8, <1>13, StorageIs
<1>15. y \in Instruction /\ y.node = n + 1 /\ y.op = "branch"  BY <1>1, <1>6, BranchIs
<1>16. PICK c2 : c2 = code'  OBVIOUS
<1>17. Follows(code, c2, n) /\ Tailed(code, c2, y) /\ Adds(code, c2, Len(d) + 1)
  <2>1. c2 = Append(code \o d, y) \/ c2 = (code \o d) \o <<y>>  BY <1>2, <1>16
  <2> QED BY <1>6, <1>14, <1>15, <2>1, TailedIs
<1>18. /\ Len(c2) = Len(code) + 2 /\ Len(code) \in Nat /\ Len(c2) \in Nat /\ c2[Len(c2)] = y
       /\ Len(c2) \in 1..Len(c2)
  BY <1>14, <1>17 DEF Adds, Tailed
<1>19. z = Len(c2)
  <2>1. PICK a : a = code \o d  OBVIOUS
  <2>2. Added(code, d, a)  BY <1>6, <1>14, <2>1, EmitsAfter
  <2> QED BY <1>4, <1>14, <1>18, <2>1, <2>2 DEF Added
<1>20. f \in FrameType /\ f.patch = Len(c2) /\ f.start = Len(c2) /\ f.kept = Len(symbols)
  <2>1. PICK patch \in Nat, none \in SUBSET Nat : patch = z /\ none = {}  BY <1>18, <1>19
  <2>2. f = Frame(kept, patch, patch, none)  BY <1>4, <1>12, <2>1
  <2> QED BY <1>12, <1>19, <2>1, <2>2, FrameTyped
<1>21. FrameOK(ast, st, c2, n + 1, n + 1, f)
  <2>1. f.patch \in 1..Len(c2) /\ c2[f.patch].node = n + 1  BY <1>15, <1>18, <1>20
  <2>2. f.start = CodeAt(c2, (n + 1) + 1) - 1
    <3>1. CodeAt(c2, n + 2) = Len(c2) + 1 /\ n + 2 = (n + 1) + 1  BY <1>6, <1>17, CodeNow
    <3> QED BY <1>18, <1>20, <3>1
  <2> QED BY <1>6, <2>1, <2>2 DEF FrameOK, Starts, Leaving, Branching, Defaulting, Testing
<1>22. Tabling(ast, st, n + 1, frames', symbols')
  BY <1>4, <1>5, <1>6, <1>10, <1>11, <1>20, TablingFor
<1>23. TargetsKept(ast, st, code, c2, n)  BY <1>17, TailedKeeps
<1>24. ASSUME FrameWait(Stack(st, n + 1), frames', n + 1, f.patch)
       PROVE  Placing(ast, st, code, c2, n, frames', breakPatches, continuePatches, gotoPatches,
                      labels)
  <2>1. Waiting(ast, st, c2, n + 1, frames', breakPatches, continuePatches, gotoPatches, labels,
                Len(c2))
    BY <1>6, <1>15, <1>18, <1>20, <1>24 DEF Waiting
  <2> QED BY <1>17, <2>1, TailedKeeps
<1>25. {"for"} \subseteq LoopKinds  BY DEF LoopKinds
<1>26. scope' \in Int  BY <1>2, <1>6
<1> QED BY <1>2, <1>3, <1>4, <1>13, <1>16, <1>17, <1>20, <1>21, <1>22, <1>23, <1>24, <1>25, <1>26,
           JumpLoop

LEMMA JumpFor ==
  ASSUME NEW st, JumpOK(st), EmitFor
  PROVE  JumpOK(st)'
BY JumpForPlain, JumpForClauses

-----------------------------------------------------------------------------
(* The patches of the loop or switch that ends                               *)
BreakHit(i) == Hit(breakPatches, Last(breaks).patches, i)
ContinueHit(i) == Hit(continuePatches, Last(loops).patches, i)

LEMMA LeaverIs ==
  ASSUME NEW t, NEW st, NEW c, NEW K, NEW kind, NEW list, NEW p, NEW top,
         Leavers(t, st, c, K, kind, list, p, top), NEW i, Hit(list, p, i)
  PROVE  /\ i \in 1..Len(c) /\ c[i].op = "jump" /\ t[c[i].node].kind = kind
         /\ Inner(t, st, c[i].node, K, top)
<1>1. PICK k \in p + 1 .. Len(list) : list[k] = i  BY DEF Hit
<1>2. k \in 1..Len(list) /\ k > p  BY <1>1 DEF Leavers
<1> QED BY <1>1, <1>2 DEF Leavers

LEMMA ListedRest ==
  ASSUME NEW list \in Seq(Nat), NEW p \in 0..Len(list), NEW i, Listed(list, i)
  PROVE  Listed(SubSeq(list, 1, p), i) \/ Hit(list, p, i)
<1>1. PICK k \in 1..Len(list) : list[k] = i  BY DEF Listed
<1>2. CASE k <= p
  <2>1. PICK s : s = SubSeq(list, 1, p)  OBVIOUS
  <2>2. Len(s) = p /\ \A j \in 1..p : s[j] = list[j]  BY <2>1
  <2>3. k \in 1..p  BY <1>1, <1>2
  <2> QED BY <1>1, <2>1, <2>2, <2>3 DEF Listed
<1>3. CASE ~(k <= p)
  <2>1. k \in p + 1 .. Len(list)  BY <1>1, <1>3
  <2> QED BY <1>1, <2>1 DEF Hit
<1> QED BY <1>2, <1>3

\* The code of a loop whose breaks and continues have their targets.
LoopSet(c1, c2, exit, continue) ==
  /\ Retargets(c1, c2)
  /\ \A j \in 1..Len(c1) : c2[j].to = IF BreakHit(j) THEN exit
                                      ELSE IF ContinueHit(j) THEN continue ELSE c1[j].to
BreakSet(c1, c2, exit) ==
  /\ Retargets(c1, c2)
  /\ \A j \in 1..Len(c1) : c2[j].to = IF BreakHit(j) THEN exit ELSE c1[j].to

LEMMA BreaksPatchedIs ==
  ASSUME NEW c1 \in Seq(Instruction), NEW exit \in Nat, NEW c2, c2 = BreaksPatched(c1, exit)
  PROVE  BreakSet(c1, c2, exit)
<1>1. PICK from : from = Last(breaks).patches  OBVIOUS
<1>2. c2 = PatchAll(c1, breakPatches, from, exit)  BY <1>1 DEF BreaksPatched
<1>3. /\ Retargets(c1, c2)
      /\ \A j \in 1..Len(c1) : c2[j].to = IF Hit(breakPatches, from, j) THEN exit ELSE c1[j].to
  BY <1>2, PatchAllIs
<1> QED BY <1>1, <1>3 DEF BreakSet, BreakHit

LEMMA LoopPatchedIs ==
  ASSUME NEW c1 \in Seq(Instruction), NEW exit \in Nat, NEW continue \in Nat,
         NEW c2, c2 = LoopPatched(c1, exit, continue)
  PROVE  LoopSet(c1, c2, exit, continue)
<1>1. PICK from, a : /\ from = Last(loops).patches
                     /\ a = PatchAll(c1, continuePatches, from, continue)
  OBVIOUS
<1>2. /\ Retargets(c1, a)
      /\ \A j \in 1..Len(c1) : a[j].to = IF Hit(continuePatches, from, j) THEN continue
                                         ELSE c1[j].to
  BY <1>1, PatchAllIs
<1>3. c2 = BreaksPatched(a, exit)  BY <1>1 DEF LoopPatched
<1>4. a \in Seq(Instruction) /\ Len(a) = Len(c1)  BY <1>2 DEF Retargets
<1>5. BreakSet(a, c2, exit)  BY <1>3, <1>4, BreaksPatchedIs
<1>6. Retargets(c1, c2)  BY <1>2, <1>5, RetargetsBoth DEF BreakSet
<1> QED BY <1>1, <1>2, <1>4, <1>5, <1>6 DEF LoopSet, BreakSet, ContinueHit

\* A jump that is set to go behind the loop that ends.
LEMMA BehindLands ==
  ASSUME NEW t, NEW st, TreeOK(t, st), NEW n \in 0..Len(t) - 1, NEW c2, NEW i, NEW x,
         x = c2[i].node, NEW op, op = c2[i].op, NEW b \in 1..Len(c2), c2[b].node = n + 1,
         c2[b].op = "jump", c2[i].to = b + 1, \A r : Aims(t, st, x, op, r, "behind", n + 1)
  PROVE  Lands(t, st, c2, n + 1, i)
<1>1. n \in Nat /\ n + 1 \in 1..n + 1 /\ n + 1 \in 1..Len(t) + 1  BY DEF TreeOK
<1>2. PICK how, k : how = "behind" /\ k = n + 1  OBVIOUS
<1>3. how # "at" /\ how # "test" /\ how # "over"  BY <1>2
<1>4. Valued(c2, n + 1, i, how, k, c2[i].to)  BY <1>1, <1>2, <1>3 DEF Valued
<1>5. Aims(t, st, c2[i].node, c2[i].op, Rank(c2, i), how, k)  BY <1>2
<1> QED BY <1>1, <1>2, <1>4, <1>5 DEF Lands

-----------------------------------------------------------------------------
(* A loop ends: what left or continued it has its target.                    *)
LoopTargets(c, c3, patch, exit, continue) ==
  \A i \in 1..Len(c) : c3[i].to = IF BreakHit(i) THEN exit
                                  ELSE IF ContinueHit(i) THEN continue
                                  ELSE IF i = patch THEN exit ELSE c[i].to
GoesBack(n, c3, exit) ==
  \E b \in 1..Len(c3) : c3[b].node = n + 1 /\ c3[b].op = "jump" /\ exit = b + 1

\* What is known at the end of a loop, before anything is patched.
Looping(st, n, top, last) ==
  /\ TreeOK(ast, st) /\ n \in 0..Len(ast) - 1 /\ n \in Nat /\ n + 1 \in 1..Len(ast) /\ at = n + 1
  /\ Coded(code, n) /\ Frames(ast, st, code, n, Stack(st, n), frames)
  /\ Tabling(ast, st, n, frames, symbols) /\ scope \in Int /\ Tabled(n)
  /\ top = Stack(st, n)[Level(st, n)] /\ last = Last(frames) /\ last \in FrameType
  /\ FrameOK(ast, st, code, n, top, last) /\ top \in 1..n /\ Shuts(ast, st, top, n + 1)
  /\ ast[n + 1].kind \in Ends /\ ast[n + 1].kind # "case"
  /\ ast[top].kind \in Closes(ast[n + 1].kind)
  /\ Len(code) \in Nat

LEMMA LoopMet ==
  ASSUME NEW st, NEW n, NEW kinds, Meeting(st, n, kinds),
         kinds \subseteq LoopEnds \cup {"endswitch"},
         NEW top, top = Stack(st, n)[Level(st, n)], NEW last, last = Last(frames)
  PROVE  Looping(st, n, top, last)
<1>1. /\ TreeOK(ast, st) /\ n \in 0..Len(ast) - 1 /\ n \in Nat /\ at = n + 1
      /\ Coded(code, n) /\ Frames(ast, st, code, n, Stack(st, n), frames)
      /\ Tabling(ast, st, n, frames, symbols) /\ scope \in Int /\ Tabled(n)
      /\ ast[n + 1].kind \in LoopEnds \cup {"endswitch"} /\ n + 1 \in 1..Len(ast)
  BY DEF Meeting, TreeOK
<1>2. ast[n + 1].kind \in Ends /\ ast[n + 1].kind # "case"  BY <1>1 DEF LoopEnds, Ends
<1>3. Shuts(ast, st, top, n + 1) /\ ast[top].kind \in Closes(ast[n + 1].kind)
  BY <1>1, <1>2, EndShuts
<1>4. Follows(code, code, n) /\ Len(code) \in Nat  BY <1>1, SameFollows, CodeLength
<1>5. last \in FrameType /\ FrameOK(ast, st, code, n, top, last) /\ top \in 1..n
  BY <1>1, <1>2, <1>4, FramesClose
<1> QED BY <1>1, <1>2, <1>3, <1>4, <1>5 DEF Looping

LEMMA LoopLists ==
  ASSUME NEW st, NEW n, NEW kinds, Meeting(st, n, kinds), kinds \subseteq LoopEnds,
         NEW top, top = Stack(st, n)[Level(st, n)], NEW c3, Follows(code, c3, n),
         OneJump(ast, code, c3, n), FinishLoop
  PROVE  /\ Linked(ast, st, c3, n + 1, breaks', loops', breakPatches', continuePatches',
                   gotoPatches, labels)
         /\ Leavers(ast, st, code, Breakable, "break", breakPatches, Last(breaks).patches, top)
         /\ Leavers(ast, st, code, LoopKinds, "continue", continuePatches, Last(loops).patches, top)
<1>1. PICK p, q : p = Last(breaks).patches /\ q = Last(loops).patches  OBVIOUS
<1>2. /\ breaks' = Front(breaks) /\ loops' = Front(loops)
      /\ breakPatches' = SubSeq(breakPatches, 1, p)
      /\ continuePatches' = SubSeq(continuePatches, 1, q)
  BY <1>1 DEF FinishLoop, FinishBreak
<1>3. /\ TreeOK(ast, st) /\ n \in 0..Len(ast) - 1 /\ ast[n + 1].kind \in LoopEnds
      /\ Linked(ast, st, code, n, breaks, loops, breakPatches, continuePatches, gotoPatches,
                labels)
  BY ListLength DEF Meeting
<1>4. /\ Linked(ast, st, c3, n + 1, Front(breaks), Front(loops), SubSeq(breakPatches, 1, p),
                SubSeq(continuePatches, 1, q), gotoPatches, labels)
      /\ Leavers(ast, st, code, Breakable, "break", breakPatches, p, top)
      /\ Leavers(ast, st, code, LoopKinds, "continue", continuePatches, q, top)
  BY <1>1, <1>3, LinkedLoopEnd
<1> QED BY <1>1, <1>2, <1>4

LEMMA ListGoes ==
  ASSUME NEW t, NEW st, NEW c, NEW c2, NEW n, NEW K, NEW kind, NEW list, NEW p, NEW top,
         Leavers(t, st, c, K, kind, list, p, top),
         \A i \in 1..Len(c) : Hit(list, p, i) => Lands(t, st, c2, n + 1, i)
  PROVE  ListWaits(t, st, c, c2, n, list, SubSeq(list, 1, p))
<1>1. list \in Seq(Nat) /\ p \in 0..Len(list)  BY DEF Leavers
<1>2. ASSUME NEW i \in 1..Len(c), Listed(list, i)
      PROVE  Listed(SubSeq(list, 1, p), i) \/ Lands(t, st, c2, n + 1, i)
  BY <1>1, <1>2, ListedRest
<1> QED BY <1>2 DEF ListWaits

LEMMA LoopBreaks ==
  ASSUME NEW st, NEW n, NEW top, NEW last, Looping(st, n, top, last),
         ast[n + 1].kind \in LoopEnds, NEW c3, Follows(code, c3, n),
         Leavers(ast, st, code, Breakable, "break", breakPatches, Last(breaks).patches, top),
         NEW exit, GoesBack(n, c3, exit), NEW i \in 1..Len(code), BreakHit(i), c3[i].to = exit
  PROVE  Lands(ast, st, c3, n + 1, i)
<1>1. /\ TreeOK(ast, st) /\ n \in 0..Len(ast) - 1 /\ n \in Nat /\ Shuts(ast, st, top, n + 1)
      /\ ast[top].kind \in Closes(ast[n + 1].kind)
  BY DEF Looping
<1>2. PICK b \in 1..Len(c3) : c3[b].node = n + 1 /\ c3[b].op = "jump" /\ exit = b + 1
  BY DEF GoesBack
<1>3. PICK x, op : x = c3[i].node /\ op = c3[i].op  OBVIOUS
<1>4. ast[x].kind = "break" /\ Inner(ast, st, x, Breakable, top)
  <2>1. PICK p : p = Last(breaks).patches  OBVIOUS
  <2>2. /\ Hit(breakPatches, p, i)
        /\ Leavers(ast, st, code, Breakable, "break", breakPatches, p, top)
    BY <2>1 DEF BreakHit
  <2>3. ast[code[i].node].kind = "break" /\ Inner(ast, st, code[i].node, Breakable, top)
    BY <2>2, LeaverIs
  <2>4. c3[i].node = code[i].node  BY DEF Follows
  <2> QED BY <1>3, <2>3, <2>4
<1>5. ast[top].kind # "switch"  BY <1>1 DEF Closes, LoopEnds
<1>6. PICK how, k : how = "behind" /\ k = n + 1  OBVIOUS
<1>7. AimsInside(ast, st, x, how, k)  BY <1>1, <1>4, <1>5, <1>6 DEF AimsInside
<1>8. \A r : Aims(ast, st, x, op, r, how, k)  BY <1>7 DEF Aims
<1> QED BY <1>1, <1>2, <1>3, <1>6, <1>8, BehindLands

LEMMA LoopContinues ==
  ASSUME NEW st, NEW n, NEW top, NEW last, Looping(st, n, top, last),
         ast[n + 1].kind \in LoopEnds, NEW c3, Follows(code, c3, n),
         Leavers(ast, st, code, LoopKinds, "continue", continuePatches, Last(loops).patches, top),
         NEW i \in 1..Len(code), ContinueHit(i),
         c3[i].to = IF ast[top].kind = "while" THEN last.start ELSE Len(code) + 1
  PROVE  Lands(ast, st, c3, n + 1, i)
<1>1. /\ TreeOK(ast, st) /\ n \in 0..Len(ast) - 1 /\ n \in Nat /\ Shuts(ast, st, top, n + 1)
      /\ top \in 1..n /\ Coded(code, n) /\ FrameOK(ast, st, code, n, top, last)
      /\ n + 1 \in 1..Len(ast) /\ Len(ast) \in Nat
  BY DEF Looping, TreeOK
<1>2. PICK x, op : x = c3[i].node /\ op = c3[i].op  OBVIOUS
<1>3. ast[x].kind = "continue" /\ Inner(ast, st, x, LoopKinds, top)
  <2>1. PICK p : p = Last(loops).patches  OBVIOUS
  <2>2. /\ Hit(continuePatches, p, i)
        /\ Leavers(ast, st, code, LoopKinds, "continue", continuePatches, p, top)
    BY <2>1 DEF ContinueHit
  <2>3. ast[code[i].node].kind = "continue" /\ Inner(ast, st, code[i].node, LoopKinds, top)
    BY <2>2, LeaverIs
  <2>4. c3[i].node = code[i].node  BY DEF Follows
  <2> QED BY <1>2, <2>3, <2>4
<1>4. PICK how, k : how = "at" /\ k = IF ast[top].kind = "while" THEN top ELSE n + 1  OBVIOUS
<1>5. AimsInside(ast, st, x, how, k)  BY <1>1, <1>3, <1>4 DEF AimsInside
<1>6. Aims(ast, st, c3[i].node, c3[i].op, Rank(c3, i), how, k)  BY <1>2, <1>5 DEF Aims
<1>7. /\ CodeAt(c3, n + 1) = Len(code) + 1 /\ Coded(c3, n + 1)
      /\ Len(code) \in Nat /\ Len(c3) \in Nat /\ Len(code) <= Len(c3)
  BY <1>1, CodeNow
<1>8. c3[i].to = CodeAt(c3, k)
  <2>1. CASE ast[top].kind = "while"
    <3>1. last.start = CodeAt(code, top)  BY <1>1, <2>1 DEF FrameOK, Starts
    <3>2. top \in 0..n + 1  BY <1>1
    <3>3. CodeAt(c3, top) = CodeAt(code, top)  BY <1>1, <3>2, CodeAtSame
    <3> QED BY <1>4, <2>1, <3>1, <3>3
  <2>2. CASE ast[top].kind # "while"  BY <1>4, <1>7, <2>2
  <2> QED BY <2>1, <2>2
<1>9. i \in 1..Len(c3) /\ n + 1 \in Nat /\ n + 1 <= Len(ast) /\ k \in 1..(n + 1) + 1
  BY <1>1, <1>4, <1>7
<1> QED BY <1>1, <1>4, <1>6, <1>7, <1>8, <1>9, LandsAt

LEMMA LoopTop ==
  ASSUME NEW st, NEW n, NEW top, NEW last, Looping(st, n, top, last),
         ast[n + 1].kind \in LoopEnds, NEW c3, Follows(code, c3, n),
         Leavers(ast, st, code, LoopKinds, "continue", continuePatches, Last(loops).patches, top),
         NEW exit, NEW continue, GoesBack(n, c3, exit),
         LoopTargets(code, c3, last.patch, exit, continue)
  PROVE  TopLands(ast, st, code, c3, n, top, last)
<1> SUFFICES ASSUME last.patch \in 1..Len(code), code[last.patch].node = top
             PROVE  Lands(ast, st, c3, n + 1, last.patch)
  BY DEF TopLands
<1>1. /\ TreeOK(ast, st) /\ n \in 0..Len(ast) - 1 /\ n \in Nat /\ Shuts(ast, st, top, n + 1)
      /\ ast[top].kind \in Closes(ast[n + 1].kind) /\ FrameOK(ast, st, code, n, top, last)
      /\ Len(code) \in Nat
  BY DEF Looping
<1>2. PICK b \in 1..Len(c3) : c3[b].node = n + 1 /\ c3[b].op = "jump" /\ exit = b + 1
  BY DEF GoesBack
<1>3. PICK i, x, op : i = last.patch /\ x = c3[i].node /\ op = c3[i].op  OBVIOUS
<1>4. x = top  BY <1>3 DEF Follows
<1>5. ast[top].kind \in LoopKinds  BY <1>1 DEF Closes, LoopEnds, LoopKinds
<1>6. ast[top].kind \in {"while", "for"}
  <2>1. last.patch # 0  BY <1>1
  <2>2. ast[top].kind = "do" => last.patch = 0  BY <1>1 DEF FrameOK, Leaving
  <2> QED BY <1>5, <2>1, <2>2 DEF LoopKinds
<1>7. c3[i].to = exit
  <2>1. ~ContinueHit(i)
    <3>1. PICK p : p = Last(loops).patches  OBVIOUS
    <3>2. Leavers(ast, st, code, LoopKinds, "continue", continuePatches, p, top)  BY <3>1
    <3>3. ASSUME Hit(continuePatches, p, i) PROVE FALSE
      <4>1. ast[code[i].node].kind = "continue"  BY <3>2, <3>3, LeaverIs
      <4> QED BY <1>3, <1>5, <4>1 DEF LoopKinds
    <3> QED BY <3>1, <3>3 DEF ContinueHit
  <2> QED BY <1>3, <2>1 DEF LoopTargets
<1>8. PICK how, k : how = "behind" /\ k = n + 1  OBVIOUS
<1>9. AimsLoop(ast, st, x, op, how, k)  BY <1>1, <1>4, <1>6, <1>8 DEF AimsLoop
<1>10. \A r : Aims(ast, st, x, op, r, how, k)  BY <1>9 DEF Aims
<1> QED BY <1>1, <1>2, <1>3, <1>7, <1>8, <1>10, BehindLands

LEMMA LoopClosed ==
  ASSUME NEW st, NEW n, NEW kinds, Meeting(st, n, kinds), kinds \subseteq LoopEnds,
         NEW top, NEW last, Looping(st, n, top, last),
         NEW c3, c3 = code', Follows(code, c3, n), OneJump(ast, code, c3, n),
         NEW exit, NEW continue, GoesBack(n, c3, exit),
         continue = IF ast[top].kind = "while" THEN last.start ELSE Len(code) + 1,
         LoopTargets(code, c3, last.patch, exit, continue),
         FinishLoop, frames' = Front(frames), labels' = labels, scope' \in Int,
         Tabling(ast, st, n + 1, Front(frames), symbols'),
         \A j \in Len(code) + 1 .. Len(c3) : c3[j].op \in {"jump", "branch"} =>
           Lands(ast, st, c3, n + 1, j)
  PROVE  JumpOK(st)'
<1>1. /\ TreeOK(ast, st) /\ n \in 0..Len(ast) - 1 /\ n \in Nat /\ ast[n + 1].kind \in LoopEnds
      /\ Coded(code, n) /\ Frames(ast, st, code, n, Stack(st, n), frames)
      /\ Patched(ast, st, n, code, frames, breaks, loops, breakPatches, continuePatches,
                 gotoPatches, labels)
      /\ ast[n + 1].kind \in Ends /\ ast[n + 1].kind # "case"
      /\ top = Stack(st, n)[Level(st, n)] /\ last = Last(frames)
  BY DEF Meeting, Looping
<1>2. PICK p, q : p = Last(breaks).patches /\ q = Last(loops).patches  OBVIOUS
<1>3. /\ Linked(ast, st, c3, n + 1, breaks', loops', breakPatches', continuePatches',
                gotoPatches, labels)
      /\ Leavers(ast, st, code, Breakable, "break", breakPatches, p, top)
      /\ Leavers(ast, st, code, LoopKinds, "continue", continuePatches, q, top)
  BY <1>1, <1>2, LoopLists
<1>4. /\ breakPatches' = SubSeq(breakPatches, 1, p)
      /\ continuePatches' = SubSeq(continuePatches, 1, q) /\ gotoPatches' = gotoPatches
  BY <1>2 DEF FinishLoop, FinishBreak
<1>5. TopLands(ast, st, code, c3, n, top, last)  BY <1>1, <1>2, <1>3, LoopTop
<1>6. /\ Frames(ast, st, c3, n + 1, Stack(st, n + 1), frames')
      /\ FramesWait(ast, st, code, c3, n, frames, frames')
  BY <1>1, <1>5, FramesClose
<1>7. ASSUME NEW i \in 1..Len(code), BreakHit(i) PROVE Lands(ast, st, c3, n + 1, i)
  <2>1. c3[i].to = exit  BY <1>7 DEF LoopTargets
  <2> QED BY <1>1, <1>2, <1>3, <1>7, <2>1, LoopBreaks
<1>8. ASSUME NEW i \in 1..Len(code), ContinueHit(i) PROVE Lands(ast, st, c3, n + 1, i)
  <2>1. CASE BreakHit(i)  BY <1>7, <2>1
  <2>2. CASE ~BreakHit(i)
    <3>1. c3[i].to = continue  BY <1>8, <2>2 DEF LoopTargets
    <3> QED BY <1>1, <1>2, <1>3, <1>8, <3>1, LoopContinues
  <2> QED BY <2>1, <2>2
<1>9. /\ ListWaits(ast, st, code, c3, n, breakPatches, breakPatches')
      /\ ListWaits(ast, st, code, c3, n, continuePatches, continuePatches')
  <2>1. \A i \in 1..Len(code) : Hit(breakPatches, p, i) => Lands(ast, st, c3, n + 1, i)
    BY <1>2, <1>7 DEF BreakHit
  <2>2. \A i \in 1..Len(code) : Hit(continuePatches, q, i) => Lands(ast, st, c3, n + 1, i)
    BY <1>2, <1>8 DEF ContinueHit
  <2>3. ListWaits(ast, st, code, c3, n, breakPatches, SubSeq(breakPatches, 1, p))
    BY <1>3, <2>1, ListGoes
  <2>4. ListWaits(ast, st, code, c3, n, continuePatches, SubSeq(continuePatches, 1, q))
    BY <1>3, <2>2, ListGoes
  <2> QED BY <1>4, <2>3, <2>4
<1>10. TargetsKept(ast, st, code, c3, n)
  <2>1. ASSUME NEW i \in 1..Len(code) PROVE c3[i].to = code[i].to \/ Lands(ast, st, c3, n + 1, i)
    <3>1. CASE BreakHit(i) \/ ContinueHit(i)  BY <1>7, <1>8, <3>1
    <3>2. CASE ~BreakHit(i) /\ ~ContinueHit(i) /\ i # last.patch  BY <3>2 DEF LoopTargets
    <3>3. CASE i = last.patch
      <4>1. CASE ast[top].kind = "do"
        <5>1. last.patch = 0
          <6>1. FrameOK(ast, st, code, n, top, last)  BY DEF Looping
          <6> QED BY <4>1, <6>1 DEF FrameOK, Leaving
        <5> QED BY <3>3, <5>1
      <4>2. CASE ast[top].kind # "do"
        <5>1. FrameOK(ast, st, code, n, top, last) /\ ast[top].kind \in Closes(ast[n + 1].kind)
          BY DEF Looping
        <5>2. ast[top].kind = "while" \/ ast[top].kind = "for"
          BY <1>1, <4>2, <5>1 DEF Closes, LoopEnds
        <5>3. code[last.patch].node = top
          <6>1. last.patch # 0  BY <3>3
          <6> QED BY <5>1, <5>2, <6>1 DEF FrameOK, Leaving, Testing
        <5> QED BY <1>5, <3>3, <5>3 DEF TopLands
      <4> QED BY <4>1, <4>2
    <3> QED BY <3>1, <3>2, <3>3
  <2> QED BY <2>1 DEF TargetsKept
<1>11. /\ GotosWait(ast, st, code, c3, n, gotoPatches, labels, gotoPatches', labels')
       /\ CasesWait(ast, st, code, c3, n)
  BY <1>1, <1>4, GotosSame, NoCase
<1>12. PICK fr2, bs2, ls2, bp2, cp2, gp2, lb2 :
         /\ fr2 = frames' /\ bs2 = breaks' /\ ls2 = loops' /\ bp2 = breakPatches'
         /\ cp2 = continuePatches' /\ gp2 = gotoPatches' /\ lb2 = labels'
  OBVIOUS
<1>13. Placing(ast, st, code, c3, n, fr2, bp2, cp2, gp2, lb2)  BY DEF Placing
<1>14. Linked(ast, st, c3, n + 1, bs2, ls2, bp2, cp2, gp2, lb2)  BY <1>3, <1>4, <1>12
<1>15. Patched(ast, st, n + 1, c3, fr2, bs2, ls2, bp2, cp2, gp2, lb2)
  BY <1>1, <1>6, <1>9, <1>10, <1>11, <1>12, <1>13, <1>14, PatchedOn
<1> QED BY <1>12, <1>15, Met

-----------------------------------------------------------------------------
(* The ends of while and do                                                  *)
LEMMA BackLands ==
  ASSUME NEW st, NEW n, NEW top, NEW last, Looping(st, n, top, last),
         ast[n + 1].kind \in LoopEnds, NEW c3, Follows(code, c3, n), NEW j \in 1..Len(c3),
         c3[j].node = n + 1, c3[j].op = "jump", c3[j].to = last.start
  PROVE  Lands(ast, st, c3, n + 1, j)
<1>1. /\ TreeOK(ast, st) /\ n \in Nat /\ Shuts(ast, st, top, n + 1) /\ Coded(code, n)
      /\ ast[top].kind \in Closes(ast[n + 1].kind) /\ FrameOK(ast, st, code, n, top, last)
      /\ top \in 1..n /\ n + 1 \in 1..Len(ast) /\ Len(ast) \in Nat
  BY SMTT(30) DEF Looping, TreeOK
<1>2. PICK x, op, r : x = c3[j].node /\ op = c3[j].op /\ r = Rank(c3, j)  OBVIOUS
<1>3. \/ ast[top].kind = "while" /\ ast[x].kind = "endwhile"
      \/ ast[top].kind = "do" /\ ast[x].kind = "enddo"
      \/ ast[top].kind = "for" /\ ast[x].kind = "endfor"
  <2>1. x = n + 1  BY <1>2
  <2>2. ast[x].kind \in {"endwhile", "enddo", "endfor"} /\ ast[top].kind \in Closes(ast[x].kind)
    BY <1>1, <2>1 DEF LoopEnds
  <2> QED BY <2>2 DEF Closes
<1>4. CodeAt(c3, top) = CodeAt(code, top) /\ CodeAt(c3, top + 1) = CodeAt(code, top + 1)
  <2>1. top \in 0..n + 1 /\ top + 1 \in 0..n + 1  BY <1>1
  <2> QED BY <1>1, <2>1, CodeAtSame
<1>5. CASE Testing(ast, top)
  <2>1. PICK how : how = "test"  OBVIOUS
  <2>2. AimsLoop(ast, st, x, op, how, top)  BY <1>1, <1>2, <1>3, <1>5, <2>1 DEF AimsLoop, Testing
  <2>3. Aims(ast, st, c3[j].node, c3[j].op, Rank(c3, j), how, top)  BY <1>2, <2>2 DEF Aims
  <2>4. c3[j].to = CodeAt(c3, top + 1) - 1  BY <1>1, <1>4, <1>5 DEF FrameOK, Starts
  <2>5. top \in 1..n + 1 /\ top \in 1..Len(ast) + 1  BY <1>1
  <2>6. how # "at" /\ how # "behind" /\ how # "over"  BY <2>1
  <2>7. Valued(c3, n + 1, j, how, top, c3[j].to)  BY <2>1, <2>4, <2>5, <2>6 DEF Valued
  <2> QED BY <2>3, <2>5, <2>7 DEF Lands
<1>6. CASE ~Testing(ast, top)
  <2>1. PICK how : how = "at"  OBVIOUS
  <2>2. AimsLoop(ast, st, x, op, how, top)  BY <1>1, <1>2, <1>3, <1>6, <2>1 DEF AimsLoop, Testing
  <2>3. Aims(ast, st, c3[j].node, c3[j].op, Rank(c3, j), how, top)  BY <1>2, <2>2 DEF Aims
  <2>4. c3[j].to = CodeAt(c3, top)  BY <1>1, <1>3, <1>4, <1>6 DEF FrameOK, Starts, Testing
  <2>5. top \in 1..(n + 1) + 1 /\ n + 1 \in Nat /\ n + 1 <= Len(ast)  BY <1>1
  <2>6. Coded(c3, n + 1)  BY <1>1, CodeNow
  <2> QED BY <1>1, <2>1, <2>3, <2>4, <2>5, <2>6, LandsAt
<1> QED BY <1>5, <1>6

\* What the end of the loop itself emitted keeps its target.
LEMMA LoopFresh ==
  ASSUME NEW st, NEW n, NEW top, NEW last, Looping(st, n, top, last),
         NEW p, p = Last(breaks).patches, NEW q, q = Last(loops).patches,
         Leavers(ast, st, code, Breakable, "break", breakPatches, p, top),
         Leavers(ast, st, code, LoopKinds, "continue", continuePatches, q, top),
         NEW c1, Follows(code, c1, n), NEW c2, NEW exit, NEW continue, LoopSet(c1, c2, exit, continue)
  PROVE  \A j \in Len(code) + 1 .. Len(c2) :
           /\ j \in 1..Len(c1) /\ c2[j].to = c1[j].to /\ c2[j].op = c1[j].op
           /\ c2[j].node = c1[j].node
<1>1. Len(code) \in Nat /\ Len(c2) = Len(c1)  BY DEF Looping, LoopSet, Retargets
<1>2. ASSUME NEW j \in Len(code) + 1 .. Len(c2)
      PROVE  /\ j \in 1..Len(c1) /\ c2[j].to = c1[j].to /\ c2[j].op = c1[j].op
             /\ c2[j].node = c1[j].node
  <2>1. j \in 1..Len(c1) /\ j \notin 1..Len(code)  BY <1>1
  <2>2. ~BreakHit(j)
    <3>1. ASSUME Hit(breakPatches, p, j) PROVE FALSE  BY <2>1, <3>1, LeaverIs
    <3> QED BY <3>1 DEF BreakHit
  <2>3. ~ContinueHit(j)
    <3>1. ASSUME Hit(continuePatches, q, j) PROVE FALSE  BY <2>1, <3>1, LeaverIs
    <3> QED BY <3>1 DEF ContinueHit
  <2> QED BY <2>1, <2>2, <2>3 DEF LoopSet, Retargets
<1> QED BY <1>2

LEMMA BackIs ==
  ASSUME NEW n \in Nat, at = n + 1, NEW f \in FrameType, NEW y, y = Ins("jump", 0, f.start)
  PROVE  y \in Instruction /\ y.node = n + 1 /\ y.op = "jump" /\ y.to = f.start
<1>1. PICK op, to : op = "jump" /\ to = f.start  OBVIOUS
<1>2. op \in {"jump", "branch", "ret"} /\ to \in Nat /\ y = Ins(op, 0, to)
  BY <1>1 DEF FrameType
<1>3. y \in Instruction /\ y.node = n + 1 /\ y.op = op /\ y.to = to  BY <1>2, GoesIs
<1> QED BY <1>1, <1>3

LEMMA JumpWhileEnd ==
  ASSUME NEW st, JumpOK(st), EmitWhileEnd
  PROVE  JumpOK(st)'
<1> DEFINE K == {"endwhile"}
<1>1. /\ Emitting(K) /\ FinishLoop /\ frames' = Front(frames)
      /\ UNCHANGED <<symbols, scope, labels>>
  BY DEF EmitWhileEnd, Pop
<1>2. PICK n : Meeting(st, n, K)  BY <1>1, Meets
<1>3. PICK top, last : top = Stack(st, n)[Level(st, n)] /\ last = Last(frames)  OBVIOUS
<1>4. ast[n + 1].kind = "endwhile" /\ K \subseteq LoopEnds /\ K \subseteq LoopEnds \cup {"endswitch"}
  BY <1>2 DEF Meeting, LoopEnds
<1> HIDE DEF K
<1>5. Looping(st, n, top, last)  BY <1>2, <1>3, <1>4, LoopMet
<1>6. /\ TreeOK(ast, st) /\ n \in 0..Len(ast) - 1 /\ n \in Nat /\ at = n + 1 /\ Coded(code, n)
      /\ Tabling(ast, st, n, frames, symbols) /\ scope \in Int /\ last \in FrameType
      /\ FrameOK(ast, st, code, n, top, last) /\ Len(code) \in Nat
      /\ ast[top].kind \in Closes(ast[n + 1].kind) /\ ast[n + 1].kind \in Ends
      /\ ast[n + 1].kind \in LoopEnds
  BY <1>4, <1>5 DEF Looping, LoopEnds
<1>7. ast[top].kind = "while"  BY <1>4, <1>6 DEF Closes
<1>8. PICK y, c1, c2, c3, exit, continue, i :
        /\ y = Ins("jump", 0, last.start) /\ c1 = Append(code, y) /\ i = last.patch
        /\ exit = Len(c1) + 1 /\ continue = last.start /\ c2 = Patch(c1, i, exit)
        /\ c3 = code'
  OBVIOUS
<1>9. c3 = LoopPatched(c2, exit, continue)  BY <1>3, <1>8 DEF EmitWhileEnd, Top, Size
<1>10. y \in Instruction /\ y.node = n + 1 /\ y.op = "jump" /\ y.to = last.start
  BY <1>6, <1>8, BackIs
<1>11. Follows(code, c1, n) /\ Tailed(code, c1, y) /\ Adds(code, c1, 1)
  BY <1>6, <1>8, <1>10, TailedOne
<1>12. /\ Len(c1) = Len(code) + 1 /\ Len(c1) \in Nat /\ c1[Len(c1)] = y
       /\ KeepsTargets(code, c1)
  BY <1>11 DEF Adds, Tailed, KeepsTargets
<1>13. exit \in Nat /\ exit = Len(code) + 2 /\ continue \in Nat  BY <1>6, <1>8, <1>12 DEF FrameType
<1>14. i \in 1..Len(code)  BY <1>6, <1>7, <1>8 DEF FrameOK, Leaving
<1>15. Sets(ast, st, code, c1, c2, n, i, exit)
  BY <1>6, <1>8, <1>11, <1>12, <1>13, <1>14, PatchLands
<1>16. /\ Follows(code, c2, n) /\ Len(c2) = Len(c1) /\ c2 \in Seq(Instruction)
       /\ c2[Len(c1)].op = "jump" /\ c2[Len(c1)].node = n + 1 /\ c2[Len(c1)].to = last.start
       /\ \A j \in 1..Len(code) : c2[j].to = IF j = i THEN exit ELSE code[j].to
  <2>1. /\ Follows(code, c2, n) /\ Retargets(c1, c2) /\ c2[i].to = exit
        /\ \A j \in 1..Len(c1) : j # i => c2[j].to = c1[j].to
    BY <1>15 DEF Sets
  <2>2. Len(c1) \in 1..Len(c1) /\ Len(c1) # i /\ \A j \in 1..Len(code) : j \in 1..Len(c1)
    BY <1>6, <1>12, <1>14
  <2> QED BY <1>10, <1>12, <2>1, <2>2 DEF Retargets, KeepsTargets
<1>17. LoopSet(c2, c3, exit, continue)  BY <1>9, <1>13, <1>16, LoopPatchedIs
<1>18. Follows(code, c3, n) /\ Len(c3) = Len(c1)
  <2>1. Retargets(c2, c3)  BY <1>17 DEF LoopSet
  <2> QED BY <1>6, <1>16, <2>1, RetargetsFollows DEF Retargets
<1>19. \A j \in Len(code) + 1 .. Len(c3) : j = Len(c1)  BY <1>6, <1>12, <1>18
<1>20. OneJump(ast, code, c3, n)  BY <1>19 DEF OneJump
<1>21. PICK p, q : p = Last(breaks).patches /\ q = Last(loops).patches  OBVIOUS
<1>22. /\ Leavers(ast, st, code, Breakable, "break", breakPatches, p, top)
       /\ Leavers(ast, st, code, LoopKinds, "continue", continuePatches, q, top)
  BY <1>1, <1>2, <1>3, <1>4, <1>18, <1>20, <1>21, LoopLists
<1>23. /\ Len(c1) \in 1..Len(c3) /\ c3[Len(c1)].op = "jump" /\ c3[Len(c1)].node = n + 1
       /\ c3[Len(c1)].to = last.start
  <2>1. Len(c1) \in Len(code) + 1 .. Len(c3) /\ Len(c1) \in 1..Len(c3)  BY <1>6, <1>12, <1>18
  <2>2. c3[Len(c1)].to = c2[Len(c1)].to /\ c3[Len(c1)].op = c2[Len(c1)].op
        /\ c3[Len(c1)].node = c2[Len(c1)].node
    BY <1>5, <1>16, <1>17, <1>21, <1>22, <2>1, LoopFresh
  <2> QED BY <1>16, <2>1, <2>2
<1>24. GoesBack(n, c3, exit)  BY <1>8, <1>23 DEF GoesBack
<1>25. LoopTargets(code, c3, last.patch, exit, continue)
  <2>1. \A j \in 1..Len(code) : j \in 1..Len(c2)  BY <1>6, <1>12, <1>16
  <2> QED BY <1>8, <1>16, <1>17, <2>1 DEF LoopTargets, LoopSet
<1>26. \A j \in Len(code) + 1 .. Len(c3) : Lands(ast, st, c3, n + 1, j)
  <2>1. Lands(ast, st, c3, n + 1, Len(c1))  BY <1>5, <1>6, <1>18, <1>23, BackLands
  <2> QED BY <1>19, <2>1
<1>27. Tabling(ast, st, n + 1, Front(frames), symbols)  BY <1>6, TablingClose
<1> QED BY <1>1, <1>2, <1>4, <1>5, <1>6, <1>7, <1>8, <1>18, <1>20, <1>24, <1>25, <1>26, <1>27,
           LoopClosed

Paired(e, z, y) == e = <<z, y>>
Adjoined(d, z, y) == d = Append(<<z>>, y)

LEMMA PairIs ==
  ASSUME NEW S, NEW z \in S, NEW y \in S, NEW d, Adjoined(d, z, y), NEW e, Paired(e, z, y)
  PROVE  d = e /\ Len(d) = 2 /\ d[1] = z /\ d[2] = y
<1>1. <<z>> \in Seq(S) /\ Len(<<z>>) = 1 /\ <<z>>[1] = z  OBVIOUS
<1>2. d \in Seq(S) /\ Len(d) = 2 /\ d[1] = z /\ d[2] = y
  BY <1>1, AppendProperties DEF Adjoined
<1>4. e \in Seq(S) /\ Len(e) = 2 /\ e[1] = z /\ e[2] = y  BY DEF Paired
<1>5. \A i \in 1..2 : d[i] = e[i]  BY <1>2, <1>4
<1>6. \A i \in 1..Len(d) : d[i] = e[i]  BY <1>2, <1>5
<1>7. Len(d) = Len(e)  BY <1>2, <1>4
<1>8. d = e  BY <1>2, <1>4, <1>6, <1>7, SeqEqual
<1> QED BY <1>2, <1>8

LEMMA JumpDoEnd ==
  ASSUME NEW st, JumpOK(st), EmitDoEnd
  PROVE  JumpOK(st)'
<1> DEFINE K == {"enddo"}
<1>1. /\ Emitting(K) /\ FinishLoop /\ frames' = Front(frames)
      /\ UNCHANGED <<symbols, scope, labels>>
  BY DEF EmitDoEnd, Pop
<1>2. PICK n : Meeting(st, n, K)  BY <1>1, Meets
<1>3. PICK top, last : top = Stack(st, n)[Level(st, n)] /\ last = Last(frames)  OBVIOUS
<1>4. ast[n + 1].kind = "enddo" /\ K \subseteq LoopEnds /\ K \subseteq LoopEnds \cup {"endswitch"}
  BY <1>2 DEF Meeting, LoopEnds
<1> HIDE DEF K
<1>5. Looping(st, n, top, last)  BY <1>2, <1>3, <1>4, LoopMet
<1>6. /\ TreeOK(ast, st) /\ n \in 0..Len(ast) - 1 /\ n \in Nat /\ at = n + 1 /\ Coded(code, n)
      /\ Tabling(ast, st, n, frames, symbols) /\ scope \in Int /\ last \in FrameType
      /\ FrameOK(ast, st, code, n, top, last) /\ Len(code) \in Nat
      /\ ast[top].kind \in Closes(ast[n + 1].kind) /\ ast[n + 1].kind \in Ends
      /\ ast[n + 1].kind \in LoopEnds /\ Len(ast) \in Nat
  BY <1>4, <1>5 DEF Looping, LoopEnds
<1>7. ast[top].kind = "do"  BY <1>4, <1>6 DEF Closes
<1>8. PICK y, z, d, c1, c3, exit, continue :
        /\ z = Ins("branch", 0, exit) /\ y = Ins("jump", 0, last.start)
        /\ continue = Len(code) + 1 /\ exit = continue + 2 /\ d = Append(<<z>>, y)
        /\ c1 = code \o d /\ c3 = code'
  OBVIOUS
<1>10. exit \in Nat /\ exit = Len(code) + 3 /\ continue \in Nat  BY <1>6, <1>8
<1>11. y \in Instruction /\ y.node = n + 1 /\ y.op = "jump" /\ y.to = last.start
  BY <1>6, <1>8, BackIs
<1>12. z \in Instruction /\ z.node = n + 1 /\ z.op = "branch" /\ z.to = exit
  <2>1. PICK op : op = "branch"  OBVIOUS
  <2>2. op \in {"jump", "branch", "ret"} /\ z = Ins(op, 0, exit)  BY <1>8, <2>1
  <2>3. z \in Instruction /\ z.node = n + 1 /\ z.op = op /\ z.to = exit
    BY <1>6, <1>10, <2>2, GoesIs
  <2> QED BY <2>1, <2>3
<1>9. c3 = LoopPatched(c1, exit, continue)
  <2>1. d = <<z, y>>
    <3>1. PICK S, e : S = Instruction /\ Paired(e, z, y)  BY DEF Paired
    <3>2. Adjoined(d, z, y)  BY <1>8 DEF Adjoined
    <3>3. d = e  BY <1>11, <1>12, <3>1, <3>2, PairIs
    <3> QED BY <3>1, <3>3 DEF Paired
  <2> QED BY <1>3, <1>8, <2>1 DEF EmitDoEnd, Top, Size
<1>13. Emits(n, d) /\ Len(d) = 2 /\ d[1] = z /\ d[2] = y
  <2>1. Emits(n, <<z>>)  BY <1>6, <1>12, EmitsOne
  <2>2. PICK e : e = <<z>>  OBVIOUS
  <2>3. Emits(n, d)  BY <1>6, <1>8, <1>11, <2>1, <2>2, AppendIs
  <2>4. PICK S, x : S = Instruction /\ Paired(x, z, y)  BY DEF Paired
  <2>5. Adjoined(d, z, y)  BY <1>8 DEF Adjoined
  <2> QED BY <1>11, <1>12, <2>3, <2>4, <2>5, PairIs
<1>14. Follows(code, c1, n) /\ Added(code, d, c1)  BY <1>6, <1>8, <1>13, EmitsAfter
<1>15. /\ Len(c1) = Len(code) + 2 /\ c1 \in Seq(Instruction)
       /\ c1[Len(code) + 1] = z /\ c1[Len(code) + 2] = y
       /\ \A i \in 1..Len(code) : c1[i] = code[i] /\ i \in 1..Len(c1)
  <2>1. 1 \in 1..Len(d) /\ 2 \in 1..Len(d)  BY <1>13
  <2> QED BY <1>13, <1>14, <2>1 DEF Added
<1>16. LoopSet(c1, c3, exit, continue)  BY <1>9, <1>10, <1>15, LoopPatchedIs
<1>17. Follows(code, c3, n) /\ Len(c3) = Len(c1)
       /\ \A j \in 1..Len(c1) : c3[j].op = c1[j].op
  <2>1. Retargets(c1, c3)  BY <1>16 DEF LoopSet
  <2> QED BY <1>6, <1>14, <2>1, RetargetsFollows DEF Retargets
<1>18. PICK a, b : a = Len(code) + 1 /\ b = Len(code) + 2  OBVIOUS
<1>19. /\ \A j \in Len(code) + 1 .. Len(c3) : j = a \/ j = b
       /\ a \in Len(code) + 1 .. Len(c3) /\ b \in Len(code) + 1 .. Len(c3)
       /\ a \in 1..Len(c1) /\ b \in 1..Len(c1) /\ a \in 1..Len(c3) /\ b \in 1..Len(c3)
  BY <1>6, <1>15, <1>17, <1>18
<1>20. OneJump(ast, code, c3, n)
  <2>1. c3[a].op = "branch"  BY <1>12, <1>15, <1>17, <1>18, <1>19
  <2> QED BY <1>19, <2>1 DEF OneJump
<1>21. PICK p, q : p = Last(breaks).patches /\ q = Last(loops).patches  OBVIOUS
<1>22. /\ Leavers(ast, st, code, Breakable, "break", breakPatches, p, top)
       /\ Leavers(ast, st, code, LoopKinds, "continue", continuePatches, q, top)
  BY <1>1, <1>2, <1>3, <1>4, <1>17, <1>20, <1>21, LoopLists
<1>23. /\ c3[a].to = exit /\ c3[a].op = "branch" /\ c3[a].node = n + 1
       /\ c3[b].to = last.start /\ c3[b].op = "jump" /\ c3[b].node = n + 1
  <2>1. \A j \in Len(code) + 1 .. Len(c3) :
          /\ j \in 1..Len(c1) /\ c3[j].to = c1[j].to /\ c3[j].op = c1[j].op
          /\ c3[j].node = c1[j].node
    BY <1>5, <1>14, <1>16, <1>21, <1>22, LoopFresh
  <2> QED BY <1>11, <1>12, <1>15, <1>18, <1>19, <2>1
<1>24. GoesBack(n, c3, exit)
  <2>1. exit = b + 1  BY <1>6, <1>10, <1>18
  <2> QED BY <1>19, <1>23, <2>1 DEF GoesBack
<1>25. last.patch = 0 /\ last.patch \notin 1..Len(code)
  <2>1. last.patch = 0  BY <1>6, <1>7 DEF FrameOK, Leaving
  <2> QED BY <1>6, <2>1
<1>26. LoopTargets(code, c3, last.patch, exit, continue)
  BY <1>15, <1>16, <1>25 DEF LoopTargets, LoopSet
<1>27. Lands(ast, st, c3, n + 1, b)  BY <1>5, <1>6, <1>17, <1>19, <1>23, BackLands
<1>28. Lands(ast, st, c3, n + 1, a)
  <2>1. PICK how, k, x, op : how = "over" /\ k = 1 /\ x = c3[a].node /\ op = c3[a].op  OBVIOUS
  <2>2. AimsLoop(ast, st, x, op, how, k)  BY <1>4, <1>23, <2>1 DEF AimsLoop
  <2>3. Aims(ast, st, c3[a].node, c3[a].op, Rank(c3, a), how, k)  BY <2>1, <2>2 DEF Aims
  <2>4. c3[a].to = a + 2  BY <1>6, <1>10, <1>18, <1>23
  <2>5. how # "at" /\ how # "behind" /\ how # "test"  BY <2>1
  <2>6. Valued(c3, n + 1, a, how, k, c3[a].to)  BY <2>4, <2>5 DEF Valued
  <2>7. k \in 1..Len(ast) + 1  BY <1>6, <2>1
  <2> QED BY <2>3, <2>6, <2>7 DEF Lands
<1>29. \A j \in Len(code) + 1 .. Len(c3) : Lands(ast, st, c3, n + 1, j)  BY <1>19, <1>27, <1>28
<1>30. Tabling(ast, st, n + 1, Front(frames), symbols)  BY <1>6, TablingClose
<1> QED BY <1>1, <1>2, <1>4, <1>5, <1>6, <1>7, <1>8, <1>17, <1>20, <1>24, <1>26, <1>29, <1>30,
           LoopClosed

-----------------------------------------------------------------------------
(* The end of a for                                                          *)
\* More instructions that go nowhere.
LEMMA FollowsMore ==
  ASSUME NEW n \in Nat, NEW c, Len(c) \in Nat, NEW c2, Follows(c, c2, n), NEW d, Emits(n, d),
         NEW c3, c3 = c2 \o d
  PROVE  /\ Follows(c, c3, n) /\ Added(c2, d, c3)
<1>1. PICK T : T = Instruction  OBVIOUS
<1>2. c2 \in Seq(T) /\ d \in Seq(T)  BY <1>1 DEF Follows, Emits
<1>3. /\ c3 \in Seq(T) /\ Len(c3) = Len(c2) + Len(d) /\ Len(c2) \in Nat /\ Len(d) \in Nat
      /\ \A i \in 1..Len(c3) : c3[i] = IF i <= Len(c2) THEN c2[i] ELSE d[i - Len(c2)]
  BY <1>2, ConcatProperties
<1>4. PICK l \in Nat, k \in Nat, m \in Nat : l = Len(c2) /\ k = Len(d) /\ m = Len(c)  BY <1>3
<1>5. \A i \in 1..l : i \in 1..l + k /\ i <= l  BY <1>4
<1>6. \A i \in l + 1 .. l + k : i \in 1..l + k /\ ~(i <= l) /\ i - l \in 1..k  BY <1>4
<1>7. \A j \in 1..k : l + j \in l + 1 .. l + k /\ (l + j) - l = j  BY <1>4
<1>8. \A i \in 1..l : c3[i] = c2[i]  BY <1>3, <1>4, <1>5
<1>9. \A i \in l + 1 .. l + k : c3[i] = d[i - l]  BY <1>3, <1>4, <1>6
<1>10. \A j \in 1..k : c3[l + j] = d[j]  BY <1>7, <1>9
<1>11. \A i \in l + 1 .. l + k : c3[i].node = n + 1  BY <1>4, <1>6, <1>9 DEF Emits
<1>12. Added(c2, d, c3)  BY <1>1, <1>3, <1>4, <1>5, <1>6, <1>7, <1>8, <1>9, <1>10 DEF Added
<1>13. m <= l /\ \A i \in 1..m : i \in 1..l  BY <1>4 DEF Follows
<1>14. \A i \in m + 1 .. l + k : i \in m + 1 .. l \/ i \in l + 1 .. l + k  BY <1>4
<1>15. \A i \in 1..m : c3[i].op = c[i].op /\ c3[i].node = c[i].node
  BY <1>4, <1>8, <1>13 DEF Follows
<1>16. \A i \in m + 1 .. l : i \in 1..l  BY <1>4
<1>17. \A i \in m + 1 .. l : c3[i].node = n + 1  BY <1>4, <1>8, <1>16 DEF Follows
<1>18. \A i \in m + 1 .. l + k : c3[i].node = n + 1  BY <1>11, <1>14, <1>17
<1>19. m <= l + k /\ Len(c3) = l + k  BY <1>3, <1>4, <1>13
<1>20. c3 \in Seq(Instruction) /\ Len(c) <= Len(c3)  BY <1>1, <1>3, <1>4, <1>19
<1>21. Follows(c, c3, n)  BY <1>4, <1>15, <1>18, <1>19, <1>20 DEF Follows
<1> QED BY <1>12, <1>21

\* The test of the loop goes behind it, where there is one.
ForLeft(c1, patch, exit) == IF patch = 0 THEN c1 ELSE Patch(c1, patch, exit)
ForSet(c1, c2, n, patch, exit) ==
  /\ Follows(code, c2, n) /\ Retargets(c1, c2)
  /\ \A j \in Len(code) + 1 .. Len(c1) : c2[j].to = c1[j].to
  /\ \A j \in 1..Len(code) : c2[j].to = IF j = patch THEN exit ELSE code[j].to
LEMMA ForLeaves ==
  ASSUME NEW st, NEW n, NEW top, NEW last, Looping(st, n, top, last), ast[top].kind = "for",
         NEW c1, NEW y, Follows(code, c1, n), Tailed(code, c1, y), NEW exit \in Nat,
         NEW c2, c2 = ForLeft(c1, last.patch, exit)
  PROVE  ForSet(c1, c2, n, last.patch, exit)
<1>1. /\ n \in Nat /\ Coded(code, n) /\ Len(code) \in Nat /\ FrameOK(ast, st, code, n, top, last)
      /\ Len(c1) \in Nat /\ Len(code) < Len(c1) /\ KeepsTargets(code, c1)
      /\ c1 \in Seq(Instruction)
  BY DEF Looping, Tailed, KeepsTargets
<1>2. CASE last.patch = 0
  <2>1. c2 = c1  BY <1>2 DEF ForLeft
  <2>2. Retargets(c1, c2)  BY <1>1, <2>1 DEF Retargets
  <2>3. \A j \in 1..Len(code) : j # last.patch  BY <1>1, <1>2
  <2> QED BY <1>1, <2>1, <2>2, <2>3 DEF KeepsTargets, ForSet
<1>3. CASE last.patch # 0
  <2>1. PICK i : i = last.patch  OBVIOUS
  <2>2. i \in 1..Len(code)  BY <1>1, <1>3, <2>1 DEF FrameOK, Leaving, Testing
  <2>3. c2 = Patch(c1, i, exit)  BY <1>3, <2>1 DEF ForLeft
  <2>4. Sets(ast, st, code, c1, c2, n, i, exit)  BY <1>1, <2>2, <2>3, PatchLands
  <2>5. /\ Follows(code, c2, n) /\ Retargets(c1, c2) /\ c2[i].to = exit
        /\ \A j \in 1..Len(c1) : j # i => c2[j].to = c1[j].to
    BY <2>4 DEF Sets
  <2>6. \A j \in Len(code) + 1 .. Len(c1) : j \in 1..Len(c1) /\ j # i  BY <1>1, <2>2
  <2>7. \A j \in 1..Len(code) : j \in 1..Len(c1)  BY <1>1
  <2> QED BY <1>1, <2>1, <2>5, <2>6, <2>7 DEF KeepsTargets, ForSet
<1> QED BY <1>2, <1>3

LEMMA JumpForEnd ==
  ASSUME NEW st, JumpOK(st), EmitForEnd
  PROVE  JumpOK(st)'
<1> DEFINE K == {"endfor"}
<1>1. /\ Emitting(K) /\ FinishLoop /\ frames' = Front(frames) /\ scope' = scope - 1
      /\ labels' = labels /\ symbols' = SubSeq(symbols, 1, Top.kept)
  BY DEF EmitForEnd, Pop
<1>2. PICK n : Meeting(st, n, K)  BY <1>1, Meets
<1>3. PICK top, last : top = Stack(st, n)[Level(st, n)] /\ last = Last(frames)  OBVIOUS
<1>4. ast[n + 1].kind = "endfor" /\ K \subseteq LoopEnds /\ K \subseteq LoopEnds \cup {"endswitch"}
  BY <1>2 DEF Meeting, LoopEnds
<1> HIDE DEF K
<1>5. Looping(st, n, top, last)  BY <1>2, <1>3, <1>4, LoopMet
<1>6. /\ TreeOK(ast, st) /\ n \in 0..Len(ast) - 1 /\ n \in Nat /\ at = n + 1 /\ Coded(code, n)
      /\ Tabling(ast, st, n, frames, symbols) /\ scope \in Int /\ last \in FrameType
      /\ FrameOK(ast, st, code, n, top, last) /\ Len(code) \in Nat /\ Tabled(n)
      /\ ast[top].kind \in Closes(ast[n + 1].kind) /\ ast[n + 1].kind \in Ends
      /\ ast[n + 1].kind \in LoopEnds
  BY <1>4, <1>5 DEF Looping, LoopEnds
<1>7. ast[top].kind = "for"  BY <1>4, <1>6 DEF Closes
<1>8. PICK r, d, y, c1, c2, c3, c4, e, exit, continue :
        /\ r = last.kept + 1
        /\ d = (IF r <= Len(symbols) THEN Touch("update", r) ELSE <<>>)
        /\ y = Ins("jump", 0, last.start) /\ c1 = Append(code \o d, y)
        /\ exit = Len(c1) + 1 /\ continue = Len(code) + 1
        /\ c2 = ForLeft(c1, last.patch, exit) /\ c3 = LoopPatched(c2, exit, continue)
        /\ e = CleanupFrom(last.kept) /\ c4 = code'
  OBVIOUS
<1>9. c4 = c3 \o e
  <2>1. PICK post : post = IF r <= Len(symbols) THEN code \o Touch("update", r) ELSE code  OBVIOUS
  <2>2. post = code \o d
    <3>1. code \in Seq(Instruction)  BY <1>6 DEF Coded
    <3>2. code \o <<>> = code  BY <3>1, SMTT(30)
    <3> QED BY <1>8, <2>1, <3>2
  <2>3. c4 = LoopPatched(ForLeft(Append(post, y), last.patch, exit), exit, continue)
               \o CleanupFrom(last.kept)
    BY <1>3, <1>8, <2>1, <2>2, ZenonT(30) DEF EmitForEnd, Top, Size, ForLeft
  <2> QED BY <1>8, <2>2, <2>3
<1>10. y \in Instruction /\ y.node = n + 1 /\ y.op = "jump" /\ y.to = last.start
  BY <1>6, <1>8, BackIs
<1>11. Emits(n, d) /\ Quiet(d)
  <2>1. CASE r <= Len(symbols)
    <3>1. PICK kind : kind = "update"  OBVIOUS
    <3>2. r \in Nat /\ Len(symbols) \in Nat /\ Len(symbols) <= MaxLocals
      BY <1>6, <1>8, SMTT(30) DEF FrameType, Tabled
    <3>3. r \in 0..MaxLocals  BY <2>1, <3>2, LocalsFit
    <3>4. d = Touch(kind, r)  BY <1>8, <2>1, <3>1
    <3> QED BY <1>6, <3>3, <3>4, TouchIs
  <2>2. CASE ~(r <= Len(symbols))
    <3>1. d = <<>>  BY <1>8, <2>2
    <3> QED BY <3>1, EmitsNone
  <2> QED BY <2>1, <2>2
<1>12. Follows(code, c1, n) /\ Tailed(code, c1, y)
  BY <1>6, <1>8, <1>10, <1>11, TailedIs
<1>13. /\ Len(c1) \in Nat /\ Len(code) < Len(c1) /\ c1[Len(c1)] = y /\ c1 \in Seq(Instruction)
       /\ \A j \in Len(code) + 1 .. Len(c1) : j = Len(c1) \/ c1[j].op \notin {"jump", "branch"}
  BY <1>12 DEF Tailed
<1>14. exit \in Nat /\ continue \in Nat  BY <1>6, <1>8, <1>13
<1>15. /\ Follows(code, c2, n) /\ Retargets(c1, c2)
       /\ \A j \in Len(code) + 1 .. Len(c1) : c2[j].to = c1[j].to
       /\ \A j \in 1..Len(code) : c2[j].to = IF j = last.patch THEN exit ELSE code[j].to
  <2>1. ForSet(c1, c2, n, last.patch, exit)  BY <1>5, <1>7, <1>8, <1>12, <1>14, ForLeaves
  <2> QED BY <2>1 DEF ForSet
<1>16. LoopSet(c2, c3, exit, continue)
  <2>1. c2 \in Seq(Instruction)  BY <1>15 DEF Retargets
  <2> QED BY <1>8, <1>14, <2>1, LoopPatchedIs
<1>17. Follows(code, c3, n) /\ Len(c3) = Len(c1) /\ Len(c2) = Len(c1)
       /\ \A j \in 1..Len(c1) : c3[j].op = c1[j].op /\ c3[j].node = c1[j].node
  <2>1. Retargets(c2, c3)  BY <1>16 DEF LoopSet
  <2>2. Follows(code, c3, n)  BY <1>6, <1>15, <2>1, RetargetsFollows
  <2> QED BY <1>15, <2>1, <2>2 DEF Retargets
<1>18. Emits(n, e) /\ Quiet(e)  BY <1>6, <1>8, CleanupIs
<1>19. Follows(code, c4, n) /\ Added(c3, e, c4)  BY <1>6, <1>9, <1>17, <1>18, FollowsMore
<1>20. /\ \A j \in 1..Len(c1) : c4[j] = c3[j] /\ j \in 1..Len(c4)
       /\ \A j \in Len(c1) + 1 .. Len(c4) : c4[j].op \notin {"jump", "branch"}
       /\ Len(c4) \in Nat /\ Len(c1) <= Len(c4)
  <2>1. /\ \A j \in 1..Len(c1) : c4[j] = c3[j] /\ j \in 1..Len(c4)
        /\ Len(c4) = Len(c1) + Len(e) /\ Len(e) \in Nat
        /\ \A j \in Len(c1) + 1 .. Len(c4) : c4[j] = e[j - Len(c1)] /\ j - Len(c1) \in 1..Len(e)
    BY <1>17, <1>19 DEF Added
  <2>2. \A j \in Len(c1) + 1 .. Len(c4) : c4[j].op \notin {"jump", "branch"}
    BY <1>18, <2>1 DEF Quiet
  <2> QED BY <1>13, <2>1, <2>2
<1>21. PICK b : b = Len(c1)  OBVIOUS
<1>22. /\ \A j \in Len(code) + 1 .. Len(c4) : c4[j].op \in {"jump", "branch"} => j = b
       /\ b \in Len(code) + 1 .. Len(c3) /\ b \in 1..Len(c1) /\ b \in 1..Len(c4)
  <2>1. \A j \in Len(code) + 1 .. Len(c4) : \/ j \in Len(code) + 1 .. Len(c1)
                                            \/ j \in Len(c1) + 1 .. Len(c4)
    BY <1>6, <1>13, <1>20
  <2>2. \A j \in Len(code) + 1 .. Len(c1) : j \in 1..Len(c1)  BY <1>6, <1>13
  <2>3. \A j \in Len(code) + 1 .. Len(c1) : c4[j].op \in {"jump", "branch"} => j = b
    BY <1>13, <1>17, <1>20, <1>21, <2>2
  <2>4. b \in Len(code) + 1 .. Len(c3) /\ b \in 1..Len(c1) /\ b \in 1..Len(c4)
    BY <1>6, <1>13, <1>17, <1>20, <1>21
  <2> QED BY <1>20, <2>1, <2>3, <2>4
<1>23. OneJump(ast, code, c4, n)  BY <1>22 DEF OneJump
<1>24. PICK p, q : p = Last(breaks).patches /\ q = Last(loops).patches  OBVIOUS
<1>25. /\ Leavers(ast, st, code, Breakable, "break", breakPatches, p, top)
       /\ Leavers(ast, st, code, LoopKinds, "continue", continuePatches, q, top)
  BY <1>1, <1>2, <1>3, <1>4, <1>19, <1>23, <1>24, LoopLists
<1>26. c4[b].to = last.start /\ c4[b].op = "jump" /\ c4[b].node = n + 1
  <2>1. c3[b].to = c2[b].to
    BY <1>5, <1>15, <1>16, <1>22, <1>24, <1>25, LoopFresh
  <2> QED BY <1>10, <1>13, <1>15, <1>17, <1>20, <1>21, <1>22, <2>1
<1>27. GoesBack(n, c4, exit)  BY <1>8, <1>21, <1>22, <1>26 DEF GoesBack
<1>28. LoopTargets(code, c4, last.patch, exit, continue)
  <2>1. \A j \in 1..Len(code) : j \in 1..Len(c1)  BY <1>6, <1>13
  <2> QED BY <1>15, <1>16, <1>17, <1>20, <2>1 DEF LoopTargets, LoopSet
<1>29. Lands(ast, st, c4, n + 1, b)  BY <1>5, <1>6, <1>19, <1>22, <1>26, BackLands
<1>30. \A j \in Len(code) + 1 .. Len(c4) : c4[j].op \in {"jump", "branch"} =>
         Lands(ast, st, c4, n + 1, j)
  BY <1>22, <1>29
<1>31. Tabling(ast, st, n + 1, Front(frames), symbols')
  <2>1. symbols' = SubSeq(symbols, 1, Last(frames).kept)  BY <1>1 DEF Top
  <2>2. ast[n + 1].kind \in {"endblock", "endcase", "endfor"}  BY <1>4
  <2> QED BY <1>6, <2>1, <2>2, TablingEnd
<1>32. scope' \in Int /\ ast[top].kind # "while"  BY <1>1, <1>6, <1>7
<1> QED BY <1>1, <1>2, <1>4, <1>5, <1>6, <1>8, <1>19, <1>23, <1>27, <1>28, <1>30, <1>31, <1>32,
           LoopClosed

-----------------------------------------------------------------------------
(* A switch is entered.                                                      *)
LEMMA BranchesIn ==
  ASSUME NEW t, NEW st, TreeOK(t, st), NEW m
  PROVE  /\ Branches(t, st, m) \in SUBSET (1..Len(t)) /\ Len(t) \in Nat
         /\ Cardinality(Branches(t, st, m)) \in Nat /\ Branches(t, st, m) \in SUBSET Nat
<1>1. PICK N \in Nat : N = Len(t)  BY DEF TreeOK
<1>2. PICK S : S = Branches(t, st, m)  OBVIOUS
<1>3. S \in SUBSET (1..N)  BY <1>1, <1>2 DEF Branches
<1>4. Cardinality(S) \in Nat  BY <1>3, RankEnds
<1>5. S \in SUBSET Nat  BY <1>3
<1> QED BY <1>1, <1>2, <1>3, <1>4, <1>5

LEMMA SwitchCases ==
  ASSUME NEW st, TreeOK(ast, st), NEW m \in 1..Len(ast), ast[m].kind = "switch"
  PROVE  {k \in m + 1 .. Len(ast) : ast[k].kind = "case" /\ ast[k].within = Append(ast[m].within, m)}
           = Branches(ast, st, m)
<1> DEFINE S == {k \in m + 1 .. Len(ast) : /\ ast[k].kind = "case"
                                          /\ ast[k].within = Append(ast[m].within, m)}
<1>1. Len(ast) \in Nat  BY DEF TreeOK
<1>2. ASSUME NEW k \in S PROVE k \in Branches(ast, st, m)
  <2>1. k \in 1..Len(ast) /\ ast[k].kind \in CaseKinds  BY <1>1 DEF CaseKinds
  <2>2. CaseIn(ast, st, m, k)  BY <2>1, CaseWithin
  <2> QED BY <2>1, <2>2 DEF Branches
<1>3. ASSUME NEW k \in Branches(ast, st, m) PROVE k \in S
  <2>1. k \in 1..Len(ast) /\ ast[k].kind = "case" /\ CaseIn(ast, st, m, k)  BY DEF Branches
  <2>2. ast[k].kind \in CaseKinds  BY <2>1 DEF CaseKinds
  <2>3. ast[k].within = Append(ast[m].within, m) /\ m < k  BY <2>1, <2>2, CaseWithin
  <2> QED BY <1>1, <2>1, <2>3
<1> QED BY <1>2, <1>3

\* A dispatch branch waits for the case of its rank.
LEMMA BranchWaits ==
  ASSUME NEW t, NEW st, TreeOK(t, st), NEW n \in 0..Len(t) - 1, NEW x \in ToSet(Stack(st, n + 1)),
         x = n + 1, t[n + 1].kind = "switch",
         NEW c2, NEW i, Rank(c2, i) \in Nat, Rank(c2, i) < Cardinality(Branches(t, st, x))
  PROVE  CaseWait(t, st, c2, n + 1, x, i)
<1>1. PICK N, S, r : N = Len(t) /\ S = Branches(t, st, x) /\ r = Rank(c2, i)  OBVIOUS
<1>2. N \in Nat /\ S \in SUBSET (1..N)  BY <1>1, BranchesIn
<1>3. PICK k \in S : RankIn(S, k) = r  BY <1>1, <1>2, RankExists
<1>4. k > n + 1
  <2>1. CaseIn(t, st, x, k) /\ t[k].kind = "case" /\ k \in 1..Len(t)  BY <1>1, <1>3 DEF Branches
  <2>2. t[k].kind \in CaseKinds /\ x \in 1..Len(t)  BY <1>1, <1>2, <2>1 DEF CaseKinds
  <2>3. x < k  BY <2>1, <2>2, CaseWithin
  <2> QED BY <2>3, <2>1, <1>2, <1>1
<1> QED BY <1>1, <1>3, <1>4 DEF CaseWait

\* The code that dispatches: N branches and a jump.
Dispatches(c, c2, n, N) ==
  /\ Follows(c, c2, n) /\ Len(c) \in Nat /\ Len(c2) = Len(c) + N + 1
  /\ \A i \in 1..Len(c) : c2[i] = c[i]
  /\ \A i \in Len(c) + 1 .. Len(c) + N : c2[i].node = n + 1 /\ c2[i].op = "branch"
  /\ c2[Len(c) + N + 1].node = n + 1 /\ c2[Len(c) + N + 1].op = "jump"

LEMMA DispatchIs ==
  ASSUME NEW n \in Nat, NEW c, Coded(c, n), NEW N \in Nat,
         NEW z \in Instruction, z.node = n + 1, z.op = "branch",
         NEW y \in Instruction, y.node = n + 1, y.op = "jump",
         NEW d, d = [k \in 1..N |-> z], NEW c2, c2 = (c \o d) \o <<y>>
  PROVE  Dispatches(c, c2, n, N)
<1>1. d \in Seq(Instruction) /\ Len(d) = N /\ \A k \in 1..N : d[k] = z
  <2>1. PICK T : T = Instruction  OBVIOUS
  <2>2. d = [k \in 1..N |-> d[k]] /\ \A k \in 1..N : d[k] = z  OBVIOUS
  <2>4. \A k \in 1..N : d[k] \in T  BY <2>1, <2>2
  <2>3. d \in Seq(T) /\ Len(d) = N  BY <2>2, <2>4, Sequenced
  <2> QED BY <2>1, <2>2, <2>3
<1>2. Emits(n, d)  BY <1>1 DEF Emits
<1>3. PICK c1 : c1 = c \o d  OBVIOUS
<1>4. Follows(c, c1, n) /\ Added(c, d, c1)  BY <1>2, <1>3, EmitsAfter
<1>5. PICK e : e = <<y>>  OBVIOUS
<1>6. Emits(n, e) /\ Len(e) = 1 /\ e[1] = y  BY <1>5, EmitsOne
<1>7. Len(c) \in Nat  BY CodeLength
<1>8. Follows(c, c2, n) /\ Added(c1, e, c2)  BY <1>3, <1>4, <1>5, <1>6, <1>7, FollowsMore
<1>9. /\ Len(c1) = Len(c) + N /\ \A i \in 1..Len(c) : c1[i] = c[i] /\ i \in 1..Len(c1)
      /\ \A i \in Len(c) + 1 .. Len(c) + N : c1[i] = z
  <2>1. \A i \in Len(c) + 1 .. Len(c) + N : c1[i] = d[i - Len(c)] /\ i - Len(c) \in 1..N
    BY <1>1, <1>4 DEF Added
  <2> QED BY <1>1, <1>4, <2>1 DEF Added
<1>10. /\ Len(c2) = Len(c1) + 1 /\ \A i \in 1..Len(c1) : c2[i] = c1[i]
       /\ c2[Len(c1) + 1] = y
  <2>1. 1 \in 1..Len(e)  BY <1>6
  <2> QED BY <1>6, <1>8, <2>1 DEF Added
<1>11. /\ Len(c2) = Len(c) + N + 1 /\ Len(c1) + 1 = Len(c) + N + 1
       /\ \A i \in Len(c) + 1 .. Len(c) + N : i \in 1..Len(c1)
  BY <1>7, <1>9, <1>10
<1> QED BY <1>7, <1>8, <1>9, <1>10, <1>11 DEF Dispatches

LEMMA JumpIs ==
  ASSUME NEW n \in Nat, at = n + 1, NEW y, y = Ins("jump", 0, 0)
  PROVE  y \in Instruction /\ y.node = n + 1 /\ y.op = "jump"
<1>1. PICK op, to : op = "jump" /\ to = 0  OBVIOUS
<1>2. op \in {"jump", "branch", "ret"} /\ to \in Nat /\ y = Ins(op, 0, to)  BY <1>1
<1>3. y \in Instruction /\ y.node = n + 1 /\ y.op = op /\ y.to = to  BY <1>2, GoesIs
<1> QED BY <1>1, <1>3

LEMMA SwitchFrame ==
  ASSUME NEW t, NEW st, TreeOK(t, st), NEW n \in 0..Len(t) - 1, t[n + 1].kind = "switch",
         NEW c, Coded(c, n), NEW N, N = Cardinality(Branches(t, st, n + 1)),
         NEW c2, Dispatches(c, c2, n, N), NEW f, f.cases = Branches(t, st, n + 1),
         f.start = Len(c) + N + 1, f.patch = Len(c) + N + 1
  PROVE  FrameOK(t, st, c2, n + 1, n + 1, f)
<1>1. /\ n \in Nat /\ N \in Nat /\ Follows(c, c2, n) /\ Len(c) \in Nat
      /\ Len(c2) = Len(c) + N + 1 /\ Len(t) \in Nat /\ n + 1 \in 1..Len(t)
  <2>1. n \in Nat /\ Len(t) \in Nat /\ n + 1 \in 1..Len(t)  BY DEF TreeOK
  <2>2. N \in Nat  BY <2>1, BranchesIn
  <2>3. Len(c) \in Nat  BY <2>1, CodeLength
  <2> QED BY <2>1, <2>2, <2>3 DEF Dispatches
<1>2. CodeAt(c2, n + 1) = Len(c) + 1  BY <1>1, CodeNow
<1>3. Branching(t, st, c2, n + 1, f)
  <2>1. f.start = CodeAt(c2, n + 1) + Cardinality(f.cases)  BY <1>1, <1>2
  <2>2. ASSUME NEW i \in CodeAt(c2, n + 1) .. f.start - 1
        PROVE  i \in 1..Len(c2) /\ c2[i].node = n + 1 /\ c2[i].op = "branch"
    <3>1. i \in Len(c) + 1 .. Len(c) + N /\ i \in 1..Len(c2)  BY <1>1, <1>2
    <3> QED BY <3>1 DEF Dispatches
  <2> QED BY <2>1, <2>2 DEF Branching
<1>4. Defaulting(t, st, c2, n + 1, n + 1, f)
  <2>1. ASSUME NEW k \in 1..n + 1, Default(t, st, n + 1, k) PROVE FALSE
    <3>1. k \in 1..Len(t) /\ t[k].kind \in CaseKinds /\ CaseIn(t, st, n + 1, k)
      BY <1>1, <2>1 DEF Default, CaseKinds
    <3>2. n + 1 < k  BY <1>1, <3>1, CaseWithin
    <3> QED BY <1>1, <3>2
  <2>2. f.patch \in 1..Len(c2)  BY <1>1
  <2>3. c2[f.patch].node = n + 1 /\ c2[f.patch].op = "jump"  BY DEF Dispatches
  <2> QED BY <2>1, <2>2, <2>3 DEF Defaulting
<1> QED BY <1>3, <1>4 DEF FrameOK, Starts, Leaving, Testing

LEMMA SwitchPlaces ==
  ASSUME NEW t, NEW st, TreeOK(t, st), NEW n \in 0..Len(t) - 1, t[n + 1].kind = "switch",
         NEW c, Coded(c, n), NEW N, N = Cardinality(Branches(t, st, n + 1)),
         NEW c2, Dispatches(c, c2, n, N), NEW fr2,
         FrameWait(Stack(st, n + 1), fr2, n + 1, Len(c) + N + 1),
         n + 1 \in ToSet(Stack(st, n + 1)), NEW bp, NEW cp, NEW gp, NEW lb
  PROVE  /\ Placing(t, st, c, c2, n, fr2, bp, cp, gp, lb) /\ TargetsKept(t, st, c, c2, n)
<1>1. /\ n \in Nat /\ N \in Nat /\ Follows(c, c2, n) /\ Len(c) \in Nat
      /\ Len(c2) = Len(c) + N + 1
  <2>1. n \in Nat /\ n + 1 \in 1..Len(t)  BY DEF TreeOK
  <2>2. N \in Nat  BY <2>1, BranchesIn
  <2>3. Len(c) \in Nat  BY <2>1, CodeLength
  <2> QED BY <2>1, <2>2, <2>3 DEF Dispatches
<1>2. CodeAt(c2, n + 1) = Len(c) + 1  BY <1>1, CodeNow
<1>3. ASSUME NEW i \in Len(c) + 1 .. Len(c2)
      PROVE  Waiting(t, st, c2, n + 1, fr2, bp, cp, gp, lb, i)
  <2>1. CASE i = Len(c) + N + 1
    <3>1. c2[i].node = n + 1 /\ c2[i].op = "jump"  BY <2>1 DEF Dispatches
    <3> QED BY <2>1, <3>1 DEF Waiting
  <2>2. CASE i # Len(c) + N + 1
    <3>1. i \in Len(c) + 1 .. Len(c) + N  BY <1>1, <2>2
    <3>2. PICK x : x = n + 1  OBVIOUS
    <3>3. c2[i].node = x /\ c2[i].op = "branch"  BY <3>1, <3>2 DEF Dispatches
    <3>4. Rank(c2, i) = i - CodeAt(c2, n + 1)  BY <3>2, <3>3 DEF Rank
    <3>5. Rank(c2, i) \in Nat /\ Rank(c2, i) < N  BY <1>1, <1>2, <3>1, <3>4
    <3>6. CaseWait(t, st, c2, n + 1, x, i)  BY <3>2, <3>5, BranchWaits
    <3> QED BY <3>2, <3>3, <3>6 DEF Waiting
  <2> QED BY <2>1, <2>2
<1>4. TargetsKept(t, st, c, c2, n)  BY DEF Dispatches, TargetsKept
<1> QED BY <1>3, <1>4 DEF Placing

LEMMA JumpSwitch ==
  ASSUME NEW st, JumpOK(st), EmitSwitch
  PROVE  JumpOK(st)'
<1> DEFINE K == {"switch"}
<1>1. /\ Emitting(K) /\ PushBreak(Len(symbols))
      /\ UNCHANGED <<symbols, scope, loops, breakPatches, continuePatches, gotoPatches, labels>>
  BY ZenonT(30) DEF EmitSwitch
<1>2. PICK n : Meeting(st, n, K)  BY <1>1, Meets
<1>3. /\ TreeOK(ast, st) /\ n \in 0..Len(ast) - 1 /\ n \in Nat /\ at = n + 1 /\ Coded(code, n)
      /\ Frames(ast, st, code, n, Stack(st, n), frames) /\ ast[n + 1].kind = "switch"
      /\ Tabling(ast, st, n, frames, symbols) /\ scope \in Int /\ n + 1 \in 1..Len(ast)
      /\ Patched(ast, st, n, code, frames, breaks, loops, breakPatches, continuePatches,
                 gotoPatches, labels)
  BY <1>2 DEF Meeting, TreeOK
<1> HIDE DEF K
<1>4. PICK cases, N, f, y, z, d, c2, last :
        /\ cases = Branches(ast, st, n + 1) /\ N = Cardinality(cases)
        /\ last = Len(code) + 1 + N /\ f = Frame(Len(symbols), last, last, cases)
        /\ y = Ins("jump", 0, 0) /\ z = Ins("branch", 0, 0) /\ d = [k \in 1..N |-> z]
        /\ c2 = code'
  OBVIOUS
<1>5. c2 = (code \o d) \o <<y>> /\ Grows(frames', frames, f)
  <2>1. {k \in at + 1 .. Len(ast) : ast[k].kind = "case"
                                    /\ ast[k].within = Append(ast[at].within, at)} = cases
    BY <1>3, <1>4, SwitchCases
  <2> QED BY <1>4, <2>1, ZenonT(30) DEF EmitSwitch, Push, Grows, Size
<1>6. /\ N \in Nat /\ Len(code) \in Nat /\ last \in Nat /\ last = Len(code) + N + 1
      /\ cases \in SUBSET Nat
  <2>1. N \in Nat /\ cases \in SUBSET Nat  BY <1>3, <1>4, BranchesIn
  <2>2. Len(code) \in Nat  BY <1>3, CodeLength
  <2> QED BY <1>4, <2>1, <2>2
<1>7. PICK kept \in Nat : kept = Len(symbols)  BY <1>3 DEF Tabling
<1>8. /\ f \in FrameType /\ f.patch = last /\ f.start = last /\ f.cases = cases
  BY <1>4, <1>6, <1>7, FrameTyped
<1>9. /\ y \in Instruction /\ y.node = n + 1 /\ y.op = "jump"
      /\ z \in Instruction /\ z.node = n + 1 /\ z.op = "branch"
  BY <1>3, <1>4, JumpIs, BranchIs
<1>10. Dispatches(code, c2, n, N)  BY <1>3, <1>4, <1>5, <1>6, <1>9, DispatchIs
<1>11. Follows(code, c2, n)  BY <1>10 DEF Dispatches
<1>12. FrameOK(ast, st, c2, n + 1, n + 1, f)
  BY <1>3, <1>4, <1>6, <1>8, <1>10, SwitchFrame
<1>13. /\ ast[n + 1].kind \in Openers /\ ast[n + 1].kind # "default" /\ ast[n + 1].kind # "case"
       /\ ast[n + 1].kind \in Scoped \cup {"if"} /\ ast[n + 1].kind \notin Scopes
  BY <1>3 DEF Openers, Scoped, Scopes
<1>14. /\ Frames(ast, st, c2, n + 1, Stack(st, n + 1), frames')
       /\ FramesWait(ast, st, code, c2, n, frames, frames')
       /\ FrameWait(Stack(st, n + 1), frames', n + 1, f.patch)
  BY <1>3, <1>5, <1>8, <1>11, <1>12, <1>13, FramesOpen
<1>15. n + 1 \in ToSet(Stack(st, n + 1))
  <2>1. PICK j \in 1..Len(frames') : Stack(st, n + 1)[j] = n + 1  BY <1>14 DEF FrameWait
  <2>2. Len(frames') = Len(Stack(st, n + 1))  BY <1>14 DEF Frames
  <2>3. PICK s, m : s = Stack(st, n + 1) /\ m = n + 1  OBVIOUS
  <2>4. s \in Seq(Nat) /\ DOMAIN s = 1..Len(s)
    <3>1. n + 1 \in 0..Len(ast)  BY <1>3
    <3> QED BY <1>3, <2>3, <3>1, NatStack
  <2>5. j \in DOMAIN s /\ s[j] = m  BY <2>1, <2>2, <2>3, <2>4
  <2> QED BY <2>3, <2>5 DEF ToSet
<1>16. /\ Placing(ast, st, code, c2, n, frames', breakPatches, continuePatches, gotoPatches,
                  labels)
       /\ TargetsKept(ast, st, code, c2, n)
  BY <1>3, <1>4, <1>6, <1>8, <1>10, <1>14, <1>15, SwitchPlaces
<1>17. PICK lb \in Nat : lb = Len(breakPatches)  BY <1>2, ListLength
<1>18. PICK fb : fb = [patches |-> lb, kept |-> kept] /\ Grows(breaks', breaks, fb)
  BY <1>1, <1>7, <1>17 DEF PushBreak, Grows
<1>19. fb \in ContextType /\ fb.patches = Len(breakPatches)  BY <1>17, <1>18, ContextIs
<1>20. PICK fr2, bs2 : fr2 = frames' /\ bs2 = breaks'  OBVIOUS
<1>21. Linked(ast, st, c2, n + 1, bs2, loops, breakPatches, continuePatches, gotoPatches, labels)
  <2>1. Linked(ast, st, code, n, breaks, loops, breakPatches, continuePatches, gotoPatches,
               labels)
    BY <1>2, ListLength
  <2> QED BY <1>3, <1>11, <1>18, <1>19, <1>20, <2>1, LinkedSwitch
<1>22. /\ ListWaits(ast, st, code, c2, n, breakPatches, breakPatches)
       /\ ListWaits(ast, st, code, c2, n, continuePatches, continuePatches)
       /\ GotosWait(ast, st, code, c2, n, gotoPatches, labels, gotoPatches, labels)
       /\ CasesWait(ast, st, code, c2, n)
  BY <1>13, ListSame, GotosSame, NoCase
<1>23. Patched(ast, st, n + 1, c2, fr2, bs2, loops, breakPatches, continuePatches, gotoPatches,
               labels)
  BY <1>3, <1>11, <1>14, <1>16, <1>20, <1>21, <1>22, PatchedOn
<1>24. Tabling(ast, st, n + 1, frames', symbols)  BY <1>3, <1>5, <1>13, TablingOpen
<1> QED BY <1>1, <1>2, <1>3, <1>4, <1>20, <1>23, <1>24, Met

-----------------------------------------------------------------------------
(* A case takes its branch of the dispatch.                                  *)
LEMMA Bounded ==
  ASSUME NEW N \in Nat, NEW S \in SUBSET (1..N)
  PROVE  IsFiniteSet(S)
<1>1. IsFiniteSet(1..N)  BY FS_Interval
<1> QED BY <1>1, FS_Subset

LEMMA RankSplit ==
  ASSUME NEW N \in Nat, NEW S \in SUBSET (1..N), NEW k \in S
  PROVE  /\ RankIn(S, k) \in Nat /\ Cardinality(S) \in Nat /\ RankIn(S, k) < Cardinality(S)
         /\ Cardinality(S) - Cardinality({j \in S : j >= k}) = RankIn(S, k)
<1> DEFINE L == {j \in S : j < k}
           H == {j \in S : j >= k}
<1>1. IsFiniteSet(S)  BY Bounded
<1>2. L \subseteq S /\ H \subseteq S /\ L \cup H = S /\ L \cap H = {} /\ H # {}
  <2>1. \A j \in S : j \in Nat  OBVIOUS
  <2>2. \A j \in S : j < k \/ j >= k  BY <2>1
  <2>3. \A j \in S : ~(j < k /\ j >= k)  BY <2>1
  <2>4. k \in H  BY <2>1
  <2> QED BY <2>2, <2>3, <2>4
<1>3. IsFiniteSet(L) /\ IsFiniteSet(H)  BY <1>1, <1>2, FS_Subset
<1>4. /\ Cardinality(L) \in Nat /\ Cardinality(H) \in Nat /\ Cardinality(S) \in Nat
      /\ Cardinality(H) # 0
  BY <1>1, <1>2, <1>3, FS_CardinalityType, FS_EmptySet
<1>5. Cardinality(S) = Cardinality(L) + Cardinality(H)
  <2>1. Cardinality(L \cup H) = Cardinality(L) + Cardinality(H) - Cardinality(L \cap H)
    BY <1>3, FS_Union
  <2>2. Cardinality(L \cap H) = 0  BY <1>2, FS_EmptySet
  <2>3. L \cup H = S  BY <1>2
  <2> HIDE DEF L, H
  <2>4. PICK a, b, d, e : /\ a = Cardinality(L) /\ b = Cardinality(H) /\ d = Cardinality(L \cap H)
                          /\ e = Cardinality(S)
    OBVIOUS
  <2>5. e = a + b - d /\ d = 0 /\ a \in Nat /\ b \in Nat  BY <1>4, <2>1, <2>2, <2>3, <2>4
  <2>6. e = a + b  BY <2>5
  <2> QED BY <2>4, <2>6
<1>6. RankIn(S, k) = Cardinality(L)  BY DEF RankIn
<1> QED BY <1>4, <1>5, <1>6

LEMMA CaseHome ==
  ASSUME NEW t, NEW st, TreeOK(t, st), NEW n \in 0..Len(t) - 1, t[n + 1].kind \in CaseKinds,
         NEW m, m = Stack(st, n)[Level(st, n)], NEW c, NEW fr,
         Frames(t, st, c, n, Stack(st, n), fr), NEW last, last = Last(fr)
  PROVE  /\ n \in Nat /\ n + 1 \in 1..Len(t) /\ m \in 1..n /\ m \in 1..Len(t)
         /\ t[m].kind = "switch" /\ CaseIn(t, st, m, n + 1)
         /\ last \in FrameType /\ FrameOK(t, st, c, n, m, last)
         /\ Stack(st, n) # <<>> /\ Last(Stack(st, n)) = m /\ last = fr[Len(fr)]
         /\ Len(fr) = Level(st, n) /\ Level(st, n) \in Nat /\ Level(st, n) >= 1
<1>1. /\ n \in Nat /\ n + 1 \in 1..Len(t) /\ Len(t) \in Nat  BY DEF TreeOK
<1>2. PICK s, e : s = Stack(st, n) /\ e = t[n + 1]  OBVIOUS
<1>3. TopIn(t, s, {"switch"})
  <2>1. Suits(t, Stack(st, (n + 1) - 1), t[n + 1])  BY <1>1 DEF TreeOK, NodeOK
  <2>2. (n + 1) - 1 = n  BY <1>1
  <2>3. Suits(t, s, e)  BY <1>2, <2>1, <2>2
  <2>4. e.kind \in {"case", "default"}  BY <1>2 DEF CaseKinds
  <2> QED BY <2>3, <2>4 DEF Suits
<1>4. s \in Seq(1..n)
  <2>1. PICK s2, kind : s2 = Stack(st, n + 1) /\ kind = t[n + 1].kind  OBVIOUS
  <2> QED BY <1>2, <2>1, StackNext
<1>5. s # <<>> /\ t[Last(s)].kind = "switch"  BY <1>3 DEF TopIn
<1>6. Len(s) \in Nat /\ Len(s) >= 1 /\ Last(s) = s[Len(s)] /\ Last(s) \in 1..n
  BY <1>4, <1>5, FrontOf
<1>7. m = Last(s) /\ m \in 1..n /\ m \in 1..Len(t) /\ t[m].kind = "switch" /\ Len(s) = Level(st, n)
  BY <1>1, <1>2, <1>5, <1>6 DEF Level
<1>8. CaseIn(t, st, m, n + 1)
  <2>1. (n + 1) - 1 = n  BY <1>1
  <2> QED BY <1>1, <1>2, <1>5, <1>7, <2>1 DEF CaseIn
<1>9. fr \in Seq(FrameType) /\ Len(fr) = Len(s) /\ FrameOK(t, st, c, n, s[Len(fr)], fr[Len(fr)])
  BY <1>2, <1>6 DEF Frames
<1>10. fr # <<>>  BY <1>6, <1>9
<1>11. last = fr[Len(fr)] /\ last \in FrameType  BY <1>9, <1>10, FrontOf
<1> QED BY <1>1, <1>2, <1>5, <1>6, <1>7, <1>8, <1>9, <1>11

\* The dispatch jump that a case label sets.
Dispatching(t, st, c, c2, n, m, i) ==
  /\ i \in 1..Len(c) /\ c[i].node = m /\ c[i].op = "branch"
  /\ i = CodeAt(c, m) + RankIn(Branches(t, st, m), n + 1)

LEMMA DispatchOf ==
  ASSUME NEW t, NEW st, TreeOK(t, st), NEW n \in 0..Len(t) - 1, t[n + 1].kind = "case",
         NEW m, m \in 1..n, t[m].kind = "switch", CaseIn(t, st, m, n + 1),
         NEW c, Coded(c, n), NEW f, FrameOK(t, st, c, n, m, f),
         NEW i, i = Dispatch(f.start, f.cases, n + 1), NEW c2
  PROVE  Dispatching(t, st, c, c2, n, m, i)
<1>1. n \in Nat /\ n + 1 \in 1..Len(t) /\ Len(t) \in Nat  BY DEF TreeOK
<1>2. PICK B : B = Branches(t, st, m)  OBVIOUS
<1>3. B \in SUBSET (1..Len(t)) /\ n + 1 \in B  BY <1>1, <1>2, BranchesIn DEF Branches
<1>4. /\ f.cases = B /\ f.start = CodeAt(c, m) + Cardinality(f.cases)
      /\ \A j \in CodeAt(c, m) .. f.start - 1 :
           j \in 1..Len(c) /\ c[j].node = m /\ c[j].op = "branch"
  BY <1>2 DEF FrameOK, Branching
<1>5. CodeAt(c, m) \in Nat  BY <1>1, CodeLength
<1>6. PICK k : k = n + 1  OBVIOUS
<1>7. /\ RankIn(B, k) \in Nat /\ Cardinality(B) \in Nat /\ RankIn(B, k) < Cardinality(B)
      /\ Cardinality(B) - Cardinality({j \in B : j >= k}) = RankIn(B, k)
  BY <1>1, <1>3, <1>6, RankSplit
<1>8. i = f.start - Cardinality({j \in B : j >= k})  BY <1>4, <1>6 DEF Dispatch
<1>9. Cardinality({j \in B : j >= k}) \in Nat
  <2>1. IsFiniteSet(B)  BY <1>1, <1>3, Bounded
  <2> QED BY <2>1, FS_Subset, FS_CardinalityType
<1>10. i = CodeAt(c, m) + RankIn(B, k) /\ i \in CodeAt(c, m) .. f.start - 1
  BY <1>4, <1>5, <1>7, <1>8, <1>9
<1> QED BY <1>2, <1>4, <1>6, <1>10 DEF Dispatching

LEMMA DispatchLands ==
  ASSUME NEW t, NEW st, TreeOK(t, st), NEW n \in 0..Len(t) - 1, t[n + 1].kind = "case",
         NEW m, m \in 1..n, t[m].kind = "switch", CaseIn(t, st, m, n + 1),
         NEW c, Coded(c, n), NEW c2, Follows(c, c2, n), NEW i,
         Dispatching(t, st, c, c2, n, m, i), c2[i].to = Len(c) + 1
  PROVE  Lands(t, st, c2, n + 1, i) /\ CasesWait(t, st, c, c2, n)
<1>1. n \in Nat /\ n + 1 \in 1..Len(t) /\ Len(t) \in Nat /\ m \in 0..n + 1  BY DEF TreeOK
<1>2. /\ CodeAt(c2, n + 1) = Len(c) + 1 /\ Coded(c2, n + 1) /\ Len(c) \in Nat /\ Len(c2) \in Nat
      /\ Len(c) <= Len(c2)
  BY <1>1, CodeNow
<1>3. CodeAt(c2, m) = CodeAt(c, m) /\ CodeAt(c, m) \in Nat  BY <1>1, CodeAtSame, CodeLength
<1>4. /\ i \in 1..Len(c) /\ c[i].node = m /\ c[i].op = "branch"
      /\ i = CodeAt(c, m) + RankIn(Branches(t, st, m), n + 1)
  BY DEF Dispatching
<1>5. i \in 1..Len(c2) /\ c2[i].node = m /\ c2[i].op = "branch"  BY <1>2, <1>4 DEF Follows
<1>6. /\ n + 1 \in Branches(t, st, m) /\ RankIn(Branches(t, st, m), n + 1) \in Nat
  <2>1. n + 1 \in Branches(t, st, m)  BY <1>1 DEF Branches
  <2>2. Branches(t, st, m) \in SUBSET (1..Len(t))  BY BranchesIn
  <2> QED BY <1>1, <2>1, <2>2, RankSplit
<1>7. Rank(c2, i) = RankIn(Branches(t, st, m), n + 1)  BY <1>3, <1>4, <1>5, <1>6 DEF Rank
<1>8. Lands(t, st, c2, n + 1, i)
  <2>1. PICK how, k : how = "at" /\ k = n + 1  OBVIOUS
  <2>2. PICK op, x, r : op = "branch" /\ x = m /\ r = Rank(c2, i)  OBVIOUS
  <2>3. AimsSwitch(t, st, x, op, r, how, k)
    BY <1>6, <1>7, <2>1, <2>2 DEF AimsSwitch, RankIn
  <2>4. Aims(t, st, c2[i].node, c2[i].op, Rank(c2, i), how, k)
    BY <1>5, <2>2, <2>3 DEF Aims
  <2>5. k \in 1..(n + 1) + 1 /\ c2[i].to = CodeAt(c2, k) /\ n + 1 \in Nat /\ n + 1 <= Len(t)
    BY <1>1, <1>2, <2>1
  <2> QED BY <1>1, <1>2, <1>5, <2>1, <2>4, <2>5, LandsAt
<1>9. CasesWait(t, st, c, c2, n)
  <2> SUFFICES ASSUME NEW j \in 1..Len(c), NEW x, c[j].node = x, n + 1 \in Branches(t, st, x),
                      RankIn(Branches(t, st, x), n + 1) = Rank(c2, j)
               PROVE  Lands(t, st, c2, n + 1, j)
    BY DEF CasesWait
  <2>1. x = m  BY DEF Branches, CaseIn
  <2>2. c2[j].node = m  BY <2>1 DEF Follows
  <2>3. Rank(c2, j) = j - CodeAt(c, m)  BY <1>3, <2>2 DEF Rank
  <2>4. j = i  BY <1>3, <1>4, <1>6, <2>1, <2>3
  <2> QED BY <1>8, <2>4
<1> QED BY <1>8, <1>9

LEMMA JumpCase ==
  ASSUME NEW st, JumpOK(st), EmitCase, ast[at].kind = "case"
  PROVE  JumpOK(st)'
<1>1. /\ Emitting({"case", "default"}) /\ UNCHANGED <<symbols, patchVars, labels>>
      /\ scope' = scope + 1
      /\ code' = Patch(code, Dispatch(Top.start, Top.cases, at), Size(code))
  BY DEF EmitCase
<1>2. Emitting({"case"})  BY <1>1 DEF Emitting
<1>3. PICK n : Meeting(st, n, {"case"})  BY <1>2, Meets
<1>4. /\ TreeOK(ast, st) /\ n \in 0..Len(ast) - 1 /\ n \in Nat /\ ast[n + 1].kind = "case"
      /\ Coded(code, n) /\ Frames(ast, st, code, n, Stack(st, n), frames) /\ at = n + 1
      /\ Tabling(ast, st, n, frames, symbols) /\ scope \in Int
  BY <1>3 DEF Meeting
<1>5. PICK m, last, i, to, c2, kept, f :
        /\ m = Stack(st, n)[Level(st, n)] /\ last = Last(frames)
        /\ i = Dispatch(last.start, last.cases, n + 1)
        /\ to = Len(code) + 1 /\ c2 = code' /\ kept = Len(symbols) /\ f = Frame(kept, 0, 0, {})
  OBVIOUS
<1>6. Grows(frames', frames, f)  BY <1>5 DEF EmitCase, Grows
<1>7. ast[n + 1].kind \in CaseKinds  BY <1>4 DEF CaseKinds
<1>8. /\ m \in 1..n /\ ast[m].kind = "switch" /\ CaseIn(ast, st, m, n + 1)
      /\ FrameOK(ast, st, code, n, m, last)
  BY <1>4, <1>5, <1>7, CaseHome
<1>9. Len(code) \in Nat /\ to \in Nat
  <2>1. Len(code) \in Nat  BY <1>4, CodeLength
  <2> QED BY <1>5, <2>1
<1>10. c2 = Patch(code, i, to)  BY <1>1, <1>4, <1>5 DEF Top, Size
<1>11. Dispatching(ast, st, code, c2, n, m, i)  BY <1>4, <1>5, <1>8, DispatchOf
<1>12. i \in 1..Len(code)  BY <1>11 DEF Dispatching
<1>13. Sets(ast, st, code, code, c2, n, i, to)
  <2>1. KeepsTargets(code, code)  BY DEF KeepsTargets
  <2>2. Follows(code, code, n)  BY <1>4, SameFollows
  <2> QED BY <1>4, <1>9, <1>10, <1>12, <2>1, <2>2, PatchLands
<1>14. /\ Follows(code, c2, n) /\ Len(c2) = Len(code) /\ c2[i].to = Len(code) + 1
       /\ Lands(ast, st, c2, n + 1, i) => TargetsKept(ast, st, code, c2, n)
  BY <1>5, <1>13 DEF Sets, Retargets
<1>15. Lands(ast, st, c2, n + 1, i) /\ CasesWait(ast, st, code, c2, n)
  BY <1>4, <1>8, <1>11, <1>14, DispatchLands
<1>16. kept \in Nat  BY <1>4, <1>5 DEF Tabling
<1>17. f \in FrameType /\ f.kept = kept /\ f.patch = 0  BY <1>5, <1>16, PlainFrame
<1>18. FrameOK(ast, st, c2, n + 1, n + 1, f)
  <2>1. ast[n + 1].kind \in {"block", "case", "default"}  BY <1>4
  <2> QED BY <1>17, <2>1, ScopeFrame
<1>19. /\ ast[n + 1].kind \in Openers /\ ast[n + 1].kind # "default"
       /\ ast[n + 1].kind \in Scoped \cup {"if"}
  BY <1>4 DEF Openers, Scoped
<1>20. /\ Frames(ast, st, c2, n + 1, Stack(st, n + 1), frames')
       /\ FramesWait(ast, st, code, c2, n, frames, frames')
  BY <1>4, <1>6, <1>14, <1>17, <1>18, <1>19, FramesOpen
<1>21. Placing(ast, st, code, c2, n, frames', breakPatches, continuePatches, gotoPatches, labels)
  <2>1. \A j \in Len(code) + 1 .. Len(c2) : FALSE  BY <1>9, <1>14
  <2> QED BY <2>1 DEF Placing
<1>22. Tabling(ast, st, n + 1, frames', symbols)  BY <1>4, <1>5, <1>6, <1>17, <1>19, TablingOpen
<1>23. {"case"} \subseteq Calm  BY DEF Calm
<1>24. scope' \in Int  BY <1>1, <1>4
<1> QED BY <1>1, <1>3, <1>5, <1>14, <1>15, <1>20, <1>21, <1>22, <1>23, <1>24, MetCalm

\* The default of a switch is the only one.
LEMMA FirstDefault ==
  ASSUME NEW t, NEW st, TreeOK(t, st), OneDefault(t), NEW n \in 0..Len(t) - 1,
         t[n + 1].kind = "default", NEW m \in 1..Len(t), t[m].kind = "switch",
         CaseIn(t, st, m, n + 1)
  PROVE  ~\E k \in 1..n : Default(t, st, m, k)
<1>1. n \in Nat /\ n + 1 \in 1..Len(t) /\ Len(t) \in Nat  BY DEF TreeOK
<1> SUFFICES ASSUME NEW k \in 1..n, Default(t, st, m, k) PROVE FALSE
  OBVIOUS
<1>2. k \in 1..Len(t) /\ t[k].kind = "default" /\ CaseIn(t, st, m, k) /\ k # n + 1
  BY <1>1 DEF Default
<1>3. t[k].within = Append(t[m].within, m) /\ t[n + 1].within = Append(t[m].within, m)
  <2>1. t[k].kind \in CaseKinds /\ t[n + 1].kind \in CaseKinds  BY <1>2 DEF CaseKinds
  <2> QED BY <1>1, <1>2, <2>1, CaseWithin
<1> QED BY <1>1, <1>2, <1>3 DEF OneDefault

-----------------------------------------------------------------------------
(* A default takes the jump behind the branches.                             *)
\* The frames once the default of the switch on top has its jump.
Marked(fr, g) ==
  /\ g \in Seq(FrameType) /\ Len(g) = Len(fr) /\ Len(fr) \in Nat /\ Len(fr) >= 1
  /\ \A j \in 1..Len(fr) - 1 : g[j] = fr[j]
  /\ g[Len(fr)].patch = 0
  /\ g[Len(fr)].cases = fr[Len(fr)].cases /\ g[Len(fr)].start = fr[Len(fr)].start

LEMMA MarkIs ==
  ASSUME NEW fr \in Seq(FrameType), Len(fr) \in Nat, Len(fr) >= 1,
         NEW g, g = [fr EXCEPT ![Len(fr)].patch = 0]
  PROVE  Marked(fr, g)
<1>1. PICK L : L = Len(fr)  OBVIOUS
<1>2. PICK x, y : x = fr[L] /\ y = [x EXCEPT !.patch = 0]  OBVIOUS
<1>3. x \in FrameType  BY <1>1, <1>2
<1>4. y \in FrameType /\ y.patch = 0 /\ y.cases = x.cases /\ y.start = x.start
  BY <1>2, <1>3 DEF FrameType
<1>5. g = [fr EXCEPT ![L] = y]  BY <1>1, <1>2
<1>6. PICK T : T = FrameType  OBVIOUS
<1>7. fr \in Seq(T) /\ y \in T /\ L \in 1..Len(fr)  BY <1>1, <1>4, <1>6
<1>8. g \in Seq(T) /\ Len(g) = Len(fr) /\ g[L] = y /\ \A j \in 1..Len(fr) - 1 : g[j] = fr[j]
  BY <1>1, <1>5, <1>7
<1> QED BY <1>1, <1>2, <1>4, <1>6, <1>8 DEF Marked

LEMMA DefaultFrames ==
  ASSUME NEW t, NEW st, TreeOK(t, st), NEW n \in 0..Len(t) - 1, t[n + 1].kind = "default",
         NEW m, m = Stack(st, n)[Level(st, n)], NEW c, Coded(c, n), NEW c2, Follows(c, c2, n),
         NEW fr, Frames(t, st, c, n, Stack(st, n), fr), NEW g, Marked(fr, g)
  PROVE  Frames(t, st, c2, n + 1, Stack(st, n), g)
<1>1. PICK s, last : s = Stack(st, n) /\ last = Last(fr)  OBVIOUS
<1>2. /\ n \in Nat /\ n + 1 \in 1..Len(t) /\ m \in 1..n /\ t[m].kind = "switch"
      /\ CaseIn(t, st, m, n + 1) /\ FrameOK(t, st, c, n, m, last) /\ last = fr[Len(fr)]
      /\ Len(fr) = Level(st, n) /\ Level(st, n) \in Nat
  <2>1. t[n + 1].kind \in CaseKinds  BY DEF CaseKinds
  <2> QED BY <1>1, <2>1, CaseHome
<1>3. \A j \in 1..Len(fr) : j < Len(fr) => FrameOK(t, st, c2, n + 1, s[j], fr[j])
  BY <1>1, FramesOn
<1>4. PICK h : h = g[Len(fr)]  OBVIOUS
<1>5. h.patch = 0 /\ h.cases = last.cases /\ h.start = last.start  BY <1>2, <1>4 DEF Marked
<1>6. FrameOK(t, st, c2, n + 1, m, h)
  <2>2. Branching(t, st, c2, m, h)
    <3>1. CodeAt(c2, m) = CodeAt(c, m)  BY <1>2, CodeAtSame
    <3>2. Branching(t, st, c, m, last)  BY <1>2 DEF FrameOK
    <3>3. /\ last.cases = Branches(t, st, m) /\ last.start = CodeAt(c, m) + Cardinality(last.cases)
          /\ \A i \in CodeAt(c, m) .. last.start - 1 :
               i \in 1..Len(c) /\ c[i].node = m /\ c[i].op = "branch"
      BY <1>2, <3>2 DEF Branching
    <3>4. \A i \in CodeAt(c2, m) .. h.start - 1 :
            i \in 1..Len(c2) /\ c2[i].node = m /\ c2[i].op = "branch"
      <4> SUFFICES ASSUME NEW i \in CodeAt(c2, m) .. h.start - 1
                   PROVE  i \in 1..Len(c2) /\ c2[i].node = m /\ c2[i].op = "branch"
        OBVIOUS
      <4>1. i \in 1..Len(c) /\ c[i].node = m /\ c[i].op = "branch"  BY <1>5, <3>1, <3>3
      <4> QED BY <1>2, <4>1, HeldOn
    <3> QED BY <1>5, <3>1, <3>3, <3>4 DEF Branching
  <2>3. Defaulting(t, st, c2, n + 1, m, h)
    <3>1. Default(t, st, m, n + 1) /\ n + 1 \in 1..n + 1  BY <1>2 DEF Default
    <3> QED BY <1>5, <3>1 DEF Defaulting
  <2> QED BY <1>2, <2>2, <2>3 DEF FrameOK, Starts, Leaving, Testing
<1>7. \A j \in 1..Len(g) : FrameOK(t, st, c2, n + 1, s[j], g[j])
  <2> SUFFICES ASSUME NEW j \in 1..Len(g) PROVE FrameOK(t, st, c2, n + 1, s[j], g[j])
    OBVIOUS
  <2>1. CASE j = Len(fr)
    <3>1. s[j] = m  BY <1>1, <1>2, <2>1
    <3> QED BY <1>4, <1>6, <2>1, <3>1
  <2>2. CASE j # Len(fr)
    <3>1. j \in 1..Len(fr) - 1 /\ j \in 1..Len(fr) /\ j < Len(fr)  BY <2>2 DEF Marked
    <3>2. g[j] = fr[j]  BY <3>1 DEF Marked
    <3> QED BY <1>3, <3>1, <3>2
  <2> QED BY <2>1, <2>2
<1>8. g \in Seq(FrameType) /\ Len(g) = Len(s)
  BY <1>1 DEF Marked, Frames
<1> QED BY <1>1, <1>7, <1>8 DEF Frames

TopWaits(s, fr, x, i) == x = s[Len(s)] /\ i = fr[Len(fr)].patch

LEMMA DefaultWaits ==
  ASSUME NEW n \in Nat, NEW s \in Seq(1..n), NEW fr \in Seq(FrameType), Len(fr) = Len(s),
         NEW g, Marked(fr, g), NEW s2, Grows(s2, s, n + 1), NEW f \in FrameType,
         NEW fr2, Grows(fr2, g, f), NEW x, NEW i, FrameWait(s, fr, x, i)
  PROVE  FrameWait(s2, fr2, x, i) \/ TopWaits(s, fr, x, i)
<1>1. PICK j \in 1..Len(fr) : s[j] = x /\ fr[j].patch = i  BY DEF FrameWait
<1>2. CASE j = Len(fr)  BY <1>1, <1>2 DEF TopWaits
<1>3. CASE j # Len(fr)
  <2>1. j \in 1..Len(fr) - 1 /\ j \in 1..Len(g) /\ g \in Seq(FrameType) /\ Len(g) = Len(s)
    BY <1>3 DEF Marked
  <2>2. g[j] = fr[j]  BY <2>1 DEF Marked
  <2>3. FrameWait(s, g, x, i)  BY <1>1, <2>1, <2>2 DEF FrameWait
  <2>4. FrameWait(s2, fr2, x, i)  BY <2>1, <2>3, FrameWaitPush
  <2> QED BY <2>4
<1> QED BY <1>2, <1>3

LEMMA FramesList ==
  ASSUME NEW fr \in Seq(FrameType)
  PROVE  List(fr)
<1>1. PICK L : L = Len(fr)  OBVIOUS
<1>2. L \in Nat /\ fr = [j \in 1..L |-> fr[j]] /\ DOMAIN fr = 1..L  BY <1>1
<1>3. \A j \in 1..L : fr[j] \in ToSet(fr)  BY <1>2 DEF ToSet
<1>4. PICK T : T = ToSet(fr)  OBVIOUS
<1>5. fr \in Seq(T)  BY <1>2, <1>3, <1>4
<1> QED BY <1>4, <1>5 DEF List

LEMMA JumpDefault ==
  ASSUME NEW st, JumpOK(st), EmitCase, ast[at].kind = "default"
  PROVE  JumpOK(st)'
<1>1. /\ Emitting({"case", "default"}) /\ UNCHANGED <<symbols, patchVars, labels>>
      /\ scope' = scope + 1
      /\ code' = Patch(code, Top.patch, Size(code))
  BY DEF EmitCase
<1>2. Emitting({"default"})  BY <1>1 DEF Emitting
<1>3. PICK n : Meeting(st, n, {"default"})  BY <1>2, Meets
<1>4. /\ TreeOK(ast, st) /\ n \in 0..Len(ast) - 1 /\ n \in Nat /\ ast[n + 1].kind = "default"
      /\ Coded(code, n) /\ Frames(ast, st, code, n, Stack(st, n), frames) /\ at = n + 1
      /\ Tabling(ast, st, n, frames, symbols) /\ scope \in Int /\ OneDefault(ast)
  BY <1>3 DEF Meeting
<1>5. PICK m, last, i, to, c2, kept, f, g :
        /\ m = Stack(st, n)[Level(st, n)] /\ last = Last(frames) /\ i = last.patch
        /\ to = Len(code) + 1 /\ c2 = code' /\ kept = Len(symbols) /\ f = Frame(kept, 0, 0, {})
        /\ g = [frames EXCEPT ![Len(frames)].patch = 0]
  OBVIOUS
<1>6. Grows(frames', g, f)  BY <1>5 DEF EmitCase, Grows
<1>7. ast[n + 1].kind \in CaseKinds  BY <1>4 DEF CaseKinds
<1>8. /\ m \in 1..n /\ m \in 1..Len(ast) /\ ast[m].kind = "switch" /\ CaseIn(ast, st, m, n + 1)
      /\ FrameOK(ast, st, code, n, m, last) /\ last = frames[Len(frames)]
      /\ Stack(st, n) # <<>> /\ Last(Stack(st, n)) = m
      /\ Len(frames) = Level(st, n) /\ Level(st, n) \in Nat /\ Level(st, n) >= 1
  BY <1>4, <1>5, <1>7, CaseHome
<1>9. Len(code) \in Nat /\ to \in Nat
  <2>1. Len(code) \in Nat  BY <1>4, CodeLength
  <2> QED BY <1>5, <2>1
<1>10. c2 = Patch(code, i, to)  BY <1>1, <1>5 DEF Top, Size
<1>11. i \in 1..Len(code) /\ code[i].node = m /\ code[i].op = "jump"
  <2>1. ~\E k \in 1..n : Default(ast, st, m, k)  BY <1>4, <1>8, FirstDefault
  <2> QED BY <1>5, <1>8, <2>1 DEF FrameOK, Defaulting
<1>12. Sets(ast, st, code, code, c2, n, i, to)
  <2>1. KeepsTargets(code, code)  BY DEF KeepsTargets
  <2>2. Follows(code, code, n)  BY <1>4, SameFollows
  <2> QED BY <1>4, <1>9, <1>10, <1>11, <2>1, <2>2, PatchLands
<1>13. /\ Follows(code, c2, n) /\ Len(c2) = Len(code) /\ c2[i].to = Len(code) + 1
       /\ i \in 1..Len(c2) /\ c2[i].op = "jump" /\ c2[i].node = m
       /\ Lands(ast, st, c2, n + 1, i) => TargetsKept(ast, st, code, c2, n)
  BY <1>5, <1>11, <1>12 DEF Sets, Retargets
<1>14. Lands(ast, st, c2, n + 1, i)
  <2>1. PICK k, x, op : k = n + 1 /\ x = c2[i].node /\ op = c2[i].op  OBVIOUS
  <2>2. k \in {n + 1, n + 2}  BY <2>1
  <2>3. Default(ast, st, x, k)  BY <1>4, <1>8, <1>13, <2>1 DEF Default
  <2>4. \A r : AimsSwitch(ast, st, x, op, r, "at", k)  BY <1>8, <1>13, <2>1, <2>3 DEF AimsSwitch
  <2>5. \A r : Aims(ast, st, x, op, r, "at", k)  BY <2>4 DEF Aims
  <2>6. c2[i].to = CodeAt(c2, k)
    <3>1. CodeAt(c2, n + 1) = Len(code) + 1  BY <1>4, <1>13, CodeNow
    <3> QED BY <1>13, <2>1, <3>1
  <2> QED BY <1>4, <1>13, <2>1, <2>2, <2>5, <2>6, NextLands
<1>15. TargetsKept(ast, st, code, c2, n)  BY <1>13, <1>14
<1>16. kept \in Nat  BY <1>4, <1>5 DEF Tabling
<1>17. f \in FrameType /\ f.kept = kept /\ f.patch = 0  BY <1>5, <1>16, PlainFrame
<1>18. FrameOK(ast, st, c2, n + 1, n + 1, f)
  <2>1. ast[n + 1].kind \in {"block", "case", "default"}  BY <1>4
  <2> QED BY <1>17, <2>1, ScopeFrame
<1>19. frames \in Seq(FrameType)  BY <1>4 DEF Frames
<1>20. Marked(frames, g)  BY <1>5, <1>8, <1>19, MarkIs
<1>21. Frames(ast, st, c2, n + 1, Stack(st, n), g)
  BY <1>4, <1>5, <1>13, <1>20, DefaultFrames
<1>22. PICK s, s2, kind : s = Stack(st, n) /\ s2 = Stack(st, n + 1) /\ kind = ast[n + 1].kind
  OBVIOUS
<1>23. s \in Seq(1..n) /\ Grows(s2, s, n + 1)
  <2>1. kind \in Scoped \cup {"if"}  BY <1>4, <1>22 DEF Scoped
  <2> QED BY <1>4, <1>22, <2>1, StackNext
<1>24. Frames(ast, st, c2, n + 1, s2, frames')
  <2>1. Frames(ast, st, c2, n + 1, s, g)  BY <1>21, <1>22
  <2>2. PICK fr2 : fr2 = frames'  OBVIOUS
  <2>3. Grows(fr2, g, f)  BY <1>6, <2>2
  <2>4. Frames(ast, st, c2, n + 1, s2, fr2)
    BY <1>4, <1>17, <1>18, <1>23, <2>1, <2>3, FramesPush
  <2> QED BY <2>2, <2>4
<1>25. FramesWait(ast, st, code, c2, n, frames, frames')
  <2> SUFFICES ASSUME NEW j \in 1..Len(code), NEW x, FrameWait(Stack(st, n), frames, x, j)
               PROVE  FrameWait(Stack(st, n + 1), frames', x, j) \/ Lands(ast, st, c2, n + 1, j)
    BY DEF FramesWait
  <2>1. Len(frames) = Len(s)  BY <1>8, <1>22 DEF Level
  <2>2. PICK fr2 : fr2 = frames'  OBVIOUS
  <2>3. Grows(fr2, g, f) /\ FrameWait(s, frames, x, j)  BY <1>6, <1>22, <2>2
  <2>4. FrameWait(s2, fr2, x, j) \/ TopWaits(s, frames, x, j)
    BY <1>4, <1>17, <1>19, <1>20, <1>23, <2>1, <2>3, DefaultWaits
  <2>5. TopWaits(s, frames, x, j) => j = i  BY <1>5, <1>8 DEF TopWaits
  <2> QED BY <1>14, <1>22, <2>2, <2>4, <2>5
<1>26. Placing(ast, st, code, c2, n, frames', breakPatches, continuePatches, gotoPatches, labels)
  <2>1. \A j \in Len(code) + 1 .. Len(c2) : FALSE  BY <1>9, <1>13
  <2> QED BY <2>1 DEF Placing
<1>27. Tabling(ast, st, n + 1, frames', symbols)
  <2>1. List(g) /\ Len(g) = Len(frames) /\ \A j \in 1..Len(frames) - 1 : g[j] = frames[j]
    BY <1>20, FramesList DEF Marked
  <2>2. ast[Last(Stack(st, n))].kind \notin Scopes  BY <1>8 DEF Scopes
  <2>3. Stack(st, n) \in Seq(1..n)  BY <1>22, <1>23
  <2>4. Tabling(ast, st, n, g, symbols)  BY <1>4, <1>8, <2>1, <2>2, <2>3, TablingMark
  <2>5. ast[n + 1].kind \in Scoped \cup {"if"}  BY <1>4 DEF Scoped
  <2> QED BY <1>4, <1>5, <1>6, <1>17, <2>4, <2>5, TablingOpen
<1>28. CasesWait(ast, st, code, c2, n)
  <2>1. ast[n + 1].kind # "case"  BY <1>4
  <2> QED BY <2>1, NoCase
<1>29. {"default"} \subseteq Calm  BY DEF Calm
<1>30. scope' \in Int  BY <1>1, <1>4
<1> QED BY <1>1, <1>3, <1>5, <1>13, <1>15, <1>22, <1>24, <1>25, <1>26, <1>27, <1>28, <1>29, <1>30,
           MetCalm

LEMMA JumpCases ==
  ASSUME NEW st, JumpOK(st), EmitCase
  PROVE  JumpOK(st)'
<1>1. ast[at].kind = "case" \/ ast[at].kind = "default"  BY DEF EmitCase, Emitting
<1> QED BY <1>1, JumpCase, JumpDefault

-----------------------------------------------------------------------------
(* A switch ends.                                                            *)
SwitchSet(c, c2, n, patch) ==
  /\ Follows(c, c2, n) /\ Len(c2) = Len(c) /\ Len(c) \in Nat
  /\ \A j \in 1..Len(c) : c2[j].to = IF BreakHit(j) \/ j = patch THEN Len(c) + 1 ELSE c[j].to

LEMMA SwitchSetIs ==
  ASSUME NEW n \in Nat, NEW c, Coded(c, n), NEW patch, patch = 0 \/ patch \in 1..Len(c),
         NEW end, end = Len(c) + 1, NEW c2, c2 = BreaksPatched(ForLeft(c, patch, end), end)
  PROVE  SwitchSet(c, c2, n, patch)
<1>1. Len(c) \in Nat /\ c \in Seq(Instruction)  BY CodeLength DEF Coded
<1>2. end \in Nat  BY <1>1
<1>3. PICK c1 : c1 = ForLeft(c, patch, end)  OBVIOUS
<1>4. /\ Retargets(c, c1)
      /\ \A j \in 1..Len(c) : c1[j].to = IF j = patch THEN end ELSE c[j].to
  <2>1. CASE patch = 0
    <3>1. c1 = c  BY <1>3, <2>1 DEF ForLeft
    <3> QED BY <1>1, <2>1, <3>1 DEF Retargets
  <2>2. CASE patch # 0
    <3>1. patch \in 1..Len(c) /\ c1 = Patch(c, patch, end)  BY <1>3, <2>2 DEF ForLeft
    <3> QED BY <1>1, <1>2, <3>1, PatchIs
  <2> QED BY <2>1, <2>2
<1>5. c1 \in Seq(Instruction) /\ Len(c1) = Len(c)  BY <1>4 DEF Retargets
<1>6. BreakSet(c1, c2, end)  BY <1>2, <1>3, <1>5, BreaksPatchedIs
<1>7. Retargets(c, c2)
  <2>1. Retargets(c1, c2)  BY <1>6 DEF BreakSet
  <2> QED BY <1>4, <2>1, RetargetsBoth
<1>8. Follows(c, c2, n)
  <2>1. Follows(c, c, n)  BY SameFollows
  <2> QED BY <1>1, <1>7, <2>1, RetargetsFollows
<1>9. \A j \in 1..Len(c) : c2[j].to = IF BreakHit(j) \/ j = patch THEN Len(c) + 1 ELSE c[j].to
  BY <1>4, <1>5, <1>6 DEF BreakSet
<1>10. Len(c2) = Len(c)  BY <1>7 DEF Retargets
<1> QED BY <1>1, <1>8, <1>9, <1>10 DEF SwitchSet

LEMMA SwitchBreaks ==
  ASSUME NEW st, NEW n, NEW top, NEW last, Looping(st, n, top, last),
         ast[n + 1].kind = "endswitch", NEW c2, Follows(code, c2, n),
         Leavers(ast, st, code, Breakable, "break", breakPatches, Last(breaks).patches, top),
         NEW i \in 1..Len(code), BreakHit(i), c2[i].to = Len(code) + 1
  PROVE  Lands(ast, st, c2, n + 1, i)
<1>1. /\ TreeOK(ast, st) /\ n \in 0..Len(ast) - 1 /\ n \in Nat /\ Shuts(ast, st, top, n + 1)
      /\ ast[top].kind \in Closes(ast[n + 1].kind) /\ Coded(code, n)
  BY DEF Looping
<1>2. PICK x, op, k : x = c2[i].node /\ op = c2[i].op /\ k = n + 1  OBVIOUS
<1>3. ast[x].kind = "break" /\ Inner(ast, st, x, Breakable, top)
  <2>1. PICK p : p = Last(breaks).patches  OBVIOUS
  <2>2. /\ Hit(breakPatches, p, i)
        /\ Leavers(ast, st, code, Breakable, "break", breakPatches, p, top)
    BY <2>1 DEF BreakHit
  <2>3. ast[code[i].node].kind = "break" /\ Inner(ast, st, code[i].node, Breakable, top)
    BY <2>2, LeaverIs
  <2>4. c2[i].node = code[i].node  BY DEF Follows
  <2> QED BY <1>2, <2>3, <2>4
<1>4. ast[top].kind = "switch"  BY <1>1 DEF Closes
<1>5. AimsInside(ast, st, x, "at", k)  BY <1>1, <1>2, <1>3, <1>4 DEF AimsInside
<1>6. \A r : Aims(ast, st, x, op, r, "at", k)  BY <1>5 DEF Aims
<1>7. c2[i].to = CodeAt(c2, k) /\ k \in {n + 1, n + 2} /\ i \in 1..Len(c2)
  <2>1. CodeAt(c2, n + 1) = Len(code) + 1  BY <1>1, CodeNow
  <2>2. i \in 1..Len(c2)  BY <1>1, HeldOn
  <2> QED BY <1>2, <2>1, <2>2
<1> QED BY <1>1, <1>2, <1>6, <1>7, NextLands

LEMMA SwitchTop ==
  ASSUME NEW st, NEW n, NEW top, NEW last, Looping(st, n, top, last),
         ast[n + 1].kind = "endswitch", NEW c2, Follows(code, c2, n),
         last.patch # 0, NEW i, i = last.patch, c2[i].to = Len(code) + 1
  PROVE  Lands(ast, st, c2, n + 1, i)
<1>1. /\ TreeOK(ast, st) /\ n \in 0..Len(ast) - 1 /\ n \in Nat /\ Shuts(ast, st, top, n + 1)
      /\ ast[top].kind \in Closes(ast[n + 1].kind) /\ Coded(code, n)
      /\ FrameOK(ast, st, code, n, top, last) /\ top \in 1..n
  BY DEF Looping
<1>2. ast[top].kind = "switch"  BY <1>1 DEF Closes
<1>3. /\ i \in 1..Len(code) /\ code[i].node = top /\ code[i].op = "jump"
      /\ ~\E l \in 1..n : Default(ast, st, top, l)
  BY <1>1, <1>2 DEF FrameOK, Defaulting
<1>4. i \in 1..Len(c2) /\ c2[i].node = top /\ c2[i].op = "jump"  BY <1>1, <1>3, HeldOn
<1>5. ASSUME NEW l, Default(ast, st, top, l) PROVE FALSE
  <2>1. CaseIn(ast, st, top, l)  BY <1>5 DEF Default
  <2>2. PICK e : e = n + 1  OBVIOUS
  <2>3. l \in top + 1 .. e - 1  BY <1>1, <2>1, <2>2, CaseInside
  <2>4. l \in 1..n  BY <1>1, <2>2, <2>3
  <2> QED BY <1>3, <1>5, <2>4
<1>6. PICK x, op, k : x = c2[i].node /\ op = c2[i].op /\ k = n + 1  OBVIOUS
<1>7. \A r : AimsSwitch(ast, st, x, op, r, "at", k)
  BY <1>1, <1>2, <1>4, <1>5, <1>6 DEF AimsSwitch
<1>8. \A r : Aims(ast, st, x, op, r, "at", k)  BY <1>7 DEF Aims
<1>9. c2[i].to = CodeAt(c2, k) /\ k \in {n + 1, n + 2}
  <2>1. CodeAt(c2, n + 1) = Len(code) + 1  BY <1>1, CodeNow
  <2> QED BY <1>6, <2>1
<1> QED BY <1>1, <1>4, <1>6, <1>8, <1>9, NextLands

LEMMA JumpSwitchEnd ==
  ASSUME NEW st, JumpOK(st), EmitSwitchEnd
  PROVE  JumpOK(st)'
<1> DEFINE K == {"endswitch"}
<1>1. /\ Emitting(K) /\ FinishBreak /\ frames' = Front(frames)
      /\ UNCHANGED <<symbols, scope, loops, continuePatches, gotoPatches, labels>>
  BY DEF EmitSwitchEnd, Pop
<1>2. PICK n : Meeting(st, n, K)  BY <1>1, Meets
<1>3. K \subseteq LoopEnds \cup {"endswitch"}  OBVIOUS
<1>4. PICK top, last, end, c2, p :
        /\ top = Stack(st, n)[Level(st, n)] /\ last = Last(frames) /\ end = Len(code) + 1
        /\ c2 = code' /\ p = Last(breaks).patches
  OBVIOUS
<1>5. ast[n + 1].kind = "endswitch"  BY <1>2 DEF Meeting
<1> HIDE DEF K
<1>6. Looping(st, n, top, last)  BY <1>2, <1>3, <1>4, LoopMet
<1>7. /\ TreeOK(ast, st) /\ n \in 0..Len(ast) - 1 /\ n \in Nat /\ Coded(code, n)
      /\ Frames(ast, st, code, n, Stack(st, n), frames)
      /\ Tabling(ast, st, n, frames, symbols) /\ scope \in Int
      /\ FrameOK(ast, st, code, n, top, last) /\ ast[top].kind \in Closes(ast[n + 1].kind)
      /\ ast[n + 1].kind \in Ends /\ ast[n + 1].kind # "case"
  BY <1>6 DEF Looping
<1>8. Patched(ast, st, n, code, frames, breaks, loops, breakPatches, continuePatches,
              gotoPatches, labels)
  BY <1>2 DEF Meeting
<1>9. last.patch = 0 \/ last.patch \in 1..Len(code)
  <2>1. ast[top].kind = "switch"  BY <1>5, <1>7 DEF Closes
  <2> QED BY <1>7, <2>1 DEF FrameOK, Defaulting
<1>10. SwitchSet(code, c2, n, last.patch)
  <2>1. c2 = BreaksPatched(ForLeft(code, last.patch, end), end)
    BY <1>4 DEF EmitSwitchEnd, Top, ForLeft, Size
  <2> QED BY <1>4, <1>7, <1>9, <2>1, SwitchSetIs
<1>11. /\ Follows(code, c2, n) /\ Len(c2) = Len(code) /\ Len(code) \in Nat
       /\ \A j \in 1..Len(code) :
            c2[j].to = IF BreakHit(j) \/ j = last.patch THEN Len(code) + 1 ELSE code[j].to
  BY <1>10 DEF SwitchSet
<1>12. Linked(ast, st, code, n, breaks, loops, breakPatches, continuePatches, gotoPatches, labels)
  BY <1>8 DEF Patched
<1>13. /\ Linked(ast, st, c2, n + 1, Front(breaks), loops, SubSeq(breakPatches, 1, p),
                 continuePatches, gotoPatches, labels)
       /\ Leavers(ast, st, code, Breakable, "break", breakPatches, p, top)
  BY <1>4, <1>5, <1>7, <1>11, <1>12, LinkedSwitchEnd
<1>14. breakPatches' = SubSeq(breakPatches, 1, p) /\ breaks' = Front(breaks)
  BY <1>1, <1>4 DEF FinishBreak
<1>15. ASSUME NEW i \in 1..Len(code), BreakHit(i) PROVE Lands(ast, st, c2, n + 1, i)
  <2>1. c2[i].to = Len(code) + 1  BY <1>11, <1>15
  <2> QED BY <1>4, <1>5, <1>6, <1>11, <1>13, <1>15, <2>1, SwitchBreaks
<1>16. ASSUME NEW i \in 1..Len(code), i = last.patch PROVE Lands(ast, st, c2, n + 1, i)
  <2>1. c2[i].to = Len(code) + 1 /\ last.patch # 0  BY <1>11, <1>16
  <2> QED BY <1>5, <1>6, <1>11, <1>16, <2>1, SwitchTop
<1>17. TargetsKept(ast, st, code, c2, n)  BY <1>11, <1>15, <1>16 DEF TargetsKept
<1>18. TopLands(ast, st, code, c2, n, top, last)  BY <1>16 DEF TopLands
<1>19. /\ Frames(ast, st, c2, n + 1, Stack(st, n + 1), frames')
       /\ FramesWait(ast, st, code, c2, n, frames, frames')
  BY <1>1, <1>4, <1>7, <1>11, <1>18, FramesClose
<1>20. /\ ListWaits(ast, st, code, c2, n, breakPatches, breakPatches')
       /\ ListWaits(ast, st, code, c2, n, continuePatches, continuePatches)
       /\ GotosWait(ast, st, code, c2, n, gotoPatches, labels, gotoPatches, labels)
       /\ CasesWait(ast, st, code, c2, n)
  <2>1. \A i \in 1..Len(code) : Hit(breakPatches, p, i) => Lands(ast, st, c2, n + 1, i)
    BY <1>4, <1>15 DEF BreakHit
  <2>2. ListWaits(ast, st, code, c2, n, breakPatches, SubSeq(breakPatches, 1, p))
    BY <1>13, <2>1, ListGoes
  <2> QED BY <1>7, <1>14, <2>2, ListSame, GotosSame, NoCase
<1>21. PICK fr2, bs2, bp2 : fr2 = frames' /\ bs2 = breaks' /\ bp2 = breakPatches'  OBVIOUS
<1>22. Placing(ast, st, code, c2, n, fr2, bp2, continuePatches, gotoPatches, labels)
  <2>1. \A j \in Len(code) + 1 .. Len(c2) : FALSE  BY <1>11
  <2> QED BY <2>1 DEF Placing
<1>23. Linked(ast, st, c2, n + 1, bs2, loops, bp2, continuePatches, gotoPatches, labels)
  BY <1>13, <1>14, <1>21
<1>24. Patched(ast, st, n + 1, c2, fr2, bs2, loops, bp2, continuePatches, gotoPatches, labels)
  BY <1>7, <1>8, <1>11, <1>17, <1>19, <1>20, <1>21, <1>22, <1>23, PatchedOn
<1>25. Tabling(ast, st, n + 1, frames', symbols)  BY <1>1, <1>7, TablingClose
<1> QED BY <1>1, <1>2, <1>4, <1>7, <1>21, <1>24, <1>25, Met

-----------------------------------------------------------------------------
(* Break and continue                                                        *)
LEMMA SuitsNext ==
  ASSUME NEW t, NEW st, TreeOK(t, st), NEW n \in 0..Len(t) - 1, NEW s, s = Stack(st, n),
         NEW e, e = t[n + 1]
  PROVE  Suits(t, s, e) /\ e \in NodeType
<1>1. /\ n \in Nat /\ n + 1 \in 1..Len(t)  BY DEF TreeOK
<1>2. Suits(t, Stack(st, (n + 1) - 1), t[n + 1])  BY <1>1 DEF TreeOK, NodeOK
<1>3. (n + 1) - 1 = n  BY <1>1
<1> QED BY <1>1, <1>2, <1>3 DEF TreeOK

LEMMA OneMore ==
  ASSUME NEW c, NEW c2, NEW y, Tailed(c, c2, y)
  PROVE  /\ Len(c2) \in 1..Len(c2) /\ Len(c2) \in Nat /\ c2[Len(c2)] = y
BY DEF Tailed

\* What a break and a continue have in common.
LEMMA JumpAway ==
  ASSUME NEW st, NEW n, NEW kinds, Meeting(st, n, kinds), NEW kind,
         kind \in {"break", "continue"}, ast[n + 1].kind = kind, NEW y, y = Ins("jump", 0, 0),
         NEW c2, c2 = code', Follows(code, c2, n), Tailed(code, c2, y),
         UNCHANGED <<frames, symbols, scope, breaks, loops, gotoPatches, labels>>,
         NEW bp2, bp2 = breakPatches', NEW cp2, cp2 = continuePatches',
         Linked(ast, st, c2, n + 1, breaks, loops, bp2, cp2, gotoPatches, labels),
         ListWaits(ast, st, code, c2, n, breakPatches, bp2),
         ListWaits(ast, st, code, c2, n, continuePatches, cp2),
         Listed(IF kind = "break" THEN bp2 ELSE cp2, Len(c2))
  PROVE  JumpOK(st)'
<1>1. /\ TreeOK(ast, st) /\ n \in 0..Len(ast) - 1 /\ n \in Nat /\ Coded(code, n)
      /\ Frames(ast, st, code, n, Stack(st, n), frames) /\ at = n + 1
      /\ Tabling(ast, st, n, frames, symbols) /\ scope \in Int
      /\ Patched(ast, st, n, code, frames, breaks, loops, breakPatches, continuePatches,
                 gotoPatches, labels)
  BY DEF Meeting
<1>2. ast[n + 1].kind \in Leaves /\ ast[n + 1].kind # "case"  BY DEF Leaves
<1>3. /\ Frames(ast, st, c2, n + 1, Stack(st, n + 1), frames)
      /\ FramesWait(ast, st, code, c2, n, frames, frames)
  BY <1>1, <1>2, FramesLeaf
<1>4. y.node = n + 1  BY <1>1, JumpIs
<1>5. c2[Len(c2)] = y  BY OneMore
<1>6. PICK i : i = Len(c2)  OBVIOUS
<1>7. Waiting(ast, st, c2, n + 1, frames, bp2, cp2, gotoPatches, labels, i)
  <2>1. c2[i].node = n + 1  BY <1>4, <1>5, <1>6
  <2> QED BY <1>6, <2>1 DEF Waiting
<1>8. /\ TargetsKept(ast, st, code, c2, n)
      /\ Placing(ast, st, code, c2, n, frames, bp2, cp2, gotoPatches, labels)
  BY <1>6, <1>7, TailedKeeps
<1>9. /\ GotosWait(ast, st, code, c2, n, gotoPatches, labels, gotoPatches, labels)
      /\ CasesWait(ast, st, code, c2, n)
  BY <1>2, GotosSame, NoCase
<1>10. Patched(ast, st, n + 1, c2, frames, breaks, loops, bp2, cp2, gotoPatches, labels)
  BY <1>1, <1>3, <1>8, <1>9, PatchedOn
<1>11. Tabling(ast, st, n + 1, frames, symbols)
  <2>1. Alike(symbols, symbols)  BY <1>1 DEF Alike, Tabling
  <2> QED BY <1>1, <1>2, <2>1, TablingLeaf
<1> QED BY <1>1, <1>10, <1>11, Met

LEMMA JumpBreak ==
  ASSUME NEW st, JumpOK(st), EmitBreak
  PROVE  JumpOK(st)'
<1> DEFINE K == {"break"}
<1>1. /\ Emitting(K)
      /\ UNCHANGED <<frames, symbols, scope, breaks, loops, continuePatches, gotoPatches, labels>>
  BY DEF EmitBreak
<1>2. PICK n : Meeting(st, n, K)  BY <1>1, Meets
<1>3. /\ TreeOK(ast, st) /\ n \in 0..Len(ast) - 1 /\ n \in Nat /\ Coded(code, n) /\ at = n + 1
      /\ ast[n + 1].kind = "break" /\ Tabled(n)
  BY <1>2 DEF Meeting
<1> HIDE DEF K
<1>4. PICK d, kept, y, c1, c2, bp2 :
        /\ kept = Last(breaks).kept /\ d = CleanupFrom(kept) /\ y = Ins("jump", 0, 0)
        /\ c1 = code \o d /\ c2 = code' /\ bp2 = breakPatches'
  OBVIOUS
<1>5. c2 = Append(c1, y) /\ bp2 = Append(breakPatches, Len(c1) + 1)
  BY <1>4 DEF EmitBreak, Size
<1>6. Emits(n, d) /\ Quiet(d)  BY <1>3, <1>4, CleanupIs
<1>7. y \in Instruction /\ y.node = n + 1 /\ y.op = "jump"  BY <1>3, <1>4, JumpIs
<1>8. Follows(code, c2, n) /\ Tailed(code, c2, y) /\ Adds(code, c2, Len(d) + 1)
  BY <1>3, <1>4, <1>5, <1>6, <1>7, TailedIs
<1>9. PICK i \in 1..Len(c2) : i = Len(c2) /\ i \in Nat /\ c2[i] = y  BY <1>8, OneMore
<1>10. Grows(bp2, breakPatches, i)
  <2>1. Added(code, d, c1)  BY <1>3, <1>4, <1>6, EmitsAfter
  <2>2. Len(c1) + 1 = i
    <3>1. Len(c1) = Len(code) + Len(d) /\ Len(code) \in Nat /\ Len(d) \in Nat
      BY <2>1 DEF Added
    <3> QED BY <1>8, <1>9, <3>1 DEF Adds
  <2> QED BY <1>5, <2>2 DEF Grows
<1>11. /\ breakPatches \in Seq(Nat)
       /\ Linked(ast, st, code, n, breaks, loops, breakPatches, continuePatches, gotoPatches,
                 labels)
  BY <1>2, ListLength
<1>12. Linked(ast, st, c2, n + 1, breaks, loops, bp2, continuePatches, gotoPatches, labels)
  <2>1. ast[n + 1].kind \notin LoopEnds /\ ast[n + 1].kind # "label"  BY <1>3 DEF LoopEnds
  <2>2. OneJump(ast, code, c2, n)  BY <2>1 DEF OneJump
  <2>3. /\ Labelled(ast, c2, n + 1, labels) /\ Going(ast, c2, gotoPatches) /\ OneBack(ast, c2)
        /\ Coded(c2, n + 1)
        /\ Context(ast, st, code, n, Breakable, "break", breaks, breakPatches)
        /\ Context(ast, st, code, n, LoopKinds, "continue", loops, continuePatches)
    BY <1>3, <1>8, <1>11, <2>1, <2>2, LinkedRest
  <2>4. PICK kind, s, e : kind = "break" /\ s = Stack(st, n) /\ e = ast[n + 1]  OBVIOUS
  <2>5. kind \in Leaves /\ Apart(kind, LoopKinds)
    BY <2>4 DEF Leaves, Apart, LoopKinds, Ends
  <2>6. Holding(ast, s, Breakable)
    <3>1. Suits(ast, s, e)  BY <1>3, <2>4, SuitsNext
    <3> QED BY <1>3, <2>4, <3>1 DEF Suits
  <2>7. Context(ast, st, c2, n + 1, Breakable, kind, breaks, bp2)
    <3>1. Context(ast, st, code, n, Breakable, kind, breaks, breakPatches)  BY <2>3, <2>4
    <3> QED BY <1>3, <1>7, <1>8, <1>9, <1>10, <2>4, <2>5, <2>6, <3>1, ContextJoin
  <2>8. Context(ast, st, c2, n + 1, LoopKinds, "continue", loops, continuePatches)
    BY <1>3, <1>8, <2>3, <2>4, <2>5, ContextSame
  <2> QED BY <2>3, <2>4, <2>7, <2>8 DEF Linked
<1>13. ListWaits(ast, st, code, c2, n, breakPatches, bp2) /\ Listed(bp2, i)
  BY <1>9, <1>10, <1>11, ListMore
<1>14. ListWaits(ast, st, code, c2, n, continuePatches, continuePatches)  BY ListSame
<1>15. PICK kind, cp2 : kind = "break" /\ cp2 = continuePatches'  OBVIOUS
<1>16. kind \in {"break", "continue"} /\ ast[n + 1].kind = kind /\ cp2 = continuePatches
  BY <1>1, <1>3, <1>15
<1>17. Listed(IF kind = "break" THEN bp2 ELSE cp2, Len(c2))  BY <1>9, <1>13, <1>15
<1>18. ListWaits(ast, st, code, c2, n, continuePatches, cp2)  BY <1>14, <1>16
<1>19. Linked(ast, st, c2, n + 1, breaks, loops, bp2, cp2, gotoPatches, labels)
  BY <1>12, <1>16
<1> QED BY <1>1, <1>2, <1>4, <1>8, <1>13, <1>15, <1>16, <1>17, <1>18, <1>19, JumpAway

LEMMA JumpContinue ==
  ASSUME NEW st, JumpOK(st), EmitContinue
  PROVE  JumpOK(st)'
<1> DEFINE K == {"continue"}
<1>1. /\ Emitting(K)
      /\ UNCHANGED <<frames, symbols, scope, breaks, loops, breakPatches, gotoPatches, labels>>
  BY DEF EmitContinue
<1>2. PICK n : Meeting(st, n, K)  BY <1>1, Meets
<1>3. /\ TreeOK(ast, st) /\ n \in 0..Len(ast) - 1 /\ n \in Nat /\ Coded(code, n) /\ at = n + 1
      /\ ast[n + 1].kind = "continue" /\ Tabled(n)
  BY <1>2 DEF Meeting
<1> HIDE DEF K
<1>4. PICK d, kept, y, c1, c2, cp2 :
        /\ kept = Last(loops).kept /\ d = CleanupFrom(kept) /\ y = Ins("jump", 0, 0)
        /\ c1 = code \o d /\ c2 = code' /\ cp2 = continuePatches'
  OBVIOUS
<1>5. c2 = Append(c1, y) /\ cp2 = Append(continuePatches, Len(c1) + 1)
  BY <1>4 DEF EmitContinue, Size
<1>6. Emits(n, d) /\ Quiet(d)  BY <1>3, <1>4, CleanupIs
<1>7. y \in Instruction /\ y.node = n + 1 /\ y.op = "jump"  BY <1>3, <1>4, JumpIs
<1>8. Follows(code, c2, n) /\ Tailed(code, c2, y) /\ Adds(code, c2, Len(d) + 1)
  BY <1>3, <1>4, <1>5, <1>6, <1>7, TailedIs
<1>9. PICK i \in 1..Len(c2) : i = Len(c2) /\ i \in Nat /\ c2[i] = y  BY <1>8, OneMore
<1>10. Grows(cp2, continuePatches, i)
  <2>1. Added(code, d, c1)  BY <1>3, <1>4, <1>6, EmitsAfter
  <2>2. Len(c1) + 1 = i
    <3>1. Len(c1) = Len(code) + Len(d) /\ Len(code) \in Nat /\ Len(d) \in Nat
      BY <2>1 DEF Added
    <3> QED BY <1>8, <1>9, <3>1 DEF Adds
  <2> QED BY <1>5, <2>2 DEF Grows
<1>11. /\ continuePatches \in Seq(Nat)
       /\ Linked(ast, st, code, n, breaks, loops, breakPatches, continuePatches, gotoPatches,
                 labels)
  BY <1>2, ListLength
<1>12. Linked(ast, st, c2, n + 1, breaks, loops, breakPatches, cp2, gotoPatches, labels)
  <2>1. ast[n + 1].kind \notin LoopEnds /\ ast[n + 1].kind # "label"  BY <1>3 DEF LoopEnds
  <2>2. OneJump(ast, code, c2, n)  BY <2>1 DEF OneJump
  <2>3. /\ Labelled(ast, c2, n + 1, labels) /\ Going(ast, c2, gotoPatches) /\ OneBack(ast, c2)
        /\ Coded(c2, n + 1)
        /\ Context(ast, st, code, n, Breakable, "break", breaks, breakPatches)
        /\ Context(ast, st, code, n, LoopKinds, "continue", loops, continuePatches)
    BY <1>3, <1>8, <1>11, <2>1, <2>2, LinkedRest
  <2>4. PICK kind, s, e : kind = "continue" /\ s = Stack(st, n) /\ e = ast[n + 1]  OBVIOUS
  <2>5. kind \in Leaves /\ Apart(kind, Breakable)
    BY <2>4 DEF Leaves, Apart, Breakable, LoopKinds, Ends
  <2>6. Holding(ast, s, LoopKinds)
    <3>1. Suits(ast, s, e)  BY <1>3, <2>4, SuitsNext
    <3> QED BY <1>3, <2>4, <3>1 DEF Suits
  <2>7. Context(ast, st, c2, n + 1, LoopKinds, kind, loops, cp2)
    <3>1. Context(ast, st, code, n, LoopKinds, kind, loops, continuePatches)  BY <2>3, <2>4
    <3> QED BY <1>3, <1>7, <1>8, <1>9, <1>10, <2>4, <2>5, <2>6, <3>1, ContextJoin
  <2>8. Context(ast, st, c2, n + 1, Breakable, "break", breaks, breakPatches)
    BY <1>3, <1>8, <2>3, <2>4, <2>5, ContextSame
  <2> QED BY <2>3, <2>4, <2>7, <2>8 DEF Linked
<1>13. ListWaits(ast, st, code, c2, n, continuePatches, cp2) /\ Listed(cp2, i)
  BY <1>9, <1>10, <1>11, ListMore
<1>14. ListWaits(ast, st, code, c2, n, breakPatches, breakPatches)  BY ListSame
<1>15. PICK kind, bp2 : kind = "continue" /\ bp2 = breakPatches'  OBVIOUS
<1>16. kind \in {"break", "continue"} /\ ast[n + 1].kind = kind /\ bp2 = breakPatches
  BY <1>1, <1>3, <1>15
<1>17. Listed(IF kind = "break" THEN bp2 ELSE cp2, Len(c2))  BY <1>9, <1>13, <1>15
<1>18. ListWaits(ast, st, code, c2, n, breakPatches, bp2)  BY <1>14, <1>16
<1>19. Linked(ast, st, c2, n + 1, breaks, loops, bp2, cp2, gotoPatches, labels)
  BY <1>12, <1>16
<1> QED BY <1>1, <1>2, <1>4, <1>8, <1>13, <1>15, <1>16, <1>17, <1>18, <1>19, JumpAway

-----------------------------------------------------------------------------
(* Labels and gotos                                                          *)
GotoHit(l, i) == \E k \in DOMAIN gotoPatches : gotoPatches[k] = <<i, l>>
LabelSet(c, c2, l) ==
  /\ Retargets(c, c2) /\ Len(c) \in Nat
  /\ \A j \in 1..Len(c) : c2[j].to = IF GotoHit(l, j) THEN Len(c) + 1 ELSE c[j].to

LEMMA LabelIs ==
  ASSUME NEW c \in Seq(Instruction), NEW l, NEW to, to = Len(c) + 1, NEW c2,
         c2 = [i \in DOMAIN c |-> IF \E k \in DOMAIN gotoPatches : gotoPatches[k] = <<i, l>>
                                  THEN [c[i] EXCEPT !.to = to] ELSE c[i]]
  PROVE  LabelSet(c, c2, l)
<1> DEFINE L == Len(c)
<1>1. /\ L \in Nat /\ DOMAIN c = 1..L /\ (\A j \in 1..L : c[j] \in Instruction) /\ to \in Nat
      /\ L = Len(c)
  OBVIOUS
<1>2. DOMAIN c2 = 1..L
      /\ \A j \in 1..L : c2[j] = IF GotoHit(l, j) THEN [c[j] EXCEPT !.to = to] ELSE c[j]
  BY <1>1 DEF GotoHit
<1> HIDE DEF L
<1>3. ASSUME NEW j \in 1..L
      PROVE  /\ c2[j] \in Instruction /\ c2[j].op = c[j].op /\ c2[j].node = c[j].node
             /\ c2[j].to = IF GotoHit(l, j) THEN to ELSE c[j].to
  <2>1. PICK x : x = [c[j] EXCEPT !.to = to]  OBVIOUS
  <2>2. x \in Instruction /\ x.to = to /\ x.op = c[j].op /\ x.node = c[j].node
    BY <1>1, <2>1, Retargeted
  <2> QED BY <1>1, <1>2, <2>1, <2>2
<1>4. c2 = [j \in 1..L |-> c2[j]]  BY <1>1, <1>2
<1>5. c2 \in Seq(Instruction) /\ Len(c2) = L
  <2>1. PICK T : T = Instruction  OBVIOUS
  <2>2. \A j \in 1..L : c2[j] \in T  BY <1>3, <2>1
  <2>3. c2 \in Seq(T) /\ Len(c2) = L  BY <1>1, <1>4, <2>2, Sequenced
  <2> QED BY <2>1, <2>3
<1> QED BY <1>1, <1>3, <1>5 DEF Retargets, LabelSet

LEMMA GotoLands ==
  ASSUME NEW t, NEW st, TreeOK(t, st), NEW n \in 0..Len(t) - 1, NEW c, Coded(c, n),
         NEW c2, Follows(c, c2, n), NEW l, IsLabel(t, n + 1, l), Going(t, c, gotoPatches),
         NEW i \in 1..Len(c), GotoHit(l, i), c2[i].to = Len(c) + 1
  PROVE  Lands(t, st, c2, n + 1, i)
<1>1. n \in Nat  OBVIOUS
<1>2. gotoPatches \in Seq(Nat \X Labels)  BY DEF Going
<1>3. PICK g : g = gotoPatches  OBVIOUS
<1>4. PICK k \in DOMAIN g : g[k] = <<i, l>>  BY <1>3 DEF GotoHit
<1>5. k \in 1..Len(g) /\ g[k][1] = i /\ g[k][2] = l  BY <1>2, <1>3, <1>4
<1>6. t[c[i].node].kind = "goto" /\ t[c[i].node].name = l  BY <1>3, <1>5 DEF Going
<1>7. i \in 1..Len(c2) /\ c2[i].node = c[i].node  BY <1>1, HeldOn
<1>8. PICK x, op, m : x = c2[i].node /\ op = c2[i].op /\ m = n + 1  OBVIOUS
<1>9. AimsStraight(t, x, "at", m)  BY <1>6, <1>7, <1>8 DEF AimsStraight, IsLabel
<1>10. \A r : Aims(t, st, x, op, r, "at", m)  BY <1>9 DEF Aims
<1>11. c2[i].to = CodeAt(c2, m) /\ m \in {n + 1, n + 2}
  <2>1. CodeAt(c2, n + 1) = Len(c) + 1  BY <1>1, CodeNow
  <2> QED BY <1>8, <2>1
<1> QED BY <1>1, <1>7, <1>8, <1>10, <1>11, NextLands

LEMMA LabelGotos ==
  ASSUME NEW t, NEW st, NEW c, NEW c2, NEW n, NEW l, NEW lb, lb \in [Labels -> Nat],
         gotoPatches \in Seq(Nat \X Labels), NEW to, NEW lb2, lb2 = [lb EXCEPT ![l] = to],
         \A i \in 1..Len(c) : GotoHit(l, i) => Lands(t, st, c2, n + 1, i)
  PROVE  GotosWait(t, st, c, c2, n, gotoPatches, lb, gotoPatches, lb2)
<1> SUFFICES ASSUME NEW i \in 1..Len(c), NEW x, GotoWait(t, gotoPatches, lb, x, i)
             PROVE  \/ GotoWait(t, gotoPatches, lb2, x, i)
                    \/ Lands(t, st, c2, n + 1, i)
  BY DEF GotosWait
<1>1. PICK k \in 1..Len(gotoPatches) : gotoPatches[k] = <<i, x>>  BY DEF GotoWait
<1>2. CASE x = l
  <2>1. GotoHit(l, i)  BY <1>1, <1>2 DEF GotoHit
  <2> QED BY <2>1
<1>3. CASE x # l
  <2>1. gotoPatches[k] \in Nat \X Labels  BY <1>1
  <2>2. x \in Labels  BY <1>1, <2>1
  <2>3. lb2[x] = lb[x]  BY <1>3, <2>2
  <2> QED BY <2>3 DEF GotoWait
<1> QED BY <1>2, <1>3

LEMMA LinkedLabel ==
  ASSUME NEW t, NEW st, TreeOK(t, st), NEW n \in 0..Len(t) - 1, NEW c, NEW c2,
         NEW bs, NEW ls, NEW bp, NEW cp, NEW gp, NEW lb, Linked(t, st, c, n, bs, ls, bp, cp, gp, lb),
         Follows(c, c2, n), NEW l \in Labels, IsLabel(t, n + 1, l), Len(c2) = Len(c),
         NEW lb2, lb2 = [lb EXCEPT ![l] = Len(c) + 1]
  PROVE  Linked(t, st, c2, n + 1, bs, ls, bp, cp, gp, lb2)
<1>1. n \in Nat /\ Coded(c, n)  BY DEF TreeOK, Linked
<1>2. PICK x : x = t[n + 1].kind  OBVIOUS
<1>3. x = "label"  BY <1>2 DEF IsLabel
<1>4. Apart(x, Breakable) /\ Apart(x, LoopKinds) /\ t[n + 1].kind \notin LoopEnds
  BY <1>2, <1>3 DEF Apart, Breakable, LoopKinds, Ends, LoopEnds
<1>5. PICK K1 \in {Breakable, LoopKinds}, K2 \in {Breakable, LoopKinds} :
        K1 = Breakable /\ K2 = LoopKinds
  OBVIOUS
<1>6. PICK b, d : b = "break" /\ d = "continue"  OBVIOUS
<1>7. Context(t, st, c2, n + 1, K1, b, bs, bp)
  <2>1. Context(t, st, c, n, K1, b, bs, bp)  BY <1>5, <1>6 DEF Linked
  <2> QED BY <1>1, <1>2, <1>4, <1>5, <2>1, ContextSame
<1>8. Context(t, st, c2, n + 1, K2, d, ls, cp)
  <2>1. Context(t, st, c, n, K2, d, ls, cp)  BY <1>5, <1>6 DEF Linked
  <2> QED BY <1>1, <1>2, <1>4, <1>5, <2>1, ContextSame
<1>9. Labelled(t, c2, n + 1, lb2)  BY <1>1, LabelledNext DEF Linked
<1>10. Going(t, c2, gp)  BY <1>1, GoingOn DEF Linked
<1>11. OneBack(t, c2)  BY <1>1, <1>4, OneBackOn DEF Linked
<1>12. Coded(c2, n + 1)  BY <1>1, CodeNow
<1> QED BY <1>5, <1>6, <1>7, <1>8, <1>9, <1>10, <1>11, <1>12 DEF Linked

LEMMA JumpLabel ==
  ASSUME NEW st, JumpOK(st), EmitLabel
  PROVE  JumpOK(st)'
<1>1. /\ Emitting({"label"}) /\ UNCHANGED <<frames, symbols, scope, patchVars>>
  BY DEF EmitLabel
<1>2. PICK n : Meeting(st, n, {"label"})  BY <1>1, Meets
<1>3. /\ TreeOK(ast, st) /\ n \in 0..Len(ast) - 1 /\ n \in Nat /\ Coded(code, n) /\ at = n + 1
      /\ ast[n + 1].kind = "label" /\ scope \in Int
      /\ Frames(ast, st, code, n, Stack(st, n), frames)
      /\ Tabling(ast, st, n, frames, symbols) /\ n + 1 \in 1..Len(ast)
      /\ Patched(ast, st, n, code, frames, breaks, loops, breakPatches, continuePatches,
                 gotoPatches, labels)
  BY <1>2 DEF Meeting, TreeOK
<1>4. PICK l, to, c2, lb2 : /\ l = ast[n + 1].name /\ to = Len(code) + 1 /\ c2 = code'
                            /\ lb2 = labels'
  OBVIOUS
<1>5. l \in Labels
  <2>1. PICK s, e : s = Stack(st, n) /\ e = ast[n + 1]  OBVIOUS
  <2>2. Suits(ast, s, e)  BY <1>3, <2>1, SuitsNext
  <2> QED BY <1>3, <1>4, <2>1, <2>2 DEF Suits
<1>6. IsLabel(ast, n + 1, l)  BY <1>3, <1>4 DEF IsLabel
<1>7. lb2 = [labels EXCEPT ![l] = to]  BY <1>3, <1>4 DEF EmitLabel, Size
<1>8. LabelSet(code, c2, l)
  <2>1. c2 = [i \in DOMAIN code |-> IF \E k \in DOMAIN gotoPatches : gotoPatches[k] = <<i, l>>
                                    THEN [code[i] EXCEPT !.to = to] ELSE code[i]]
    BY <1>3, <1>4 DEF EmitLabel, Size
  <2>2. code \in Seq(Instruction)  BY <1>3 DEF Coded
  <2> QED BY <1>4, <2>1, <2>2, LabelIs
<1>9. /\ Retargets(code, c2) /\ Len(code) \in Nat /\ Len(c2) = Len(code)
      /\ \A j \in 1..Len(code) :
           c2[j].to = IF GotoHit(l, j) THEN Len(code) + 1 ELSE code[j].to
  BY <1>8 DEF LabelSet, Retargets
<1>10. Follows(code, c2, n)
  <2>1. Follows(code, code, n)  BY <1>3, SameFollows
  <2> QED BY <1>3, <1>9, <2>1, RetargetsFollows
<1>11. Linked(ast, st, code, n, breaks, loops, breakPatches, continuePatches, gotoPatches, labels)
  BY <1>3 DEF Patched
<1>12. Going(ast, code, gotoPatches) /\ labels \in [Labels -> Nat]
       /\ gotoPatches \in Seq(Nat \X Labels)
  BY <1>11 DEF Linked, Going, Labelled
<1>13. \A i \in 1..Len(code) : GotoHit(l, i) => Lands(ast, st, c2, n + 1, i)
  BY <1>3, <1>6, <1>9, <1>10, <1>12, GotoLands
<1>14. TargetsKept(ast, st, code, c2, n)  BY <1>9, <1>13 DEF TargetsKept
<1>15. GotosWait(ast, st, code, c2, n, gotoPatches, labels, gotoPatches, lb2)
  BY <1>7, <1>12, <1>13, LabelGotos
<1>16. ast[n + 1].kind \in Leaves /\ ast[n + 1].kind # "case"  BY <1>3 DEF Leaves
<1>17. /\ Frames(ast, st, c2, n + 1, Stack(st, n + 1), frames)
       /\ FramesWait(ast, st, code, c2, n, frames, frames)
  BY <1>3, <1>10, <1>16, FramesLeaf
<1>18. Linked(ast, st, c2, n + 1, breaks, loops, breakPatches, continuePatches, gotoPatches, lb2)
  <2>1. lb2 = [labels EXCEPT ![l] = Len(code) + 1]  BY <1>4, <1>7
  <2> QED BY <1>3, <1>5, <1>6, <1>9, <1>10, <1>11, <2>1, LinkedLabel
<1>19. Placing(ast, st, code, c2, n, frames, breakPatches, continuePatches, gotoPatches, lb2)
  <2>1. \A j \in Len(code) + 1 .. Len(c2) : FALSE  BY <1>9
  <2> QED BY <2>1 DEF Placing
<1>20. /\ ListWaits(ast, st, code, c2, n, breakPatches, breakPatches)
       /\ ListWaits(ast, st, code, c2, n, continuePatches, continuePatches)
       /\ CasesWait(ast, st, code, c2, n)
  BY <1>16, ListSame, NoCase
<1>21. Patched(ast, st, n + 1, c2, frames, breaks, loops, breakPatches, continuePatches,
               gotoPatches, lb2)
  BY <1>3, <1>10, <1>14, <1>15, <1>17, <1>18, <1>19, <1>20, PatchedOn
<1>22. Tabling(ast, st, n + 1, frames, symbols)
  <2>1. Alike(symbols, symbols)  BY <1>3 DEF Alike, Tabling
  <2> QED BY <1>3, <1>16, <2>1, TablingLeaf
<1> QED BY <1>1, <1>2, <1>3, <1>4, <1>21, <1>22, Met DEF patchVars

\* A goto to a label that has been passed.
LEMMA GotoBack ==
  ASSUME NEW t, NEW st, TreeOK(t, st), NEW n \in 0..Len(t) - 1, t[n + 1].kind = "goto",
         NEW l, l = t[n + 1].name, l \in Labels, NEW c, Coded(c, n), NEW c2, Follows(c, c2, n),
         NEW lb, Labelled(t, c, n, lb), lb[l] # 0, NEW i \in 1..Len(c2), c2[i].node = n + 1,
         c2[i].to = lb[l]
  PROVE  Lands(t, st, c2, n + 1, i)
<1>1. n \in Nat /\ Len(t) \in Nat /\ n + 1 <= Len(t) /\ n + 1 \in Nat  BY DEF TreeOK
<1>2. PICK k \in 1..n : IsLabel(t, k, l) /\ lb[l] = CodeAt(c, k)  BY DEF Labelled
<1>3. k \in 0..n + 1 /\ k \in 1..(n + 1) + 1  BY <1>1, <1>2
<1>4. CodeAt(c2, k) = CodeAt(c, k) /\ Coded(c2, n + 1)  BY <1>1, <1>3, CodeAtSame
<1>5. PICK how : how = "at"  OBVIOUS
<1>6. AimsStraight(t, n + 1, how, k)  BY <1>2, <1>5 DEF AimsStraight, IsLabel
<1>7. Aims(t, st, c2[i].node, c2[i].op, Rank(c2, i), how, k)  BY <1>6 DEF Aims
<1> QED BY <1>1, <1>2, <1>3, <1>4, <1>5, <1>7, LandsAt

\* A goto to a label that is still to come.
LEMMA GotoOn ==
  ASSUME NEW t, NEW n \in Nat, NEW c2, NEW gp, Going(t, c2, gp), NEW i, i \in 1..Len(c2), i \in Nat,
         c2[i].op = "jump", c2[i].node = n + 1, t[n + 1].kind = "goto",
         NEW l \in Labels, t[n + 1].name = l, NEW z, z = <<i, l>>, NEW gp2, Grows(gp2, gp, z)
  PROVE  /\ Going(t, c2, gp2) /\ \E k \in 1..Len(gp2) : gp2[k] = z
         /\ \A x : (\E k \in 1..Len(gp) : gp[k] = x) => \E k \in 1..Len(gp2) : gp2[k] = x
<1>1. PICK S : S = Nat \X Labels  OBVIOUS
<1>2. gp \in Seq(S) /\ z \in S /\ z[1] = i /\ z[2] = l  BY <1>1 DEF Going
<1>3. /\ gp2 \in Seq(S) /\ Len(gp2) = Len(gp) + 1 /\ Len(gp) \in Nat
      /\ (\A k \in 1..Len(gp) : gp2[k] = gp[k])
      /\ gp2[Len(gp) + 1] = z
  BY <1>2, GrowsTo
<1>4. Going(t, c2, gp2)
  <2>1. ASSUME NEW k \in 1..Len(gp2)
        PROVE  /\ gp2[k][1] \in 1..Len(c2) /\ c2[gp2[k][1]].op = "jump"
               /\ t[c2[gp2[k][1]].node].kind = "goto" /\ t[c2[gp2[k][1]].node].name = gp2[k][2]
    <3>1. CASE k = Len(gp) + 1
      <4>1. gp2[k][1] = i /\ gp2[k][2] = l  BY <1>2, <1>3, <3>1
      <4> QED BY <4>1
    <3>2. CASE k # Len(gp) + 1
      <4>1. k \in 1..Len(gp) /\ gp2[k] = gp[k]  BY <1>3, <3>2
      <4> QED BY <4>1 DEF Going
    <3> QED BY <3>1, <3>2
  <2> QED BY <1>1, <1>3, <2>1 DEF Going
<1> QED BY <1>3, <1>4

Known(l) == \E k : IsLabel(ast, k, l)

LEMMA LabelKnown ==
  ASSUME ast \in Seq(NodeType), NEW e, MayGoto(e)
  PROVE  Known(e.name)
<1>1. PICK k \in LabelNodes(e.name) : TRUE  BY DEF MayGoto
<1>2. k \in 1..Len(ast) /\ ast[k].kind = "label" /\ ast[k].name = e.name  BY <1>1 DEF LabelNodes
<1> QED BY <1>2 DEF Known, IsLabel

\* The patches of the gotos after one more goto.
LEMMA GotoPatches ==
  ASSUME NEW st, NEW n \in Nat, NEW c2, Going(ast, c2, gotoPatches),
         NEW i, i \in 1..Len(c2), i \in Nat, c2[i].op = "jump", c2[i].node = n + 1,
         ast[n + 1].kind = "goto", NEW l \in Labels, ast[n + 1].name = l, Known(l),
         NEW gp2, gp2 = IF labels[l] = 0 THEN Append(gotoPatches, <<i, l>>) ELSE gotoPatches
  PROVE  /\ Going(ast, c2, gp2)
         /\ labels[l] = 0 => GotoWait(ast, gp2, labels, l, i)
         /\ GotosWait(ast, st, code, c2, n, gotoPatches, labels, gp2, labels)
<1>1. PICK z : z = <<i, l>>  OBVIOUS
<1>2. CASE labels[l] = 0
  <2>1. Grows(gp2, gotoPatches, z)  BY <1>1, <1>2 DEF Grows
  <2>2. /\ Going(ast, c2, gp2) /\ \E k \in 1..Len(gp2) : gp2[k] = z
        /\ \A x : (\E k \in 1..Len(gotoPatches) : gotoPatches[k] = x) =>
                    \E k \in 1..Len(gp2) : gp2[k] = x
    BY <1>1, <2>1, GotoOn, SMTT(30)
  <2>3. GotoWait(ast, gp2, labels, l, i)  BY <1>1, <1>2, <2>2 DEF GotoWait, Known
  <2>4. GotosWait(ast, st, code, c2, n, gotoPatches, labels, gp2, labels)
    <3> SUFFICES ASSUME NEW j, NEW x, GotoWait(ast, gotoPatches, labels, x, j)
                 PROVE  GotoWait(ast, gp2, labels, x, j)
      BY DEF GotosWait
    <3>1. PICK y : y = <<j, x>>  OBVIOUS
    <3>2. \E k \in 1..Len(gotoPatches) : gotoPatches[k] = y  BY <3>1 DEF GotoWait
    <3>3. \E k \in 1..Len(gp2) : gp2[k] = y  BY <2>2, <3>2
    <3> QED BY <3>1, <3>3 DEF GotoWait
  <2> QED BY <2>2, <2>3, <2>4
<1>3. CASE labels[l] # 0
  <2>1. gp2 = gotoPatches  BY <1>3
  <2> QED BY <1>3, <2>1, GotosSame
<1> QED BY <1>2, <1>3

\* What a goto frees.
LeavingGoto ==
  LET k == CHOOSE j \in LabelNodes(ast[at].name) : TRUE
  IN  GotoCleanup(ast[k].depth, ast[k].epoch)

LEMMA JumpGoto ==
  ASSUME NEW st, JumpOK(st), EmitGoto
  PROVE  JumpOK(st)'
<1> DEFINE K == {"goto"}
<1>1. /\ Emitting(K) /\ MayGoto(ast[at])
      /\ UNCHANGED <<frames, symbols, scope, breaks, loops, breakPatches, continuePatches, labels>>
  BY DEF EmitGoto
<1>2. PICK n : Meeting(st, n, K)  BY <1>1, Meets
<1>3. /\ TreeOK(ast, st) /\ n \in 0..Len(ast) - 1 /\ n \in Nat /\ Coded(code, n) /\ at = n + 1
      /\ ast[n + 1].kind = "goto" /\ scope \in Int /\ Tabled(n)
      /\ Frames(ast, st, code, n, Stack(st, n), frames)
      /\ Tabling(ast, st, n, frames, symbols) /\ ast \in Seq(NodeType)
      /\ Patched(ast, st, n, code, frames, breaks, loops, breakPatches, continuePatches,
                 gotoPatches, labels)
  BY <1>2 DEF Meeting, TreeOK
<1> HIDE DEF K
<1>4. PICK e, l, d, to, y, c1, c2, gp2 :
        /\ e = ast[n + 1] /\ l = e.name /\ d = LeavingGoto /\ to = labels[l]
        /\ y = Ins("jump", 0, to) /\ c1 = code \o d /\ c2 = code' /\ gp2 = gotoPatches'
  OBVIOUS
<1>5. /\ c2 = Append(c1, y)
      /\ gp2 = IF labels[l] = 0 THEN Append(gotoPatches, <<Len(c1) + 1, l>>) ELSE gotoPatches
  <2>1. l = ast[at].name  BY <1>3, <1>4
  <2>2. /\ code' = Append(code \o LeavingGoto, Ins("jump", 0, labels[ast[at].name]))
        /\ gotoPatches' = IF labels[ast[at].name] = 0
                          THEN Append(gotoPatches,
                                      <<Len(code \o LeavingGoto) + 1, ast[at].name>>)
                          ELSE gotoPatches
    BY DEF EmitGoto, Size, LeavingGoto
  <2>3. c2 = Append(c1, y)  BY <1>4, <2>1, <2>2
  <2>4. gp2 = IF labels[l] = 0 THEN Append(gotoPatches, <<Len(c1) + 1, l>>) ELSE gotoPatches
    BY <1>4, <2>1, <2>2
  <2> QED BY <2>3, <2>4
<1>6. l \in Labels /\ Known(l)
  <2>1. PICK s : s = Stack(st, n)  OBVIOUS
  <2>2. Suits(ast, s, e)  BY <1>3, <1>4, <2>1, SuitsNext
  <2>3. MayGoto(e)  BY <1>1, <1>3, <1>4
  <2> QED BY <1>3, <1>4, <2>2, <2>3, LabelKnown DEF Suits
<1>7. Linked(ast, st, code, n, breaks, loops, breakPatches, continuePatches, gotoPatches, labels)
  BY <1>3 DEF Patched
<1>8. Labelled(ast, code, n, labels) /\ to \in Nat  BY <1>4, <1>6, <1>7 DEF Linked, Labelled
<1>9. y \in Instruction /\ y.node = n + 1 /\ y.op = "jump" /\ y.to = to
  <2>1. PICK op : op = "jump"  OBVIOUS
  <2>2. op \in {"jump", "branch", "ret"} /\ y = Ins(op, 0, to)  BY <1>4, <2>1
  <2>3. y \in Instruction /\ y.node = n + 1 /\ y.op = op /\ y.to = to  BY <1>3, <1>8, <2>2, GoesIs, SMTT(30)
  <2> QED BY <2>1, <2>3
<1>10. Emits(n, d) /\ Quiet(d)  BY <1>3, <1>4, CleanupIs, ZenonT(30) DEF LeavingGoto
<1>11. Follows(code, c2, n) /\ Tailed(code, c2, y) /\ Adds(code, c2, Len(d) + 1)
  BY <1>3, <1>4, <1>5, <1>9, <1>10, TailedIs
<1>12. PICK i \in 1..Len(c2) : i = Len(c2) /\ i \in Nat /\ c2[i] = y  BY <1>11, OneMore
<1>13. c2[i].op = "jump" /\ c2[i].node = n + 1 /\ c2[i].to = to  BY <1>9, <1>12
<1>14. Len(c1) + 1 = i
  <2>1. Added(code, d, c1)  BY <1>3, <1>4, <1>10, EmitsAfter
  <2>2. Len(c1) = Len(code) + Len(d) /\ Len(code) \in Nat /\ Len(d) \in Nat  BY <2>1 DEF Added
  <2> QED BY <1>11, <1>12, <2>2 DEF Adds
<1>15. Linked(ast, st, c2, n + 1, breaks, loops, breakPatches, continuePatches, gotoPatches, labels)
  <2>1. ast[n + 1].kind \in Calm  BY <1>3 DEF Calm, Leaves
  <2> QED BY <1>3, <1>7, <1>11, <2>1, LinkedCalm
<1>16. Going(ast, c2, gotoPatches)  BY <1>15 DEF Linked
<1>17. /\ Going(ast, c2, gp2)
       /\ labels[l] = 0 => GotoWait(ast, gp2, labels, l, i)
       /\ GotosWait(ast, st, code, c2, n, gotoPatches, labels, gp2, labels)
  <2>1. gp2 = IF labels[l] = 0 THEN Append(gotoPatches, <<i, l>>) ELSE gotoPatches
    BY <1>5, <1>14
  <2>2. ast[n + 1].name = l  BY <1>4
  <2> QED BY <1>3, <1>6, <1>12, <1>13, <1>16, <2>1, <2>2, GotoPatches
<1>18. Linked(ast, st, c2, n + 1, breaks, loops, breakPatches, continuePatches, gp2, labels)
  BY <1>15, <1>17 DEF Linked
<1>19. \/ Lands(ast, st, c2, n + 1, i)
       \/ Waiting(ast, st, c2, n + 1, frames, breakPatches, continuePatches, gp2, labels, i)
  <2>1. CASE labels[l] = 0
    <3>1. ast[c2[i].node].name = l /\ ast[c2[i].node].kind = "goto"  BY <1>3, <1>4, <1>13
    <3> QED BY <1>17, <2>1, <3>1 DEF Waiting
  <2>2. CASE labels[l] # 0
    <3>1. l = ast[n + 1].name /\ c2[i].to = labels[l]  BY <1>4, <1>13
    <3>2. Lands(ast, st, c2, n + 1, i)
      BY <1>3, <1>6, <1>8, <1>11, <1>12, <1>13, <2>2, <3>1, GotoBack
    <3> QED BY <3>2
  <2> QED BY <2>1, <2>2
<1>20. /\ TargetsKept(ast, st, code, c2, n)
       /\ Placing(ast, st, code, c2, n, frames, breakPatches, continuePatches, gp2, labels)
  BY <1>11, <1>12, <1>19, TailedKeeps
<1>21. ast[n + 1].kind \in Leaves /\ ast[n + 1].kind # "case"  BY <1>3 DEF Leaves
<1>22. /\ Frames(ast, st, c2, n + 1, Stack(st, n + 1), frames)
       /\ FramesWait(ast, st, code, c2, n, frames, frames)
  BY <1>3, <1>11, <1>21, FramesLeaf
<1>23. /\ ListWaits(ast, st, code, c2, n, breakPatches, breakPatches)
       /\ ListWaits(ast, st, code, c2, n, continuePatches, continuePatches)
       /\ CasesWait(ast, st, code, c2, n)
  BY <1>21, ListSame, NoCase
<1>24. Patched(ast, st, n + 1, c2, frames, breaks, loops, breakPatches, continuePatches, gp2,
               labels)
  BY <1>3, <1>11, <1>17, <1>18, <1>20, <1>22, <1>23, PatchedOn
<1>25. Tabling(ast, st, n + 1, frames, symbols)
  <2>1. Alike(symbols, symbols)  BY <1>3 DEF Alike, Tabling
  <2> QED BY <1>3, <1>21, <2>1, TablingLeaf
<1> QED BY <1>1, <1>2, <1>3, <1>4, <1>24, <1>25, Met

-----------------------------------------------------------------------------
(* Every step of the generator keeps the jumps in order.                     *)
LEMMA JumpEmitKeeps ==
  ASSUME NEW st, JumpOK(st), Emit, phase = "emit"
  PROVE  phase' = "emit" => JumpOK(st)'
<1>1. ASSUME RefuseDeclaration \/ RefuseExpression \/ RefuseLoop \/ RefuseSwitch \/ RefuseJump
               \/ RefuseGoto \/ EmitFunctionEnd \/ CollectLabels
      PROVE  phase' # "emit"
  BY <1>1 DEF RefuseDeclaration, RefuseExpression, RefuseLoop, RefuseSwitch, RefuseJump, RefuseGoto,
              Refusing, Refuse, EmitFunctionEnd, CollectLabels
<1>2. ASSUME EmitBlock \/ EmitBlockEnd \/ EmitDeclaration \/ EmitExpression \/ EmitReturn
      PROVE  JumpOK(st)'
  BY <1>2, JumpBlock, JumpBlockEnd, JumpDeclaration, JumpExpression, JumpReturn
<1>3. ASSUME EmitIf \/ EmitElse \/ EmitIfEnd \/ EmitSwitch \/ EmitCase \/ EmitSwitchEnd
      PROVE  JumpOK(st)'
  BY <1>3, JumpIf, JumpElse, JumpIfEnd, JumpSwitch, JumpCases, JumpSwitchEnd
<1>4. ASSUME EmitWhile \/ EmitDo \/ EmitFor \/ EmitWhileEnd \/ EmitDoEnd \/ EmitForEnd
      PROVE  JumpOK(st)'
  BY <1>4, JumpWhile, JumpDo, JumpFor, JumpWhileEnd, JumpDoEnd, JumpForEnd
<1>5. ASSUME EmitBreak \/ EmitContinue \/ EmitLabel \/ EmitGoto
      PROVE  JumpOK(st)'
  BY <1>5, JumpBreak, JumpContinue, JumpLabel, JumpGoto
<1> QED BY <1>1, <1>2, <1>3, <1>4, <1>5 DEF Emit

-----------------------------------------------------------------------------
(* The parser: a switch has one default.                                     *)
\* What the parser appends makes no second default of a switch.
NewDefault(t, e) ==
  e.kind = "default" => \A k \in 1..Len(t) : t[k].kind = "default" => t[k].within # e.within
Ordinary(e) == e.kind # "default"

LEMMA DefaultAdds ==
  ASSUME NEW S, NEW t \in Seq(S), OneDefault(t), NEW e, NewDefault(t, e)
  PROVE  /\ Append(t, e) \in Seq(S \cup {e}) /\ OneDefault(Append(t, e))
         /\ Ordinary(e) => \A f : NewDefault(t, f) => NewDefault(Append(t, e), f)
<1> DEFINE u == Append(t, e)
<1>1. PICK T : T = S \cup {e}  OBVIOUS
<1>2. t \in Seq(T) /\ e \in T  BY <1>1
<1>3. /\ u \in Seq(T) /\ Len(t) \in Nat /\ Len(u) = Len(t) + 1 /\ u[Len(t) + 1] = e
      /\ \A k \in 1..Len(t) : u[k] = t[k]
  BY <1>2
<1>4. \A k \in 1..Len(u) : k \in 1..Len(t) \/ k = Len(t) + 1  BY <1>3
<1> HIDE DEF u
<1>5. ASSUME NEW k \in 1..Len(u), NEW l \in 1..Len(u),
             u[k].kind = "default", u[l].kind = "default", u[k].within = u[l].within
      PROVE  k = l
  <2>1. CASE k \in 1..Len(t) /\ l \in 1..Len(t)
    BY <1>3, <1>5, <2>1 DEF OneDefault
  <2>2. CASE k = Len(t) + 1 /\ l \in 1..Len(t)
    BY <1>3, <1>5, <2>2 DEF NewDefault
  <2>3. CASE l = Len(t) + 1 /\ k \in 1..Len(t)
    BY <1>3, <1>5, <2>3 DEF NewDefault
  <2> QED BY <1>4, <2>1, <2>2, <2>3
<1>6. OneDefault(u)  BY <1>5 DEF OneDefault
<1>7. ASSUME Ordinary(e), NEW f, NewDefault(t, f) PROVE NewDefault(u, f)
  BY <1>3, <1>4, <1>7 DEF NewDefault, Ordinary
<1> QED BY <1>1, <1>3, <1>6, <1>7 DEF u

LEMMA DefaultOne ==
  ASSUME ast \in Seq(NodeType), OneDefault(ast), NEW e, ast' = Append(ast, e), NewDefault(ast, e)
  PROVE  OneDefault(ast')
BY DefaultAdds

LEMMA DefaultTwo ==
  ASSUME ast \in Seq(NodeType), OneDefault(ast), NEW e, NEW f, ast' = Append(Append(ast, e), f),
         Ordinary(e), NewDefault(ast, f)
  PROVE  OneDefault(ast')
<1>1. NewDefault(ast, e)  BY DEF NewDefault, Ordinary
<1>2. PICK t, S : t = Append(ast, e) /\ t \in Seq(S) /\ OneDefault(t) /\ NewDefault(t, f)
  <2>1. PICK t : t = Append(ast, e)  OBVIOUS
  <2>2. t \in Seq(NodeType \cup {e}) /\ OneDefault(t) /\ NewDefault(t, f)
    BY <1>1, <2>1, DefaultAdds
  <2> QED BY <2>1, <2>2
<1> QED BY <1>2, DefaultAdds

\* Sequences of one or two nodes behind the tree.
LEMMA BehindOne ==
  ASSUME NEW S, NEW t \in Seq(S), NEW e
  PROVE  t \o <<e>> = Append(t, e) /\ t \o <<>> = t
<1>1. PICK T : T = S \cup {e}  OBVIOUS
<1>2. t \in Seq(T) /\ e \in T  BY <1>1
<1> QED BY <1>2

LEMMA BehindTwo ==
  ASSUME NEW T, NEW t \in Seq(T), NEW e \in T, NEW f \in T
  PROVE  /\ t \o <<e, f>> = Append(Append(t, e), f)
         /\ (t \o <<e>>) \o <<f>> = Append(Append(t, e), f)
<1> DEFINE u == Append(t, e)
           v == Append(u, f)
           w == t \o <<e, f>>
<1>1. u \in Seq(T)  OBVIOUS
<1>2. t \o <<e>> = u  OBVIOUS
<1>3. /\ Len(t) \in Nat /\ Len(u) = Len(t) + 1 /\ u[Len(t) + 1] = e
      /\ \A k \in 1..Len(t) : u[k] = t[k]
  OBVIOUS
<1> HIDE DEF u
<1>4. u \o <<f>> = v /\ v \in Seq(T)  BY <1>1
<1>5. /\ Len(v) = Len(u) + 1 /\ v[Len(u) + 1] = f
      /\ \A k \in 1..Len(u) : v[k] = u[k]
  BY <1>1
<1> HIDE DEF v
<1>6. /\ w \in Seq(T) /\ Len(w) = Len(t) + 2 /\ w[Len(t) + 1] = e /\ w[Len(t) + 2] = f
      /\ \A k \in 1..Len(t) : w[k] = t[k]
  OBVIOUS
<1> HIDE DEF w
<1>7. v = w
  <2>1. Len(v) = Len(w) /\ \A k \in 1..Len(v) : v[k] = w[k]
    BY <1>3, <1>5, <1>6
  <2> QED BY <1>4, <1>6, <2>1, SeqEqual
<1> QED BY <1>2, <1>4, <1>7 DEF u, v, w

LEMMA OrdinaryAdds ==
  ASSUME ast \in Seq(NodeType), OneDefault(ast), NEW e, ast' = Append(ast, e), Ordinary(e)
  PROVE  OneDefault(ast')
<1>1. NewDefault(ast, e)  BY DEF NewDefault, Ordinary
<1> QED BY <1>1, DefaultOne

LEMMA OrdinaryNode ==
  ASSUME NEW kind, kind # "default", NEW x, NEW how
  PROVE  /\ Ordinary(Node(kind, x, how))
         /\ \A y : /\ Ordinary([Node(kind, x, how) EXCEPT !.within = y])
                   /\ Ordinary([Node(kind, x, how) EXCEPT !.epoch = y])
         /\ \A y : Ordinary(End(kind, y))
BY DEF Ordinary, Node, End

LEMMA DefaultsLeaf ==
  ASSUME ast \in Seq(NodeType), OneDefault(ast), NEW e, ReadLeaf(e), Ordinary(e)
  PROVE  OneDefault(ast')
BY OrdinaryAdds DEF ReadLeaf

LEMMA DefaultsOpen ==
  ASSUME ast \in Seq(NodeType), OneDefault(ast), NEW e, NEW inner, NEW changes, NEW path,
         ReadOpen(e, inner, changes, path), Ordinary(e)
  PROVE  OneDefault(ast')
BY OrdinaryAdds DEF ReadOpen

LEMMA DefaultsEnd ==
  ASSUME ast \in Seq(NodeType), OneDefault(ast), NEW e, NEW changes, NEW path,
         ReadEnd(<<e>>, changes, path), Ordinary(e)
  PROVE  OneDefault(ast')
<1>1. ast' = Append(ast, e)  BY BehindOne DEF ReadEnd
<1> QED BY <1>1, OrdinaryAdds

LEMMA DefaultsCase ==
  ASSUME ast \in Seq(NodeType), OneDefault(ast), NEW kind \in {"case", "default"}, ParseCase(kind)
  PROVE  OneDefault(ast')
<1> DEFINE first == Head(expect) = "switch"
           path == IF first THEN within ELSE Front(within)
           g == [Node("endcase", "", "") EXCEPT !.within = path]
           e == [Node(kind, "", "") EXCEPT !.within = path]
<1>1. /\ ast' = (ast \o (IF first THEN <<>> ELSE <<g>>)) \o <<e>>
      /\ kind = "default" => ~\E k \in DOMAIN ast : ast[k].kind = "default" /\ ast[k].within = path
  BY DEF ParseCase
<1>2. Ordinary(g)  BY DEF Ordinary, Node
<1>3. e.kind = kind /\ e.within = path  BY DEF Node
<1> HIDE DEF e, g, path, first
<1>4. NewDefault(ast, e)  BY <1>1, <1>3 DEF NewDefault
<1>5. CASE first
  <2>1. ast' = Append(ast, e)
    <3>1. ast \o <<>> = ast /\ ast \o <<e>> = Append(ast, e)  BY BehindOne
    <3> QED BY <1>1, <1>5, <3>1
  <2> QED BY <1>4, <2>1, DefaultOne
<1>6. CASE ~first
  <2>1. PICK T : T = NodeType \cup {e, g}  OBVIOUS
  <2>2. ast \in Seq(T) /\ e \in T /\ g \in T  BY <2>1
  <2>3. (ast \o <<g>>) \o <<e>> = Append(Append(ast, g), e)  BY <2>2, BehindTwo
  <2>4. ast' = Append(Append(ast, g), e)  BY <1>1, <1>6, <2>3
  <2> QED BY <1>2, <1>4, <2>4, DefaultTwo
<1> QED BY <1>5, <1>6

LEMMA DefaultsSwitchEnd ==
  ASSUME ast \in Seq(NodeType), OneDefault(ast), ParseSwitchEnd
  PROVE  OneDefault(ast')
<1> DEFINE e == End("endcase", Front(within))
           g == End("endswitch", Front(Front(within)))
<1>1. ast' = ast \o <<e, g>>  BY DEF ParseSwitchEnd, ReadEnd
<1>2. Ordinary(e) /\ Ordinary(g)  BY OrdinaryNode
<1> HIDE DEF e, g
<1>3. PICK T : T = NodeType \cup {e, g}  OBVIOUS
<1>4. ast \in Seq(T) /\ e \in T /\ g \in T  BY <1>3
<1>5. ast' = Append(Append(ast, e), g)  BY <1>1, <1>4, BehindTwo
<1>6. NewDefault(ast, g)  BY <1>2 DEF NewDefault, Ordinary
<1> QED BY <1>2, <1>5, <1>6, DefaultTwo

\* The parser never accepts a second default of a switch.
LEMMA DefaultsKept ==
  ASSUME ast \in Seq(NodeType), OneDefault(ast), Parse
  PROVE  OneDefault(ast')
<1>0. ASSUME ast' = ast PROVE OneDefault(ast')  BY <1>0
<1>1. ASSUME NEW x, NEW kind \in Declarations, Declare(kind, x) PROVE OneDefault(ast')
  <2>1. kind # "default"  BY DEF Declarations
  <2>2. Ordinary([Node(kind, x, kind) EXCEPT !.epoch = parser.epoch + 1])  BY <2>1, OrdinaryNode
  <2> QED BY <1>1, <2>2, DefaultsLeaf DEF Declare
<1>2. ASSUME NEW x, ParseStatic(x) PROVE OneDefault(ast')
  <2>1. CASE StaticsFit
    <3>1. "static" \in Declarations /\ Declare("static", x)
      BY <1>2, <2>1 DEF ParseStatic, Declarations
    <3> QED BY <1>1, <3>1
  <2>2. CASE ~StaticsFit
    BY <1>0, <1>2, <2>2 DEF ParseStatic, Reject, parseVars
  <2> QED BY <2>1, <2>2
<1>3. ASSUME NEW x, NEW how, ParseFor(x, how) PROVE OneDefault(ast')
  <2>1. "for" # "default"  OBVIOUS
  <2>2. \A y : Ordinary([Node("for", x, how) EXCEPT !.epoch = y])  BY <2>1, OrdinaryNode
  <2>3. \E y, inner, changes, path :
          ReadOpen([Node("for", x, how) EXCEPT !.epoch = y], inner, changes, path)
    BY <1>3 DEF ParseFor
  <2> QED BY <2>2, <2>3, DefaultsOpen
<1>4. ASSUME NEW x, NEW kind \in {"update", "address"}, NEW how, ParseExpression(kind, x, how)
      PROVE  OneDefault(ast')
  BY <1>4, OrdinaryNode, DefaultsLeaf DEF ParseExpression
<1>5. ASSUME NEW kind, ParseForDeclaration(kind) PROVE OneDefault(ast')
  BY <1>0, <1>5 DEF ParseForDeclaration, Reject, parseVars
<1>6. ASSUME NEW kind \in {"break", "continue"}, ParseJump(kind) PROVE OneDefault(ast')
  <2>1. ReadLeaf(Node(kind, "", "")) \/ ast' = ast
    BY <1>6 DEF ParseJump, Reject, parseVars
  <2>2. Ordinary(Node(kind, "", ""))  BY OrdinaryNode
  <2> QED BY <1>0, <2>1, <2>2, DefaultsLeaf
<1>7. ASSUME NEW l, ParseLabel(l) \/ ParseGoto(l) PROVE OneDefault(ast')
  <2>1. Ordinary(Node("label", l, "")) /\ Ordinary(Node("goto", l, ""))  BY OrdinaryNode
  <2>2. \/ ReadLeaf(Node("goto", l, ""))
        \/ \E inner, changes, path : ReadOpen(Node("label", l, ""), inner, changes, path)
    BY <1>7 DEF ParseLabel, ParseGoto
  <2> QED BY <2>1, <2>2, DefaultsLeaf, DefaultsOpen
<1>8. ASSUME NEW kind \in {"while", "do"}, ParseLoop(kind) PROVE OneDefault(ast')
  <2>1. \E inner, changes, path : ReadOpen(Node(kind, "", ""), inner, changes, path)
    BY <1>8 DEF ParseLoop
  <2>2. Ordinary(Node(kind, "", ""))  BY OrdinaryNode
  <2> QED BY <2>1, <2>2, DefaultsOpen
<1>9. ASSUME NEW kind \in LoopKinds, ParseLoopEnd(kind) PROVE OneDefault(ast')
  <2>1. LoopEnd[kind] # "default"  BY DEF LoopEnd, LoopKinds
  <2>2. PICK e : e = End(LoopEnd[kind], Front(within)) /\ Ordinary(e)  BY <2>1, OrdinaryNode
  <2>3. \E changes, path : ReadEnd(<<e>>, changes, path)  BY <1>9, <2>2 DEF ParseLoopEnd
  <2> QED BY <2>2, <2>3, DefaultsEnd
<1>10. ASSUME ParseBlock \/ ParseIf \/ ParseSwitch PROVE OneDefault(ast')
  <2>1. \/ ast' = ast
        \/ \E kind \in {"block", "if", "switch"} : \E inner, changes, path :
             ReadOpen(Node(kind, "", ""), inner, changes, path)
    BY <1>10 DEF ParseBlock, ParseIf, ParseSwitch, Reject, parseVars
  <2>2. \A kind \in {"block", "if", "switch"} : Ordinary(Node(kind, "", ""))  BY OrdinaryNode
  <2> QED BY <1>0, <2>1, <2>2, DefaultsOpen
<1>11. ASSUME ParseReturn PROVE OneDefault(ast')
  BY <1>11, OrdinaryNode, DefaultsLeaf DEF ParseReturn
<1>12. ASSUME ParseElse PROVE OneDefault(ast')
  BY <1>12, OrdinaryNode, OrdinaryAdds DEF ParseElse
<1>13. ASSUME ParseBlockEnd \/ ParseIfEnd PROVE OneDefault(ast')
  <2>1. PICK e : /\ Ordinary(e) /\ \E changes, path : ReadEnd(<<e>>, changes, path)
    <3>1. CASE ParseBlockEnd
      <4>1. PICK e : e = End("endblock", Front(within)) /\ Ordinary(e)  BY OrdinaryNode
      <4> QED BY <3>1, <4>1 DEF ParseBlockEnd
    <3>2. CASE ParseIfEnd
      <4>1. PICK e : e = Node("endif", "", "") /\ Ordinary(e)  BY OrdinaryNode
      <4> QED BY <3>2, <4>1 DEF ParseIfEnd
    <3> QED BY <1>13, <3>1, <3>2
  <2> QED BY <2>1, DefaultsEnd
<1> QED
  BY <1>1, <1>2, <1>3, <1>4, <1>5, <1>6, <1>7, <1>8, <1>9, <1>10, <1>11, <1>12, <1>13,
     DefaultsCase, DefaultsSwitchEnd
  DEF Parse, ParseDeclaration

-----------------------------------------------------------------------------
(* A parsed program, nothing emitted yet                                     *)
\* What the generator works on before it starts.
Unemitted ==
  /\ Untouched
  /\ code = <<>> /\ breaks = <<>> /\ loops = <<>>
  /\ breakPatches = <<>> /\ continuePatches = <<>> /\ gotoPatches = <<>>
  /\ labels = [l \in Labels |-> 0]

LEMMA ParsedWhole ==
  ASSUME ParseOK, expect = <<>>
  PROVE  \E st : Complete(st)
<1>1. PICK st, q : Parses(ast, st, q, expect, within, parser.depth, parser.loops)  BY DEF ParseOK
<1>2. TreeOK(ast, st) /\ Len(ast) \in Nat /\ Len(ast) # 0 /\ Open(ast, st) = st[Len(ast)]
  BY <1>1, ParsesShape DEF Parses
<1>3. q \in Seq(Nat) /\ Len(q) = 1 /\ q[Len(q)] = 0 /\ q[1] = Len(Open(ast, st))
  <2>1. Len(expect) = 0  OBVIOUS
  <2>2. q \in Seq(Nat) /\ Len(q) = Len(expect) + 1 /\ q[Len(q)] = 0 /\ q[1] = Len(Open(ast, st))
    BY <1>1 DEF Parses, Hangs
  <2> QED BY <2>1, <2>2
<1>4. Level(st, Len(ast)) = 0  BY <1>2, <1>3 DEF Level, Stack
<1> QED BY <1>2, <1>4 DEF Complete

LEMMA TablingStarts ==
  ASSUME Unemitted, NEW st, TreeOK(ast, st)
  PROVE  Tabling(ast, st, 0, frames, symbols)
<1>3. frames = <<>>  BY DEF Unemitted, Untouched
<1> DEFINE L == Len(Parameters)
           Entry(x) == [name |-> x, kind |-> "int", backed |-> 0, owns |-> 0,
                       scope |-> 1, epoch |-> 0, source |-> 0, node |-> 0]
<1>4. L \in Nat /\ DOMAIN Parameters = 1..L /\ \A i \in 1..L : Parameters[i] \in Variable
  <2>1. Parameters \in Seq(ToSet(Parameters))  BY CapacityAssumption
  <2> QED BY <2>1 DEF Variable
<1>5. DOMAIN symbols = 1..L /\ \A i \in 1..L : symbols[i] = Entry(Parameters[i])
  BY <1>4 DEF Unemitted, Untouched
<1>6. ASSUME NEW x \in Variable
      PROVE  Entry(x) \in SymbolType /\ Entry(x).node = 0
  BY DEF SymbolType, Declarations
<1>7. L <= MaxLocals  BY CapacityAssumption
<1>8. symbols = [i \in 1..L |-> symbols[i]]  BY <1>4 DEF Unemitted, Untouched
<1> HIDE DEF Entry, L
<1>9. symbols \in Seq(SymbolType) /\ Len(symbols) = L
  <2>2. PICK T : T = SymbolType  OBVIOUS
  <2>3. \A i \in 1..L : symbols[i] \in T  BY <1>4, <1>5, <1>6, <2>2
  <2>4. symbols \in [1..L -> T]  BY <1>8, <2>3
  <2>5. symbols \in Seq(T) /\ Len(symbols) = L  BY <1>4, <2>4
  <2> QED BY <2>2, <2>5
<1>10. \A i \in 1..Len(symbols) : symbols[i].node \in 0..0
  BY <1>4, <1>5, <1>6, <1>9
<1>11. Framed(ast, Stack(st, 0), frames, symbols)
  <2>1. Stack(st, 0) = <<>> /\ Len(<<>>) = 0 /\ 1..0 = {}  BY DEF Stack
  <2>2. List(frames)  BY <1>3 DEF List
  <2> QED BY <1>3, <2>1, <2>2 DEF Framed
<1> QED BY <1>7, <1>9, <1>10, <1>11 DEF Tabling

LEMMA ContextStarts ==
  ASSUME NEW st, NEW K, NEW kind
  PROVE  Context(ast, st, <<>>, 0, K, kind, <<>>, <<>>)
<1>1. On(ast, st, 0, K) = {}  BY DEF On, Stack, ToSet
<1>2. PICK z : z = <<>>  OBVIOUS
<1>3. Len(z) = 0 /\ 1..Len(z) = {} /\ DOMAIN z = {} /\ ToSet(z) = {}
      /\ z \in Seq(ContextType) /\ z \in Seq(Nat) /\ z \in Seq(1..0)
  BY <1>2 DEF ToSet
<1>4. Marks(z, z)  BY <1>3 DEF Marks
<1>5. Opening(0, {}, z, z)  BY <1>3 DEF Opening, Rising
<1>6. Contexts(ast, st, 0, {}, z, K, kind, z, z)  BY <1>3, <1>4, <1>5 DEF Contexts
<1> QED BY <1>1, <1>2, <1>6 DEF Context

LEMMA PatchedStarts ==
  ASSUME Unemitted, NEW st, TreeOK(ast, st)
  PROVE  Patched(ast, st, 0, code, frames, breaks, loops, breakPatches, continuePatches,
                 gotoPatches, labels)
<1>1. /\ code = <<>> /\ breaks = <<>> /\ loops = <<>> /\ frames = <<>>
      /\ breakPatches = <<>> /\ continuePatches = <<>> /\ gotoPatches = <<>>
      /\ labels = [l \in Labels |-> 0]
  BY DEF Unemitted, Untouched
<1>2. PICK z : z = <<>>  OBVIOUS
<1>3. Len(z) = 0 /\ 1..Len(z) = {} /\ DOMAIN z = {}
      /\ z \in Seq(Instruction) /\ z \in Seq(FrameType) /\ z \in Seq(Nat \X Labels)
  BY <1>2
<1>4. Coded(z, 0) /\ OneBack(ast, z) /\ Going(ast, z, z)
  BY <1>3 DEF Coded, OneBack, Going
<1>5. Labelled(ast, z, 0, labels)
  <2>1. labels \in [Labels -> Nat] /\ \A l \in Labels : labels[l] = 0  BY <1>1
  <2>2. 1..0 = {}  OBVIOUS
  <2> QED BY <2>1, <2>2 DEF Labelled
<1>6. Linked(ast, st, z, 0, z, z, z, z, z, labels)
  BY <1>2, <1>4, <1>5, ContextStarts DEF Linked
<1>7. Stack(st, 0) = z  BY <1>2 DEF Stack
<1>8. Frames(ast, st, z, 0, z, z)  BY <1>3 DEF Frames
<1>9. Placed(ast, st, z, 0, z, z, z, z, labels)  BY <1>3 DEF Placed
<1> QED BY <1>1, <1>2, <1>6, <1>7, <1>8, <1>9 DEF Patched

\* A parsed program, nothing emitted yet.
LEMMA JumpStarts ==
  ASSUME ParseOK, Unemitted, expect = <<>>, OneDefault(ast), OneLabel(ast)
  PROVE  \E st : JumpOK(st)
<1>1. PICK st : Complete(st)  BY ParsedWhole
<1>2. TreeOK(ast, st)  BY <1>1 DEF Complete
<1>3. at = 1 /\ scope = 0 /\ at - 1 = 0  BY DEF Unemitted, Untouched
<1>4. Len(ast) \in Nat  BY <1>2 DEF TreeOK
<1>5. at \in 1..Len(ast) + 1 /\ scope \in Int  BY <1>3, <1>4
<1>6. /\ Tabling(ast, st, at - 1, frames, symbols)
      /\ Patched(ast, st, at - 1, code, frames, breaks, loops, breakPatches, continuePatches,
                 gotoPatches, labels)
  BY <1>2, <1>3, TablingStarts, PatchedStarts
<1> QED BY <1>1, <1>5, <1>6 DEF JumpOK

-----------------------------------------------------------------------------
(* The invariant, and what it says of the finished code                      *)
Landing ==
  /\ ParseOK
  /\ phase = "parse" => Unemitted /\ OneDefault(ast)
  /\ phase = "emit" => \E st : JumpOK(st)

LEMMA LandingStarts ==
  ASSUME Init
  PROVE  Landing
<1>1. ParseOK  BY ParserStarts
<1>2. Unemitted /\ phase = "parse"  BY DEF Init, Untouched, Unemitted
<1>3. OneDefault(ast)
  <2>1. PICK e : e = [kind |-> "block", name |-> "", how |-> "", depth |-> 0, epoch |-> 0,
                      within |-> <<>>]
    OBVIOUS
  <2>4. ast = <<e>> /\ e.kind = "block"  BY <2>1 DEF Init
  <2>2. Len(ast) = 1 /\ ast[1].kind = "block"  BY <2>4
  <2>3. \A k \in 1..Len(ast) : k = 1  BY <2>2
  <2> QED BY <2>2, <2>3 DEF OneDefault
<1> QED BY <1>1, <1>2, <1>3 DEF Landing

LEMMA LabelsCollected ==
  ASSUME ast \in Seq(NodeType), CollectLabels, phase' = "emit"
  PROVE  OneLabel(ast)
<1>1. ~\E j, k \in DOMAIN ast : /\ j < k /\ ast[j].kind = "label"
                                /\ ast[k].kind = "label" /\ ast[j].name = ast[k].name
  BY DEF CollectLabels
<1>2. DOMAIN ast = 1..Len(ast) /\ Len(ast) \in Nat  OBVIOUS
<1>3. ASSUME NEW k \in 1..Len(ast), NEW l \in 1..Len(ast),
             ast[k].kind = "label", ast[l].kind = "label", ast[k].name = ast[l].name
      PROVE  k = l
  <2>1. ~(k < l) /\ ~(l < k)  BY <1>1, <1>2, <1>3
  <2> QED BY <1>2, <2>1
<1> QED BY <1>3 DEF OneLabel

LEMMA LandingKeeps ==
  ASSUME Landing, [Next]_vars
  PROVE  Landing'
<1>0. ast \in Seq(NodeType)  BY DEF Landing, ParseOK, Parses, TreeOK
<1>1. CASE UNCHANGED vars
  <2>1. UNCHANGED <<phase, ast, expect, parser, within, at, frames, symbols, scope, code, breaks,
                    loops, breakPatches, continuePatches, gotoPatches, labels>>
    BY <1>1 DEF vars, parseVars, emitVars, patchVars
  <2>2. ParseOK'  BY <2>1 DEF ParseOK, Landing
  <2>3. Unemitted => Unemitted'  BY <2>1 DEF Unemitted, Untouched
  <2>4. OneDefault(ast) => OneDefault(ast)'  BY <2>1
  <2>5. ASSUME NEW st, JumpOK(st) PROVE JumpOK(st)'  BY <2>1, <2>5 DEF JumpOK, Complete
  <2> QED BY <2>1, <2>2, <2>3, <2>4, <2>5 DEF Landing
<1>2. CASE Next
  <2>1. ParseOK'  BY <1>2, ParserKeeps DEF Landing
  <2>2. CASE Parse
    <3>1. phase = "parse" /\ phase' \in {"parse", "rejected"} /\ UNCHANGED emitVars
      BY <2>2, ZenonT(30) DEF Parse, ParseDeclaration, ParseStatic, Declare, ParseFor, ParseExpression,
        ParseForDeclaration, ParseBlock, ParseIf, ParseSwitch, ParseReturn, ParseJump, ParseLabel,
        ParseGoto, ParseCase, ParseLoop, ParseLoopEnd, ParseBlockEnd, ParseSwitchEnd, ParseElse,
        ParseIfEnd, MayRead, Expected, ReadLeaf, ReadOpen, ReadEnd, Reject
    <3>2. OneDefault(ast)'  BY <1>0, <2>2, <3>1, DefaultsKept DEF Landing
    <3>3. UNCHANGED <<at, frames, symbols, scope, code, breaks, loops, breakPatches,
                      continuePatches, gotoPatches, labels>>
      BY <3>1 DEF emitVars, patchVars
    <3>4. Unemitted'  BY <3>1, <3>3 DEF Landing, Unemitted, Untouched
    <3> QED BY <2>1, <3>1, <3>2, <3>4, SMTT(30) DEF Landing
  <2>3. CASE CollectLabels
    <3>1. /\ phase = "parse" /\ phase' \in {"emit", "rejected"} /\ expect = <<>>
          /\ UNCHANGED <<ast, at, frames, symbols, scope, code, breaks, loops, breakPatches,
                         continuePatches, gotoPatches, labels>>
      BY <2>3 DEF CollectLabels, parseVars, emitVars, patchVars
    <3>2. ASSUME phase' = "emit" PROVE \E st : JumpOK(st)'
      <4>1. OneLabel(ast)  BY <1>0, <2>3, <3>2, LabelsCollected
      <4>2. PICK st : JumpOK(st)  BY <3>1, <4>1, JumpStarts DEF Landing
      <4>3. JumpOK(st)'  BY <3>1, <4>2 DEF JumpOK, Complete
      <4> QED BY <4>3
    <3> QED BY <2>1, <3>1, <3>2 DEF Landing
  <2>4. CASE Emit /\ ~CollectLabels
    <3>1. phase = "emit"
      BY <2>4, ZenonT(30) DEF Emit, EmitBlock, EmitBlockEnd, EmitDeclaration, RefuseDeclaration,
        EmitExpression, RefuseExpression, EmitIf, EmitElse, EmitIfEnd, EmitWhile, EmitWhileEnd,
        EmitDo, EmitDoEnd, EmitFor, EmitForEnd, RefuseLoop, EmitSwitch, RefuseSwitch, EmitCase,
        EmitSwitchEnd, EmitBreak, EmitContinue, RefuseJump, EmitLabel, EmitGoto, RefuseGoto,
        EmitReturn, EmitFunctionEnd, Emitting, Refusing
    <3>2. phase' # "parse"
      BY <2>4, <3>1, ZenonT(30) DEF Emit, EmitBlock, EmitBlockEnd, EmitDeclaration, RefuseDeclaration,
        EmitExpression, RefuseExpression, EmitIf, EmitElse, EmitIfEnd, EmitWhile, EmitWhileEnd,
        EmitDo, EmitDoEnd, EmitFor, EmitForEnd, RefuseLoop, EmitSwitch, RefuseSwitch, EmitCase,
        EmitSwitchEnd, EmitBreak, EmitContinue, RefuseJump, EmitLabel, EmitGoto, RefuseGoto,
        EmitReturn, EmitFunctionEnd, Emitting, Refusing, Refuse
    <3>3. PICK st : JumpOK(st)  BY <3>1 DEF Landing
    <3>4. phase' = "emit" => JumpOK(st)'  BY <2>4, <3>1, <3>3, JumpEmitKeeps
    <3> QED BY <2>1, <3>2, <3>4, SMTT(30) DEF Landing
  <2>5. CASE Run
    <3>1. phase = "run" /\ phase' \in {"run", "faulted", "returned"}
      BY <2>5 DEF Run, RunAlloc, RunSet, RunPromote, RunFree, RunTake, RunUpdate, RunSave, RunRestore,
        RunJump, RunReturn, Running, Advance, Fault
    <3> QED BY <2>1, <3>1 DEF Landing
  <2>6. CASE Done  BY <1>1, <2>6 DEF Done
  <2> QED BY <1>2, <2>2, <2>3, <2>4, <2>5, <2>6 DEF Next
<1> QED BY <1>1, <1>2

\* Behind the last node nothing is open, so that no list holds a jump.
LEMMA NothingOpen ==
  ASSUME NEW st, Complete(st)
  PROVE  /\ Len(ast) \in Nat /\ Len(Stack(st, Len(ast))) = 0
         /\ ToSet(Stack(st, Len(ast))) = {} /\ \A K : On(ast, st, Len(ast), K) = {}
<1>1. TreeOK(ast, st) /\ Level(st, Len(ast)) = 0  BY DEF Complete
<1>2. Len(ast) \in Nat /\ Len(ast) >= 1  BY <1>1 DEF TreeOK
<1>3. PICK s : s = Stack(st, Len(ast))  OBVIOUS
<1>4. s \in Seq(1..Len(ast))  BY <1>1, <1>2, <1>3, TreeShape
<1>5. Len(s) = 0  BY <1>1, <1>3 DEF Level
<1>6. DOMAIN s = {}  BY <1>4, <1>5
<1>7. ToSet(s) = {}  BY <1>6 DEF ToSet
<1> QED BY <1>2, <1>3, <1>5, <1>7 DEF On

LEMMA NoneListed ==
  ASSUME NEW st, Complete(st), NEW K, NEW kind, NEW ctx, NEW list, NEW i,
         Context(ast, st, code, Len(ast), K, kind, ctx, list)
  PROVE  ~Listed(list, i)
<1>1. PICK n, S : n = Len(ast) /\ S = On(ast, st, n, K)  OBVIOUS
<1>2. S = {}  BY <1>1, NothingOpen
<1>3. Contexts(ast, st, n, S, code, K, kind, ctx, list)  BY <1>1 DEF Context
<1>4. PICK bs : \A k \in 1..Len(list) : Held(ast, st, code, K, kind, S, ctx, bs, list[k], k)
  BY <1>3 DEF Contexts
<1>5. ASSUME NEW k \in 1..Len(list) PROVE FALSE
  BY <1>2, <1>4 DEF Held
<1> QED BY <1>5 DEF Listed

LEMMA AllLand ==
  ASSUME NEW st, JumpOK(st), at = Len(ast) + 1, NEW i \in 1..Len(code),
         code[i].op \in {"jump", "branch"}
  PROVE  Lands(ast, st, code, Len(ast), i)
<1>1. PICK n, x : n = Len(ast) /\ x = code[i].node  OBVIOUS
<1>2. Complete(st) /\ n \in Nat /\ at - 1 = n /\ Len(Stack(st, n)) = 0 /\ ToSet(Stack(st, n)) = {}
  <2>1. Complete(st)  BY DEF JumpOK
  <2>2. n \in Nat /\ Len(Stack(st, n)) = 0 /\ ToSet(Stack(st, n)) = {}  BY <1>1, <2>1, NothingOpen
  <2> QED BY <1>1, <2>1, <2>2
<1>3. Patched(ast, st, n, code, frames, breaks, loops, breakPatches, continuePatches, gotoPatches,
              labels)
  BY <1>2 DEF JumpOK
<1>4. /\ Linked(ast, st, code, n, breaks, loops, breakPatches, continuePatches, gotoPatches, labels)
      /\ Frames(ast, st, code, n, Stack(st, n), frames)
      /\ Placed(ast, st, code, n, frames, breakPatches, continuePatches, gotoPatches, labels)
  BY <1>3 DEF Patched
<1>5. \A s : ~FrameWait(s, frames, x, i)
  <2>1. Len(frames) = 0  BY <1>2, <1>4 DEF Frames
  <2> QED BY <2>1 DEF FrameWait
<1>6. ~CaseWait(ast, st, code, n, x, i)  BY <1>2 DEF CaseWait
<1>7. ~Listed(breakPatches, i) /\ ~Listed(continuePatches, i)
  <2>1. /\ Context(ast, st, code, n, Breakable, "break", breaks, breakPatches)
        /\ Context(ast, st, code, n, LoopKinds, "continue", loops, continuePatches)
    BY <1>4 DEF Linked
  <2> QED BY <1>1, <1>2, <2>1, NoneListed
<1>8. ASSUME NEW l, GotoWait(ast, gotoPatches, labels, l, i) PROVE FALSE
  <2>1. Labelled(ast, code, n, labels) /\ Going(ast, code, gotoPatches)  BY <1>4 DEF Linked
  <2>2. PICK k \in 1..Len(gotoPatches) : gotoPatches[k] = <<i, l>>  BY <1>8 DEF GotoWait
  <2>3. gotoPatches \in Seq(Nat \X Labels)  BY <2>1 DEF Going
  <2>4. gotoPatches[k] \in Nat \X Labels  BY <2>3
  <2>5. l \in Labels  BY <2>2, <2>4
  <2>6. labels[l] = 0 /\ \E j \in 1..n : IsLabel(ast, j, l)
    BY <1>1, <1>8 DEF GotoWait, IsLabel
  <2>7. PICK j \in 1..n : IsLabel(ast, j, l) /\ labels[l] = CodeAt(code, j)
    BY <2>1, <2>5, <2>6 DEF Labelled
  <2>8. CodeAt(code, j) >= 1 /\ CodeAt(code, j) \in Nat
    <3>1. Coded(code, n)  BY <1>4 DEF Linked
    <3> QED BY <1>2, <3>1, CodeLength
  <2> QED BY <2>6, <2>7, <2>8
<1>9. Lands(ast, st, code, n, i)
      \/ Waiting(ast, st, code, n, frames, breakPatches, continuePatches, gotoPatches, labels, i)
  BY <1>4 DEF Placed
<1>10. ~Waiting(ast, st, code, n, frames, breakPatches, continuePatches, gotoPatches, labels, i)
  BY <1>1, <1>5, <1>6, <1>7, <1>8 DEF Waiting
<1> QED BY <1>1, <1>9, <1>10

LEMMA LandingLands ==
  ASSUME Landing
  PROVE  JumpsLand
<1> SUFFICES ASSUME Emitted, NEW i \in DOMAIN code, code[i].op \in {"jump", "branch"}
             PROVE  code[i].to = Destination(i)
  BY DEF JumpsLand
<1>1. PICK st : JumpOK(st)  BY DEF Landing, Emitted
<1>2. Len(ast) \in Nat /\ at = Len(ast) + 1
  <2>1. Complete(st) /\ at \in 1..Len(ast) + 1  BY <1>1 DEF JumpOK
  <2>2. Len(ast) \in Nat  BY <2>1 DEF Complete, TreeOK
  <2> QED BY <2>1, <2>2 DEF Emitted
<1>3. Generated(st)
  <2>1. at - 1 = Len(ast)  BY <1>2
  <2>2. Complete(st) /\ OneDefault(ast) /\ OneLabel(ast)  BY <1>1 DEF JumpOK
  <2>3. Coded(code, Len(ast)) /\ OneBack(ast, code)
    BY <1>1, <2>1 DEF JumpOK, Patched, Linked
  <2> QED BY <2>2, <2>3 DEF Generated
<1>4. i \in 1..Len(code)  BY <1>3 DEF Generated, Coded
<1>5. Lands(ast, st, code, Len(ast), i)  BY <1>1, <1>2, <1>4, AllLand
<1> QED BY <1>3, <1>4, <1>5, Arrives

(* Every jump and branch of the finished code goes where C sends the         *)
(* statement it stands for, in every program and for every capacity: what is *)
(* still to be patched is in the list of the construct that will patch it,   *)
(* and behind the last node nothing is (nc_patch_jump_list_from,             *)
(* nc_finish_loop, nc_finish_break, nc_emit_label, nc_emit_statement).       *)
THEOREM JumpsReachTheirTargets == Spec => []JumpsLand
<1>1. Init => Landing  BY LandingStarts
<1>2. Landing /\ [Next]_vars => Landing'  BY LandingKeeps
<1>3. Landing => JumpsLand  BY LandingLands
<1> QED BY <1>1, <1>2, <1>3, PTL DEF Spec
=============================================================================
