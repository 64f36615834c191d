------------------------ MODULE NovaStatementsProofs ------------------------
(***************************************************************************)
(* Proofs about NovaStatements.  First the parser: what nc_parse_statement  *)
(* and nc_parse_block keep while they read a function; then, on top of it,  *)
(* what the code generator binds the names to, and what it keeps about the  *)
(* targets of its jumps, which NovaStatementsJumpsProofs carries through    *)
(* its steps.  The recursion of the parser is the sequence expect; the tree *)
(* is ast, whose nodes name their enclosing constructs in `within`.  The    *)
(* invariant ParseOK joins three views of the same nesting: the stack of    *)
(* the constructs that are open behind each node (TreeOK), the items of     *)
(* expect, which own it from the bottom to the top (Hangs), and the         *)
(* counters block_depth and loop_depth, which count it (Parses).            *)
(***************************************************************************)
EXTENDS NovaStatements, FiniteSetTheorems, SequenceTheorems, WellFoundedInduction, TLAPS

Leaves == Declarations \cup {"update", "address", "return", "goto", "break", "continue", "label"}
Kinds == Leaves \cup LoopKinds \cup
  {"block", "if", "else", "switch", "case", "default", "endblock", "endcase", "endif",
   "endwhile", "enddo", "endfor", "endswitch"}
Hows == {"", "none", "object", "int", "static", "statement", "argument", "operand"}
Variable == Names \cup ToSet(Parameters)
NodeNames == Variable \cup Labels \cup {""}
NodeType == [kind : Kinds, name : NodeNames, how : Hows,
             depth : Nat, epoch : Nat, within : Seq(Nat)]

(* The constructs that are open behind node n, by the paths of the nodes.    *)
Scoped == LoopKinds \cup {"block", "switch", "case", "default"}
Scopes == {"block", "case", "default", "for"}
Breakable == LoopKinds \cup {"switch"}
Path(t, n) == IF n = 0 THEN <<>>
              ELSE IF t[n].kind \in Scoped THEN Append(t[n].within, n) ELSE t[n].within

(* All constructs that are open, ifs included: a stack for each node.        *)
Stack(st, n) == IF n = 0 THEN <<>> ELSE st[n]
Closes(kind) == CASE kind = "endblock" -> {"block"} [] kind = "endcase" -> {"case", "default"}
                  [] kind = "endif" -> {"if", "else"} [] kind = "endwhile" -> {"while"}
                  [] kind = "enddo" -> {"do"} [] kind = "endfor" -> {"for"}
                  [] kind = "endswitch" -> {"switch"} [] OTHER -> {}

TopIn(t, s, kinds) == s # <<>> /\ t[Last(s)].kind \in kinds
Holding(t, s, kinds) == \E j \in DOMAIN s : t[s[j]].kind \in kinds
Ends == {"endblock", "endcase", "endif", "endwhile", "enddo", "endfor", "endswitch"}

(* Node e, the n-th, changes stack s to x; its path follows from the path before. *)
Joins(t, s, path, e, n, x) ==
  /\ e.kind \in Scoped \cup {"if"} => x = Append(s, n)
  /\ e.kind = "else" => TopIn(t, s, {"if"}) /\ x = Append(Front(s), n)
  /\ e.kind \in Ends => TopIn(t, s, Closes(e.kind)) /\ x = Front(s)
  /\ e.kind \in Leaves => x = s
  /\ e.within = IF e.kind \in Ends \ {"endif"} THEN Front(path) ELSE path

(* What a node may stand for depends on what is open.                        *)
Suits(t, s, e) ==
  /\ e.kind \in {"case", "default"} => TopIn(t, s, {"switch"})
  /\ e.kind = "break" => Holding(t, s, Breakable)
  /\ e.kind = "continue" => Holding(t, s, LoopKinds)
  /\ e.kind \in Declarations => e.name \in Names
  /\ e.kind \in {"update", "address"} => e.name \in Variable
  /\ e.kind \in {"goto", "label"} => e.name \in Labels
  /\ e.kind = "for" => IF e.how = "none" THEN e.name = ""
                       ELSE e.how \in {"object", "int"} /\ e.name \in Names
  /\ e.kind \in Declarations /\ Disciplined = 1 => TopIn(t, s, {"block", "case", "default"})

NodeOK(t, st, n) ==
  /\ Joins(t, Stack(st, n - 1), Path(t, n - 1), t[n], n, st[n])
  /\ Suits(t, Stack(st, n - 1), t[n])

Rising(s) == \A i, j \in DOMAIN s : i < j => s[i] < s[j]
Stacked(t, st, n) ==
  /\ st[n] \in Seq(1..n) /\ Rising(st[n])
  /\ Path(t, n) \in Seq(1..n) /\ Rising(Path(t, n))
  /\ ToSet(Path(t, n)) = {k \in ToSet(st[n]) : t[k].kind \in Scoped}

(* The provers expand these only where a proof names them.                   *)
Grows(a, s, x) == a = Append(s, x)
Leads(a, x, s) == a = <<x>> \o s
Drops(a, s) == a = Tail(s)
Remains(a, ex) == a = IF Head(ex) = "stmt" THEN Tail(ex) ELSE ex
Behind(e, n) == IF e.kind \in Scoped THEN Append(e.within, n) ELSE e.within

(* What is open behind n and began before m was open behind m.               *)
Lasts(t, m, n) ==
  \A j \in DOMAIN Path(t, n) : Path(t, n)[j] <= m =>
    j \in DOMAIN Path(t, m) /\ Path(t, m)[j] = Path(t, n)[j]

TreeOK(t, st) ==
  /\ t \in Seq(NodeType) /\ st \in Seq(Seq(Nat)) /\ Len(st) = Len(t) /\ Len(t) >= 1
  /\ \A n \in 1..Len(t) : NodeOK(t, st, n) /\ Stacked(t, st, n)
  /\ \A n \in 1..Len(t) : \A m \in 1..n : Lasts(t, m, n)

(* How many constructs of some kinds are open.                               *)
Count(t, s, kinds) == Cardinality({j \in DOMAIN s : t[s[j]].kind \in kinds})

(* The parser: q says how much of the stack belongs to the items of expect   *)
(* from the j-th on.                                                         *)
Items == {"stmt", "list", "case", "switch", "else?", "endif", "endwhile", "enddo", "endfor"}
Awaits(item) == CASE item = "list" -> {"block"} [] item = "case" -> {"case", "default"}
                  [] item = "switch" -> {"switch"} [] item = "else?" -> {"if"}
                  [] item = "endif" -> {"else"} [] item = "endwhile" -> {"while"}
                  [] item = "enddo" -> {"do"} [] item = "endfor" -> {"for"} [] OTHER -> {}
Span(item) == CASE item = "stmt" -> 0 [] item = "case" -> 2 [] OTHER -> 1
Belongs(t, s, item, top, rest) ==
  /\ top = rest + Span(item)
  /\ item # "stmt" => t[s[top]].kind \in Awaits(item)
  /\ item = "case" => t[s[top - 1]].kind = "switch"

Hangs(t, s, ex, q) ==
  /\ ex \in Seq(Items) /\ q \in Seq(Nat) /\ Len(q) = Len(ex) + 1
  /\ q[1] <= Len(s) /\ q[Len(q)] = 0
  /\ \A i, j \in DOMAIN q : i <= j => q[j] <= q[i]
  /\ \A j \in DOMAIN ex : Belongs(t, s, ex[j], q[j], q[j + 1])

ParserType == [depth : 0..MaxScopeDepth, epoch : Nat, loops : Nat, noElse : {0, 1}, room : Int]

Open(t, st) == st[Len(t)]
Parses(t, st, q, ex, path, depth, repeats) ==
  /\ TreeOK(t, st) /\ path = Path(t, Len(t))
  /\ Hangs(t, Open(t, st), ex, q) /\ q[1] = Len(Open(t, st))
  /\ depth = Count(t, Open(t, st), {"block"})
  /\ repeats = Count(t, Open(t, st), LoopKinds)

ParseOK ==
  /\ parser \in ParserType
  /\ \E st, q : Parses(ast, st, q, expect, within, parser.depth, parser.loops)

-----------------------------------------------------------------------------
(* Sequences *)

LEMMA FrontOf ==
  ASSUME NEW S, NEW s \in Seq(S), s # <<>>
  PROVE  /\ Front(s) \in Seq(S) /\ Len(Front(s)) = Len(s) - 1 /\ Len(s) \in Nat /\ Len(s) >= 1
         /\ DOMAIN Front(s) = 1..Len(s) - 1 /\ DOMAIN s = 1..Len(s)
         /\ \A i \in 1..Len(s) - 1 : Front(s)[i] = s[i]
         /\ Last(s) = s[Len(s)] /\ Last(s) \in S
         /\ s = Append(Front(s), Last(s))
<1>1. Len(s) \in Nat /\ Len(s) >= 1 /\ DOMAIN s = 1..Len(s)  BY EmptySeq
<1>2. /\ Front(s) \in Seq(S) /\ Len(Front(s)) = Len(s) - 1
      /\ \A i \in 1..Len(s) - 1 : Front(s)[i] = s[i]
  <2>1. 1 \in 1..Len(s) + 1 /\ Len(s) - 1 \in 0..Len(s)  BY <1>1
  <2>2. /\ SubSeq(s, 1, Len(s) - 1) \in Seq(S)
        /\ Len(SubSeq(s, 1, Len(s) - 1)) = Len(s) - 1
        /\ \A i \in 1..Len(s) - 1 : SubSeq(s, 1, Len(s) - 1)[i] = s[i]
    BY <1>1, <2>1, SubSeqProperties
  <2> QED BY <2>2 DEF Front
<1>3. DOMAIN Front(s) = 1..Len(s) - 1  BY <1>2
<1>4. Last(s) = s[Len(s)] /\ s[Len(s)] \in S  BY <1>1 DEF Last
<1> DEFINE f == Front(s)
           x == Last(s)
<1>5. f \in Seq(S) /\ Len(f) = Len(s) - 1 /\ x = s[Len(s)] /\ x \in S
      /\ \A k \in 1..Len(s) - 1 : f[k] = s[k]
  BY <1>1, <1>2, <1>4
<1>6. s = Append(f, x)
  <2> HIDE DEF f, x
  <2>1. Append(f, x) \in Seq(S) /\ Len(Append(f, x)) = Len(s)
    <3>1. Append(f, x) \in Seq(S) /\ Len(Append(f, x)) = Len(f) + 1  BY <1>5
    <3> QED BY <1>1, <1>5, <3>1
  <2>2. ASSUME NEW i \in 1..Len(s) PROVE Append(f, x)[i] = s[i]
    <3>1. CASE i = Len(s)  BY <1>1, <1>5, <3>1
    <3>2. CASE i # Len(s)
      <4> DEFINE n == Len(s)
      <4>0. n \in Nat /\ i \in 1..n /\ i # n  BY <1>1, <3>2
      <4> HIDE DEF n
      <4>1. i \in 1..n - 1  BY <4>0
      <4> QED BY <1>1, <1>5, <4>1 DEF n
    <3> QED BY <3>1, <3>2
  <2> QED BY <1>1, <2>1, <2>2, SeqEqual
<1> QED BY <1>1, <1>2, <1>3, <1>4, <1>6

(* Stacks grow at their end.                                                 *)
LEMMA Pushed ==
  ASSUME NEW S, NEW s \in Seq(S), NEW x \in S
  PROVE  /\ Append(s, x) \in Seq(S) /\ Len(Append(s, x)) = Len(s) + 1 /\ Len(s) \in Nat
         /\ DOMAIN s = 1..Len(s) /\ DOMAIN Append(s, x) = 1..Len(s) + 1
         /\ \A i \in 1..Len(s) : Append(s, x)[i] = s[i]
         /\ Append(s, x)[Len(s) + 1] = x
         /\ Append(s, x) # <<>> /\ Last(Append(s, x)) = x /\ Front(Append(s, x)) = s
<1>1. /\ Append(s, x) \in Seq(S) /\ Len(Append(s, x)) = Len(s) + 1 /\ Len(s) \in Nat
      /\ \A i \in 1..Len(s) : Append(s, x)[i] = s[i]
      /\ Append(s, x)[Len(s) + 1] = x
  OBVIOUS
<1>2. DOMAIN s = 1..Len(s) /\ DOMAIN Append(s, x) = 1..Len(s) + 1  BY <1>1
<1>3. Append(s, x) # <<>>  BY <1>1, EmptySeq
<1>4. Front(Append(s, x)) = s
  <2>1. /\ Front(Append(s, x)) \in Seq(S) /\ Len(Front(Append(s, x))) = Len(s)
        /\ \A i \in 1..Len(s) : Front(Append(s, x))[i] = s[i]
    <3> DEFINE a == Append(s, x)
    <3>1. a \in Seq(S) /\ a # <<>> /\ Len(a) = Len(s) + 1 /\ \A i \in 1..Len(s) : a[i] = s[i]
      BY <1>1, <1>3
    <3> HIDE DEF a
    <3>2. /\ Front(a) \in Seq(S) /\ Len(Front(a)) = Len(a) - 1
          /\ \A i \in 1..Len(a) - 1 : Front(a)[i] = a[i]
      BY <3>1, FrontOf
    <3>3. Len(a) - 1 = Len(s)  BY <1>1, <3>1
    <3>4. /\ Front(a) \in Seq(S) /\ Len(Front(a)) = Len(s)
          /\ \A i \in 1..Len(s) : Front(a)[i] = s[i]
      BY <3>1, <3>2, <3>3
    <3> QED BY <3>4 DEF a
  <2> QED BY <2>1, SeqEqual
<1> QED BY <1>1, <1>2, <1>3, <1>4 DEF Last

-----------------------------------------------------------------------------
(* Counting what is open *)

LEMMA CountPush ==
  ASSUME NEW t, NEW s \in Seq(Nat), NEW x \in Nat, NEW K
  PROVE  /\ Count(t, s, K) \in Nat
         /\ Count(t, Append(s, x), K) = Count(t, s, K) + (IF t[x].kind \in K THEN 1 ELSE 0)
<1> DEFINE C == {j \in DOMAIN s : t[s[j]].kind \in K}
           D == {j \in DOMAIN Append(s, x) : t[Append(s, x)[j]].kind \in K}
<1>1. /\ Len(s) \in Nat /\ DOMAIN s = 1..Len(s) /\ DOMAIN Append(s, x) = 1..Len(s) + 1
      /\ \A i \in 1..Len(s) : Append(s, x)[i] = s[i]
      /\ Append(s, x)[Len(s) + 1] = x
  BY Pushed
<1>2. IsFiniteSet(C) /\ Cardinality(C) \in Nat
  <2>1. IsFiniteSet(1..Len(s))  BY <1>1, FS_Interval
  <2>2. IsFiniteSet(C)  BY <1>1, <2>1, FS_Subset
  <2> QED BY <2>2, FS_CardinalityType
<1>3. D = IF t[x].kind \in K THEN C \cup {Len(s) + 1} ELSE C
  BY <1>1
<1>4. Len(s) + 1 \notin C  BY <1>1
<1>5. Cardinality(C \cup {Len(s) + 1}) = Cardinality(C) + 1
  BY <1>2, <1>4, FS_AddElement
<1>6. Count(t, s, K) = Cardinality(C) /\ Count(t, Append(s, x), K) = Cardinality(D)
  BY DEF Count
<1> HIDE DEF C, D
<1> QED BY <1>2, <1>3, <1>5, <1>6

(* The same, for a stack that another stack grows to.                        *)
LEMMA GrowsTo ==
  ASSUME NEW S, NEW s \in Seq(S), NEW x \in S, NEW a, Grows(a, s, x)
  PROVE  /\ a \in Seq(S) /\ Len(a) = Len(s) + 1 /\ Len(s) \in Nat
         /\ DOMAIN s = 1..Len(s) /\ DOMAIN a = 1..Len(s) + 1
         /\ \A i \in 1..Len(s) : a[i] = s[i]
         /\ a[Len(s) + 1] = x
<1>1. a = Append(s, x)  BY DEF Grows
<1>2. /\ a \in Seq(S) /\ Len(a) = Len(s) + 1 /\ Len(s) \in Nat
      /\ \A i \in 1..Len(s) : a[i] = s[i]
      /\ a[Len(s) + 1] = x
  BY <1>1
<1> QED BY <1>2

NatGrows(a, s, x) == s \in Seq(Nat) /\ x \in Nat /\ Grows(a, s, x)

LEMMA NatGrowsTo ==
  ASSUME NEW s, NEW x, NEW a, NatGrows(a, s, x)
  PROVE  /\ a \in Seq(Nat) /\ Len(a) = Len(s) + 1 /\ Len(s) \in Nat
         /\ DOMAIN s = 1..Len(s) /\ DOMAIN a = 1..Len(s) + 1
         /\ \A i \in 1..Len(s) : a[i] = s[i]
         /\ a[Len(s) + 1] = x
         /\ \A t, K : Count(t, a, K) = Count(t, s, K) + (IF t[x].kind \in K THEN 1 ELSE 0)
<1> DEFINE N == Nat
<1>1. s \in Seq(N) /\ x \in N /\ Grows(a, s, x)  BY DEF NatGrows
<1>2. \A t, K : Count(t, a, K) = Count(t, s, K) + (IF t[x].kind \in K THEN 1 ELSE 0)
  BY <1>1, CountPush DEF Grows
<1> HIDE DEF N
<1>3. /\ a \in Seq(N) /\ Len(a) = Len(s) + 1 /\ Len(s) \in Nat
      /\ DOMAIN s = 1..Len(s) /\ DOMAIN a = 1..Len(s) + 1
      /\ \A i \in 1..Len(s) : a[i] = s[i]
      /\ a[Len(s) + 1] = x
  BY <1>1, GrowsTo
<1> QED BY <1>2, <1>3 DEF N

LEMMA CountPop ==
  ASSUME NEW t, NEW s \in Seq(Nat), s # <<>>, NEW K
  PROVE  /\ Count(t, Front(s), K) \in Nat /\ Count(t, s, K) \in Nat
         /\ Count(t, s, K) = Count(t, Front(s), K) + (IF t[Last(s)].kind \in K THEN 1 ELSE 0)
<1> DEFINE f == Front(s)
           x == Last(s)
<1>1. f \in Seq(Nat) /\ x \in Nat /\ s = Append(f, x)
  BY FrontOf
<1> HIDE DEF f, x
<1>2. /\ Count(t, f, K) \in Nat
      /\ Count(t, s, K) = Count(t, f, K) + (IF t[x].kind \in K THEN 1 ELSE 0)
  BY <1>1, CountPush
<1>3. Count(t, s, K) \in Nat  BY <1>2
<1> QED BY <1>2, <1>3 DEF f, x

LEMMA CountEmpty ==
  ASSUME NEW t, NEW K
  PROVE  Count(t, <<>>, K) = 0
<1>1. {j \in DOMAIN <<>> : t[<<>>[j]].kind \in K} = {}  OBVIOUS
<1> QED BY <1>1, FS_EmptySet DEF Count

LEMMA CountHolding ==
  ASSUME NEW t, NEW s \in Seq(Nat), NEW K
  PROVE  Count(t, s, K) \in Nat /\ (Count(t, s, K) > 0 <=> Holding(t, s, K))
<1> DEFINE C == {j \in DOMAIN s : t[s[j]].kind \in K}
<1>1. IsFiniteSet(C) /\ Cardinality(C) \in Nat
  <2>1. IsFiniteSet(1..Len(s)) /\ DOMAIN s = 1..Len(s)  BY FS_Interval
  <2>2. IsFiniteSet(C)  BY <2>1, FS_Subset
  <2> QED BY <2>2, FS_CardinalityType
<1>2. Cardinality(C) = 0 <=> C = {}  BY <1>1, FS_EmptySet
<1>3. C = {} <=> ~Holding(t, s, K)  BY DEF Holding
<1> QED BY <1>1, <1>2, <1>3 DEF Count

(* A longer program has the same constructs open.                            *)
LEMMA CountSame ==
  ASSUME NEW t, NEW u, NEW s, NEW K, \A j \in DOMAIN s : u[s[j]].kind = t[s[j]].kind
  PROVE  Count(u, s, K) = Count(t, s, K)
BY DEF Count

-----------------------------------------------------------------------------
(* The tree grows *)

LEMMA RisingPush ==
  ASSUME NEW n \in Nat, NEW s \in Seq(1..n), Rising(s)
  PROVE  /\ Append(s, n + 1) \in Seq(1..n + 1) /\ Rising(Append(s, n + 1))
         /\ ToSet(Append(s, n + 1)) = ToSet(s) \cup {n + 1}
<1> DEFINE a == Append(s, n + 1)
<1>1. s \in Seq(1..n + 1)
  <2>1. 1..n \subseteq 1..n + 1  OBVIOUS
  <2> QED BY <2>1
<1>2. /\ a \in Seq(1..n + 1) /\ Len(s) \in Nat /\ DOMAIN s = 1..Len(s) /\ DOMAIN a = 1..Len(s) + 1
      /\ \A i \in 1..Len(s) : a[i] = s[i]
      /\ a[Len(s) + 1] = n + 1
  BY <1>1, Pushed
<1>3. \A i \in 1..Len(s) : s[i] \in 1..n  OBVIOUS
<1> HIDE DEF a
<1>4. Rising(a)
  <2>1. SUFFICES ASSUME NEW i \in 1..Len(s) + 1, NEW j \in 1..Len(s) + 1, i < j
                 PROVE  a[i] < a[j]
    BY <1>2 DEF Rising
  <2>2. i \in 1..Len(s)  BY <1>2, <2>1
  <2>3. CASE j = Len(s) + 1  BY <1>2, <1>3, <2>2, <2>3
  <2>4. CASE j \in 1..Len(s)  BY <1>2, <2>1, <2>2, <2>4 DEF Rising
  <2> QED BY <1>2, <2>3, <2>4
<1>5. ToSet(a) = ToSet(s) \cup {n + 1}
  <2>1. \A i \in 1..Len(s) + 1 : i \in 1..Len(s) \/ i = Len(s) + 1  BY <1>2
  <2>2. 1..Len(s) \subseteq 1..Len(s) + 1 /\ Len(s) + 1 \in 1..Len(s) + 1  BY <1>2
  <2> QED BY <1>2, <2>1, <2>2 DEF ToSet
<1> QED BY <1>2, <1>4, <1>5 DEF a

LEMMA RisingFront ==
  ASSUME NEW n \in Nat, NEW s \in Seq(1..n), Rising(s), s # <<>>
  PROVE  /\ Front(s) \in Seq(1..n) /\ Rising(Front(s)) /\ Last(s) \in ToSet(s)
         /\ ToSet(Front(s)) = ToSet(s) \ {Last(s)}
         /\ \A k \in ToSet(s) : k <= Last(s)
<1> DEFINE f == Front(s)
           x == Last(s)
<1>1. /\ f \in Seq(1..n) /\ Len(f) = Len(s) - 1 /\ Len(s) \in Nat /\ Len(s) >= 1
      /\ DOMAIN f = 1..Len(s) - 1 /\ DOMAIN s = 1..Len(s)
      /\ \A i \in 1..Len(s) - 1 : f[i] = s[i]
      /\ x = s[Len(s)] /\ x \in 1..n
  BY FrontOf
<1>2. \A i \in 1..Len(s) : s[i] \in 1..n  OBVIOUS
<1> HIDE DEF f, x
<1>3. \A i \in 1..Len(s) - 1 : i \in 1..Len(s) /\ i < Len(s)  BY <1>1, SMTT(30)
<1>4. Rising(f)
  <2>1. SUFFICES ASSUME NEW i \in 1..Len(s) - 1, NEW j \in 1..Len(s) - 1, i < j
                 PROVE  f[i] < f[j]
    BY <1>1 DEF Rising
  <2> QED BY <1>1, <1>3, <2>1 DEF Rising
<1>5. Len(s) \in 1..Len(s)  BY <1>1
<1>6. \A i \in 1..Len(s) - 1 : s[i] < x  BY <1>1, <1>3, <1>5 DEF Rising
<1>7. \A i \in 1..Len(s) : i = Len(s) \/ i \in 1..Len(s) - 1  BY <1>1
<1>8. \A k \in ToSet(s) : k <= x
  <2>1. SUFFICES ASSUME NEW i \in 1..Len(s) PROVE s[i] <= x  BY <1>1 DEF ToSet
  <2> QED BY <1>1, <1>2, <1>6, <1>7
<1>9. x \in ToSet(s)  BY <1>1, <1>5 DEF ToSet
<1>10. ToSet(f) = ToSet(s) \ {x}
  <2>1. ASSUME NEW k \in ToSet(f) PROVE k \in ToSet(s) \ {x}
    <3>1. PICK i \in 1..Len(s) - 1 : k = f[i]  BY <1>1, <2>1 DEF ToSet
    <3>2. k = s[i] /\ i \in 1..Len(s) /\ s[i] < x  BY <1>1, <1>3, <1>6, <3>1
    <3>3. k # x  BY <1>1, <1>2, <3>2
    <3> QED BY <1>1, <3>2, <3>3 DEF ToSet
  <2>2. ASSUME NEW k \in ToSet(s) \ {x} PROVE k \in ToSet(f)
    <3>1. PICK i \in 1..Len(s) : k = s[i]  BY <1>1, <2>2 DEF ToSet
    <3>2. i \in 1..Len(s) - 1  BY <1>1, <1>7, <2>2, <3>1
    <3> QED BY <1>1, <3>1, <3>2 DEF ToSet
  <2> QED BY <2>1, <2>2
<1> QED BY <1>1, <1>4, <1>8, <1>9, <1>10 DEF f, x

(* The end of a scoped construct closes the path's last.                     *)
LEMMA LastOfBoth ==
  ASSUME NEW n \in Nat, NEW t, NEW s \in Seq(1..n), NEW p \in Seq(1..n), Rising(s), Rising(p),
         ToSet(p) = {k \in ToSet(s) : t[k].kind \in Scoped}, TopIn(t, s, Scoped)
  PROVE  p # <<>> /\ Last(p) = Last(s)
<1>1. /\ s # <<>> /\ Last(s) \in ToSet(s) /\ \A k \in ToSet(s) : k <= Last(s)
      /\ t[Last(s)].kind \in Scoped
  BY RisingFront DEF TopIn
<1>2. Last(s) \in ToSet(p)  BY <1>1
<1>3. p # <<>>  BY <1>2 DEF ToSet
<1>4. Last(p) \in ToSet(p) /\ \A k \in ToSet(p) : k <= Last(p)  BY <1>3, RisingFront
<1>5. Last(p) \in 1..n /\ Last(s) \in 1..n  BY <1>1, <1>3, FrontOf
<1>6. Last(p) <= Last(s) /\ Last(s) <= Last(p)  BY <1>1, <1>2, <1>4
<1> QED BY <1>3, <1>5, <1>6

(* A node more leaves what was known of the stacks before.                   *)
LEMMA SameBelow ==
  ASSUME NEW n \in Nat, NEW t, NEW u, \A i \in 1..n : u[i] = t[i], NEW s \in Seq(1..n), NEW K
  PROVE  (TopIn(u, s, K) <=> TopIn(t, s, K)) /\ (Holding(u, s, K) <=> Holding(t, s, K))
<1>1. TopIn(u, s, K) <=> TopIn(t, s, K)
  <2>1. CASE s # <<>>
    <3>1. Last(s) \in 1..n  BY <2>1, FrontOf
    <3> QED BY <3>1 DEF TopIn
  <2> QED BY <2>1 DEF TopIn
<1>2. Holding(u, s, K) <=> Holding(t, s, K)
  <2>1. \A j \in DOMAIN s : s[j] \in 1..n  OBVIOUS
  <2> QED BY <2>1 DEF Holding
<1> QED BY <1>1, <1>2

LEMMA SameNode ==
  ASSUME NEW n \in Nat, NEW t, NEW u, \A i \in 1..n : u[i] = t[i], NEW s \in Seq(1..n),
         NEW path, NEW e, NEW m, NEW x, Joins(t, s, path, e, m, x), Suits(t, s, e)
  PROVE  Joins(u, s, path, e, m, x) /\ Suits(u, s, e)
<1>1. \A K : (TopIn(u, s, K) <=> TopIn(t, s, K)) /\ (Holding(u, s, K) <=> Holding(t, s, K))
  BY SameBelow
<1> QED BY <1>1 DEF Joins, Suits

(* What the tree says of the stack and the path behind its first n nodes.    *)
LEMMA TreeShape ==
  ASSUME NEW t, NEW st, TreeOK(t, st), NEW n \in 0..Len(t)
  PROVE  /\ Stack(st, n) \in Seq(1..n) /\ Rising(Stack(st, n))
         /\ Path(t, n) \in Seq(1..n) /\ Rising(Path(t, n))
         /\ ToSet(Path(t, n)) = {k \in ToSet(Stack(st, n)) : t[k].kind \in Scoped}
<1>1. CASE n = 0
  <2>1. Stack(st, n) = <<>> /\ Path(t, n) = <<>>  BY <1>1 DEF Stack, Path
  <2>2. <<>> \in Seq(1..n) /\ Rising(<<>>) /\ ToSet(<<>>) = {}  BY DEF Rising, ToSet
  <2> QED BY <2>1, <2>2
<1>2. CASE n # 0
  <2>1. n \in 1..Len(t)  BY <1>2 DEF TreeOK
  <2>2. Stack(st, n) = st[n]  BY <1>2 DEF Stack
  <2> QED BY <2>1, <2>2 DEF TreeOK, Stacked
<1> QED BY <1>1, <1>2

(* The stack and the path behind a new node.                                 *)
NewNode(n, t, s, p, e, x, q, u) ==
  /\ n \in Nat /\ s \in Seq(1..n) /\ p \in Seq(1..n) /\ Rising(s) /\ Rising(p)
  /\ ToSet(p) = {k \in ToSet(s) : t[k].kind \in Scoped}
  /\ e \in NodeType /\ Joins(t, s, p, e, n + 1, x)
  /\ q = IF e.kind \in Scoped THEN Append(e.within, n + 1) ELSE e.within
  /\ \A k \in 1..n : u[k] = t[k]
  /\ u[n + 1] = e

LEMMA NewTop ==
  ASSUME NEW n, NEW t, NEW s, NEW p, NEW e, NEW x, NEW q, NEW u,
         NewNode(n, t, s, p, e, x, q, u)
  PROVE  /\ x \in Seq(1..n + 1) /\ Rising(x)
         /\ q \in Seq(1..n + 1) /\ Rising(q)
         /\ ToSet(q) = {k \in ToSet(x) : u[k].kind \in Scoped}
         /\ \/ q = Append(p, n + 1) \/ q = p \/ (p # <<>> /\ q = Front(p))
<1>0. /\ n \in Nat /\ s \in Seq(1..n) /\ p \in Seq(1..n) /\ Rising(s) /\ Rising(p)
      /\ ToSet(p) = {k \in ToSet(s) : t[k].kind \in Scoped}
      /\ e \in NodeType /\ Joins(t, s, p, e, n + 1, x)
      /\ q = IF e.kind \in Scoped THEN Append(e.within, n + 1) ELSE e.within
      /\ \A k \in 1..n : u[k] = t[k]
      /\ u[n + 1] = e
  BY DEF NewNode
<1> USE <1>0
<1>1. e.kind \in Kinds  BY DEF NodeType
<1>2. /\ \A r \in Seq(1..n) : r \in Seq(1..n + 1)
  <2>1. 1..n \subseteq 1..n + 1  OBVIOUS
  <2> QED BY <2>1
<1>3. \A k \in ToSet(s) : u[k] = t[k] /\ k \in 1..n
  <2>1. \A j \in DOMAIN s : s[j] \in 1..n  OBVIOUS
  <2> QED BY <2>1 DEF ToSet
<1>4. ToSet(p) = {k \in ToSet(s) : u[k].kind \in Scoped}  BY <1>3
<1>5. n + 1 \notin ToSet(s)  BY <1>3
<1>6. CASE e.kind \in Scoped
  <2>1. x = Append(s, n + 1) /\ q = Append(p, n + 1)
    BY <1>6 DEF Joins, Ends, Scoped, LoopKinds
  <2>2. /\ x \in Seq(1..n + 1) /\ Rising(x) /\ ToSet(x) = ToSet(s) \cup {n + 1}
        /\ q \in Seq(1..n + 1) /\ Rising(q) /\ ToSet(q) = ToSet(p) \cup {n + 1}
    BY <2>1, RisingPush
  <2>3. ToSet(q) = {k \in ToSet(x) : u[k].kind \in Scoped}
    BY <1>4, <1>5, <1>6, <2>2
  <2> QED BY <2>1, <2>2, <2>3
<1>7. CASE e.kind = "if"
  <2>1. x = Append(s, n + 1) /\ q = p
    BY <1>7 DEF Joins, Ends, Scoped, LoopKinds
  <2>2. x \in Seq(1..n + 1) /\ Rising(x) /\ ToSet(x) = ToSet(s) \cup {n + 1}
    BY <2>1, RisingPush
  <2>3. u[n + 1].kind \notin Scoped  BY <1>7 DEF Scoped, LoopKinds
  <2>4. ToSet(q) = {k \in ToSet(x) : u[k].kind \in Scoped}
    BY <1>4, <1>5, <2>1, <2>2, <2>3
  <2> QED BY <1>2, <2>1, <2>2, <2>4
<1>8. CASE e.kind = "else"
  <2>1. x = Append(Front(s), n + 1) /\ q = p /\ s # <<>> /\ t[Last(s)].kind = "if"
    BY <1>8 DEF Joins, Ends, Scoped, LoopKinds, TopIn
  <2>2. /\ Front(s) \in Seq(1..n) /\ Rising(Front(s)) /\ Last(s) \in ToSet(s)
        /\ ToSet(Front(s)) = ToSet(s) \ {Last(s)}
    BY <2>1, RisingFront
  <2>3. x \in Seq(1..n + 1) /\ Rising(x) /\ ToSet(x) = ToSet(Front(s)) \cup {n + 1}
    BY <2>1, <2>2, RisingPush
  <2>4. u[n + 1].kind \notin Scoped /\ u[Last(s)].kind \notin Scoped
    BY <1>3, <1>8, <2>1, <2>2 DEF Scoped, LoopKinds
  <2>5. ToSet(q) = {k \in ToSet(x) : u[k].kind \in Scoped}
    BY <1>4, <1>5, <2>1, <2>2, <2>3, <2>4
  <2> QED BY <1>2, <2>1, <2>3, <2>5
<1>9. CASE e.kind \in Leaves
  <2>1. x = s /\ q = p
    BY <1>9 DEF Joins, Ends, Scoped, LoopKinds, Leaves, Declarations
  <2> QED BY <1>2, <1>4, <2>1
<1>10. CASE e.kind = "endif"
  <2>1. x = Front(s) /\ q = p /\ s # <<>> /\ t[Last(s)].kind \in {"if", "else"}
    BY <1>10 DEF Joins, Ends, Scoped, LoopKinds, TopIn, Closes
  <2>2. /\ x \in Seq(1..n) /\ Rising(x) /\ Last(s) \in ToSet(s)
        /\ ToSet(x) = ToSet(s) \ {Last(s)}
    BY <2>1, RisingFront
  <2>3. u[Last(s)].kind \notin Scoped
    BY <1>3, <2>1, <2>2 DEF Scoped, LoopKinds
  <2>4. ToSet(q) = {k \in ToSet(x) : u[k].kind \in Scoped}
    BY <1>4, <2>1, <2>2, <2>3
  <2> QED BY <1>2, <2>1, <2>2, <2>4
<1>11. CASE e.kind \in Ends \ {"endif"}
  <2>1. x = Front(s) /\ q = Front(p) /\ TopIn(t, s, Scoped)
    BY <1>11 DEF Joins, Ends, Scoped, LoopKinds, TopIn, Closes
  <2>2. p # <<>> /\ Last(p) = Last(s)  BY <2>1, LastOfBoth
  <2>3. /\ x \in Seq(1..n) /\ Rising(x) /\ Last(s) \in ToSet(s)
        /\ ToSet(x) = ToSet(s) \ {Last(s)}
    BY <2>1, RisingFront DEF TopIn
  <2>4. /\ q \in Seq(1..n) /\ Rising(q) /\ ToSet(q) = ToSet(p) \ {Last(p)}
    BY <2>1, <2>2, RisingFront
  <2>5. ToSet(q) = {k \in ToSet(x) : u[k].kind \in Scoped}
    BY <1>4, <2>2, <2>3, <2>4
  <2> QED BY <1>2, <2>1, <2>2, <2>3, <2>4, <2>5
<1> QED BY <1>1, <1>6, <1>7, <1>8, <1>9, <1>10, <1>11 DEF Kinds, Scoped, Ends

(* The tree t, with its stacks st, grows to u and v by node e.               *)
NextNode(t, st, e, x, u, v) ==
  /\ TreeOK(t, st) /\ e \in NodeType
  /\ Joins(t, st[Len(t)], Path(t, Len(t)), e, Len(t) + 1, x) /\ Suits(t, st[Len(t)], e)
  /\ Grows(u, t, e) /\ Grows(v, st, x)

LEMMA TreeGrows ==
  ASSUME NEW t, NEW st, NEW e, NEW x, NEW u, NEW v, NextNode(t, st, e, x, u, v)
  PROVE  /\ TreeOK(u, v) /\ x \in Seq(Nat)
         /\ v[Len(t) + 1] = x /\ u[Len(t) + 1] = e /\ Len(u) = Len(t) + 1
         /\ \A k \in 1..Len(t) : u[k] = t[k]
<1>0. /\ TreeOK(t, st) /\ e \in NodeType
      /\ Joins(t, st[Len(t)], Path(t, Len(t)), e, Len(t) + 1, x) /\ Suits(t, st[Len(t)], e)
      /\ Grows(u, t, e) /\ Grows(v, st, x)
  BY DEF NextNode
<1> USE <1>0
<1> DEFINE n == Len(t)
           s == Stack(st, n)
           p == Path(t, n)
           q == IF e.kind \in Scoped THEN Append(e.within, n + 1) ELSE e.within
<1>1. n \in Nat /\ n >= 1 /\ t \in Seq(NodeType) /\ st \in Seq(Seq(Nat)) /\ Len(st) = n
  BY DEF TreeOK
<1>2. /\ u \in Seq(NodeType) /\ Len(u) = n + 1 /\ \A k \in 1..n : u[k] = t[k]
      /\ u[n + 1] = e
  BY <1>1 DEF Grows
<1>3. s = st[n]  BY <1>1 DEF Stack
<1>4. /\ s \in Seq(1..n) /\ Rising(s) /\ p \in Seq(1..n) /\ Rising(p)
      /\ ToSet(p) = {k \in ToSet(s) : t[k].kind \in Scoped}
  BY <1>1, TreeShape
<1>5. /\ x \in Seq(1..n + 1) /\ Rising(x) /\ q \in Seq(1..n + 1) /\ Rising(q)
      /\ ToSet(q) = {k \in ToSet(x) : u[k].kind \in Scoped}
      /\ \/ q = Append(p, n + 1) \/ q = p \/ (p # <<>> /\ q = Front(p))
  <2> HIDE DEF s, p, q
  <2>1. Joins(t, s, p, e, n + 1, x)  BY <1>3 DEF p
  <2>2. q = IF e.kind \in Scoped THEN Append(e.within, n + 1) ELSE e.within  BY DEF q
  <2> HIDE DEF n
  <2>3. NewNode(n, t, s, p, e, x, q, u)  BY <1>1, <1>2, <1>4, <2>1, <2>2 DEF NewNode
  <2> QED BY <2>3, NewTop
<1>6. x \in Seq(Nat)
  <2>1. 1..n + 1 \subseteq Nat  BY <1>1
  <2> QED BY <1>5, <2>1
<1>7. /\ v \in Seq(Seq(Nat)) /\ Len(v) = n + 1 /\ \A k \in 1..n : v[k] = st[k]
      /\ v[n + 1] = x
  BY <1>1, <1>6 DEF Grows
<1>8. \A k \in 0..n : Path(u, k) = Path(t, k) /\ Stack(v, k) = Stack(st, k)

  <2>1. n + 1 \notin 0..n /\ \A k \in 0..n : k = 0 \/ k \in 1..n  BY <1>1
  <2> HIDE DEF n
  <2> QED BY <1>2, <1>7, <2>1 DEF Path, Stack
<1>9. Path(u, n + 1) = q /\ Stack(v, n + 1) = x
  <2> HIDE DEF n
  <2>1. n + 1 # 0  BY <1>1
  <2> QED BY <1>2, <1>7, <2>1 DEF Path, Stack, q
<1> HIDE DEF s, p, q, n
<1>10. ASSUME NEW k \in 1..n + 1 PROVE NodeOK(u, v, k) /\ Stacked(u, v, k)
  <2>1. CASE k \in 1..n
    <3>1. NodeOK(t, st, k) /\ Stacked(t, st, k)  BY <2>1 DEF TreeOK, n
    <3>2. k - 1 \in 0..n /\ k \in 0..n /\ k - 1 \in 0..Len(t)  BY <1>1, <2>1 DEF n
    <3>3. Stack(st, k - 1) \in Seq(1..k - 1)  BY <3>2, TreeShape
    <3>4. \A i \in 1..k - 1 : u[i] = t[i]
      <4>1. ASSUME NEW i \in 1..k - 1 PROVE i \in 1..n  BY <1>1, <2>1
      <4> QED BY <1>2, <4>1
    <3>5. NodeOK(u, v, k)
      <4> DEFINE r == Stack(st, k - 1)
                 m == k - 1
      <4>1. m \in Nat /\ r \in Seq(1..m) /\ \A i \in 1..m : u[i] = t[i]  BY <3>2, <3>3, <3>4
      <4>2. Joins(t, r, Path(t, m), t[k], k, st[k]) /\ Suits(t, r, t[k])
        BY <3>1 DEF NodeOK
      <4>3. Stack(v, m) = r /\ Path(u, m) = Path(t, m) /\ u[k] = t[k] /\ v[k] = st[k]
        BY <1>2, <1>7, <1>8, <2>1, <3>2
      <4> HIDE DEF r
      <4>4. Joins(u, r, Path(t, m), t[k], k, st[k]) /\ Suits(u, r, t[k])
        <5> HIDE DEF m
        <5> QED BY <4>1, <4>2, SameNode
      <4> QED BY <4>3, <4>4 DEF NodeOK
    <3>6. Stacked(u, v, k)
      <4>1. Path(u, k) = Path(t, k) /\ v[k] = st[k]  BY <1>7, <1>8, <2>1, <3>2
      <4>2. \A i \in ToSet(st[k]) : u[i] = t[i]
        <5>1. st[k] \in Seq(1..k)  BY <3>1 DEF Stacked
        <5>2. \A i \in ToSet(st[k]) : i \in 1..k  BY <5>1 DEF ToSet
        <5>3. \A i \in 1..k : i \in 1..n  BY <1>1, <2>1
        <5> QED BY <1>2, <5>2, <5>3
      <4> QED BY <3>1, <4>1, <4>2 DEF Stacked
    <3> QED BY <3>5, <3>6
  <2>2. CASE k = n + 1
    <3>1. k - 1 = n /\ n \in 0..n  BY <1>1, <2>2
    <3>2. Stack(v, k - 1) = s /\ Path(u, k - 1) = p /\ u[k] = e /\ v[k] = x
      BY <1>2, <1>7, <1>8, <2>2, <3>1 DEF s, p
    <3>3. Joins(t, s, p, e, k, x) /\ Suits(t, s, e)  BY <1>3, <2>2 DEF n, p
    <3>4. Joins(u, s, p, e, k, x) /\ Suits(u, s, e)
      BY <1>1, <1>2, <1>4, <3>3, SameNode
    <3>5. NodeOK(u, v, k)  BY <3>2, <3>4 DEF NodeOK
    <3>6. Stacked(u, v, k)  BY <1>5, <1>9, <2>2, <3>2 DEF Stacked
    <3> QED BY <3>5, <3>6
  <2> QED BY <1>1, <2>1, <2>2
<1>11. ASSUME NEW k \in 1..n + 1, NEW m \in 1..k PROVE Lasts(u, m, k)
  <2>1. CASE k \in 1..n
    <3>1. Lasts(t, m, k)  BY <2>1 DEF TreeOK, n
    <3>2. k \in 0..n /\ m \in 0..n  BY <1>1, <2>1
    <3> QED BY <1>8, <3>1, <3>2 DEF Lasts
  <2>2. CASE k = n + 1 /\ m = n + 1  BY <2>2 DEF Lasts
  <2>3. CASE k = n + 1 /\ m \in 1..n
    <3>0. n \in 1..n /\ n \in 0..n /\ m \in 0..n  BY <1>1, <2>3
    <3>1. Lasts(t, m, n) /\ n \in 0..n /\ m \in 0..n  BY <2>3, <3>0 DEF TreeOK, n
    <3>2. ASSUME NEW j \in DOMAIN q, q[j] <= m
          PROVE  j \in DOMAIN p /\ p[j] = q[j]
      <4>1. CASE q = Append(p, n + 1)
        <5>1. /\ DOMAIN q = 1..Len(p) + 1 /\ DOMAIN p = 1..Len(p) /\ Len(p) \in Nat
              /\ \A i \in 1..Len(p) : q[i] = p[i]
              /\ q[Len(p) + 1] = n + 1
          <6>1. p \in Seq(Nat) /\ n + 1 \in Nat
            <7>1. 1..n \subseteq Nat  BY <1>1
            <7> QED BY <1>1, <1>4, <7>1
          <6> QED BY <4>1, <6>1, Pushed
        <5>2. j # Len(p) + 1  BY <1>1, <2>3, <3>2, <5>1
        <5>3. j \in 1..Len(p)  BY <5>1, <5>2
        <5> QED BY <5>1, <5>3
      <4>2. CASE q = p  BY <4>2
      <4>3. CASE p # <<>> /\ q = Front(p)
        <5>1. /\ DOMAIN q = 1..Len(p) - 1 /\ DOMAIN p = 1..Len(p) /\ Len(p) \in Nat
              /\ \A i \in 1..Len(p) - 1 : q[i] = p[i]
          BY <1>4, <4>3, FrontOf
        <5>2. j \in 1..Len(p)  BY <5>1
        <5> QED BY <5>1, <5>2
      <4> QED BY <1>5, <4>1, <4>2, <4>3
    <3>3. Path(u, k) = q /\ Path(u, m) = Path(t, m)  BY <1>8, <1>9, <2>3, <3>1
    <3>4. Path(t, n) = p  BY DEF p
    <3> QED BY <3>1, <3>2, <3>3, <3>4 DEF Lasts
  <2> QED BY <1>1, <2>1, <2>2, <2>3
<1>12. TreeOK(u, v)
  <2>1. Len(u) >= 1 /\ Len(v) = Len(u)  BY <1>1, <1>2, <1>7
  <2> QED BY <1>2, <1>7, <1>10, <1>11, <2>1 DEF TreeOK
<1> QED BY <1>2, <1>6, <1>7, <1>12 DEF n

-----------------------------------------------------------------------------
(* What the parser still expects *)

LEMMA ConsOf ==
  ASSUME NEW S, NEW s \in Seq(S), NEW x \in S, NEW c, Leads(c, x, s)
  PROVE  /\ c \in Seq(S) /\ Len(c) = Len(s) + 1 /\ Len(s) \in Nat
         /\ DOMAIN c = 1..Len(s) + 1 /\ DOMAIN s = 1..Len(s)
         /\ c[1] = x
         /\ \A i \in 1..Len(s) : c[i + 1] = s[i]
         /\ \A i \in 2..Len(s) + 1 : i - 1 \in 1..Len(s) /\ c[i] = s[i - 1]
<1>1. /\ c \in Seq(S) /\ Len(c) = Len(s) + 1 /\ Len(s) \in Nat /\ c[1] = x
      /\ \A i \in 1..Len(s) : c[i + 1] = s[i]
  BY DEF Leads
<1>2. DOMAIN c = 1..Len(s) + 1 /\ DOMAIN s = 1..Len(s)  BY <1>1
<1>3. \A i \in 2..Len(s) + 1 : i - 1 \in 1..Len(s) /\ c[i] = s[i - 1]
  <2>1. SUFFICES ASSUME NEW i \in 2..Len(s) + 1 PROVE i - 1 \in 1..Len(s) /\ c[i] = s[i - 1]
    OBVIOUS
  <2>2. i - 1 \in 1..Len(s) /\ (i - 1) + 1 = i  BY <1>1
  <2>3. c[(i - 1) + 1] = s[i - 1]  BY <1>1, <2>2
  <2> QED BY <2>2, <2>3
<1> QED BY <1>1, <1>2, <1>3

LEMMA TailOf ==
  ASSUME NEW S, NEW s \in Seq(S), s # <<>>, NEW d, Drops(d, s)
  PROVE  /\ d \in Seq(S) /\ Len(d) = Len(s) - 1 /\ Len(s) \in Nat /\ Len(s) >= 1
         /\ DOMAIN d = 1..Len(s) - 1 /\ DOMAIN s = 1..Len(s)
         /\ \A i \in 1..Len(s) - 1 : d[i] = s[i + 1] /\ i + 1 \in 1..Len(s)
<1>1. Len(s) \in Nat /\ Len(s) >= 1 /\ DOMAIN s = 1..Len(s)  BY EmptySeq
<1>2. /\ d \in Seq(S) /\ Len(d) = Len(s) - 1
      /\ \A i \in 1..Len(s) - 1 : d[i] = s[i + 1]
  BY <1>1, HeadTailProperties DEF Drops
<1>3. DOMAIN d = 1..Len(s) - 1  BY <1>2
<1>4. \A i \in 1..Len(s) - 1 : i + 1 \in 1..Len(s)  BY <1>1
<1> QED BY <1>1, <1>2, <1>3, <1>4

LEMMA HeadOf ==
  ASSUME NEW S, NEW s \in Seq(S), s # <<>>
  PROVE  Head(s) = s[1] /\ Head(s) \in S
<1>1. Len(s) \in Nat /\ Len(s) >= 1 /\ 1 \in 1..Len(s)  BY EmptySeq
<1> QED BY <1>1, HeadTailProperties

LEMMA Spans ==
  ASSUME NEW item \in Items
  PROVE  /\ Span(item) \in 0..2
         /\ Span(item) = 0 <=> item = "stmt"
         /\ Span(item) = 2 <=> item = "case"
BY DEF Items, Span

Pushes(t, s, ex, q, item, top, ex2, q2) ==
  /\ s \in Seq(Nat) /\ Hangs(t, s, ex, q) /\ item \in Items /\ top \in Nat /\ top <= Len(s)
  /\ Belongs(t, s, item, top, q[1]) /\ Leads(ex2, item, ex) /\ Leads(q2, top, q)

LEMMA HangsPush ==
  ASSUME NEW t, NEW s, NEW ex, NEW q, NEW item, NEW top, NEW ex2, NEW q2,
         Pushes(t, s, ex, q, item, top, ex2, q2)
  PROVE  Hangs(t, s, ex2, q2) /\ q2[1] = top
<1>0. /\ s \in Seq(Nat) /\ Hangs(t, s, ex, q) /\ item \in Items /\ top \in Nat /\ top <= Len(s)
      /\ Belongs(t, s, item, top, q[1]) /\ Leads(ex2, item, ex) /\ Leads(q2, top, q)
  BY DEF Pushes
<1> USE <1>0
<1>1. /\ ex \in Seq(Items) /\ q \in Seq(Nat) /\ Len(q) = Len(ex) + 1 /\ Len(ex) \in Nat
      /\ q[1] <= Len(s) /\ q[Len(q)] = 0
      /\ \A i, j \in DOMAIN q : i <= j => q[j] <= q[i]
      /\ \A j \in DOMAIN ex : Belongs(t, s, ex[j], q[j], q[j + 1])
  BY DEF Hangs
<1>2. /\ ex2 \in Seq(Items) /\ Len(ex2) = Len(ex) + 1
      /\ DOMAIN ex2 = 1..Len(ex) + 1 /\ DOMAIN ex = 1..Len(ex)
      /\ ex2[1] = item
      /\ \A i \in 2..Len(ex) + 1 : i - 1 \in 1..Len(ex) /\ ex2[i] = ex[i - 1]
  <2>1. ex \in Seq(Items)  BY <1>1
  <2> QED BY <2>1, ConsOf
<1>3. /\ q2 \in Seq(Nat) /\ Len(q2) = Len(q) + 1
      /\ DOMAIN q2 = 1..Len(q) + 1 /\ DOMAIN q = 1..Len(q)
      /\ q2[1] = top
      /\ \A i \in 2..Len(q) + 1 : i - 1 \in 1..Len(q) /\ q2[i] = q[i - 1]
      /\ \A i \in 1..Len(q) : q2[i + 1] = q[i]
  <2> DEFINE N == Nat
  <2>1. q \in Seq(N) /\ top \in N /\ Leads(q2, top, q)  BY <1>1
  <2> HIDE DEF N
  <2>2. /\ q2 \in Seq(N) /\ Len(q2) = Len(q) + 1
        /\ DOMAIN q2 = 1..Len(q) + 1 /\ DOMAIN q = 1..Len(q)
        /\ q2[1] = top
        /\ \A i \in 2..Len(q) + 1 : i - 1 \in 1..Len(q) /\ q2[i] = q[i - 1]
        /\ \A i \in 1..Len(q) : q2[i + 1] = q[i]
    BY <2>1, ConsOf
  <2> QED BY <2>2 DEF N
<1>4. q[1] \in Nat /\ \A i \in 1..Len(q) : q[i] \in Nat  BY <1>1
<1>5. q[1] <= top
  <2>1. Span(item) \in Nat  BY Spans
  <2> QED BY <1>4, <2>1 DEF Belongs
<1>6. \A i \in 1..Len(q) : q[i] <= top
  <2>1. ASSUME NEW i \in 1..Len(q) PROVE q[i] <= q[1]
    <3>1. 1 \in DOMAIN q /\ i \in DOMAIN q /\ 1 <= i  BY <1>1, <1>3
    <3> QED BY <1>1, <3>1
  <2> QED BY <1>4, <1>5, <2>1
<1>7. \A i, j \in DOMAIN q2 : i <= j => q2[j] <= q2[i]
  <2>1. SUFFICES ASSUME NEW i \in 1..Len(q) + 1, NEW j \in 1..Len(q) + 1, i <= j
                 PROVE  q2[j] <= q2[i]
    BY <1>3
  <2>2. CASE i = 1
    <3>1. j = 1 \/ j \in 2..Len(q) + 1  BY <1>1
    <3> QED BY <1>3, <1>6, <2>2, <3>1
  <2>3. CASE i # 1
    <3>1. i \in 2..Len(q) + 1 /\ j \in 2..Len(q) + 1 /\ i - 1 <= j - 1  BY <1>1, <2>1, <2>3
    <3> QED BY <1>1, <1>3, <3>1
  <2> QED BY <2>2, <2>3
<1>8. \A j \in DOMAIN ex2 : Belongs(t, s, ex2[j], q2[j], q2[j + 1])
  <2>1. SUFFICES ASSUME NEW j \in 1..Len(ex) + 1
                 PROVE  Belongs(t, s, ex2[j], q2[j], q2[j + 1])
    BY <1>2
  <2>2. CASE j = 1
    <3>1. 1 \in 1..Len(q) /\ q2[1 + 1] = q[1]  BY <1>1, <1>3
    <3> QED BY <1>2, <1>3, <2>2, <3>1
  <2>3. CASE j # 1
    <3>1. j \in 2..Len(ex) + 1 /\ j \in 2..Len(q) + 1 /\ j \in 1..Len(q) /\ (j - 1) + 1 = j
      BY <1>1, <2>3
    <3>2. /\ j - 1 \in DOMAIN ex /\ ex2[j] = ex[j - 1] /\ q2[j] = q[j - 1] /\ q2[j + 1] = q[j]
      BY <1>2, <1>3, <3>1
    <3>3. Belongs(t, s, ex[j - 1], q[j - 1], q[(j - 1) + 1])  BY <1>1, <3>2
    <3> QED BY <3>1, <3>2, <3>3
  <2> QED BY <2>2, <2>3
<1>9. q2[Len(q2)] = 0
  <2>1. Len(q) \in 1..Len(q) /\ Len(q2) = Len(q) + 1  BY <1>1, <1>3
  <2> QED BY <1>1, <1>3, <2>1
<1>10. Hangs(t, s, ex2, q2)
  <2>1. Len(q2) = Len(ex2) + 1  BY <1>1, <1>2, <1>3
  <2>2. q2[1] <= Len(s)  BY <1>3
  <2> QED BY <1>2, <1>3, <1>7, <1>8, <1>9, <2>1, <2>2 DEF Hangs
<1> QED BY <1>3, <1>10

Pops(t, s, ex, q, ex2, q2) ==
  /\ s \in Seq(Nat) /\ Hangs(t, s, ex, q) /\ ex # <<>> /\ Drops(ex2, ex) /\ Drops(q2, q)

LEMMA HangsPop ==
  ASSUME NEW t, NEW s, NEW ex, NEW q, NEW ex2, NEW q2, Pops(t, s, ex, q, ex2, q2)
  PROVE  /\ Hangs(t, s, ex2, q2) /\ Head(ex) \in Items
         /\ q[1] \in Nat /\ q2[1] \in Nat /\ q[1] <= Len(s)
         /\ q2[1] + Span(Head(ex)) = q[1] /\ Belongs(t, s, Head(ex), q[1], q2[1])
<1>0. s \in Seq(Nat) /\ Hangs(t, s, ex, q) /\ ex # <<>> /\ Drops(ex2, ex) /\ Drops(q2, q)
  BY DEF Pops
<1> USE <1>0
<1>1. /\ ex \in Seq(Items) /\ q \in Seq(Nat) /\ Len(q) = Len(ex) + 1 /\ Len(ex) \in Nat
      /\ q[1] <= Len(s) /\ q[Len(q)] = 0 /\ Len(s) \in Nat
      /\ \A i, j \in DOMAIN q : i <= j => q[j] <= q[i]
      /\ \A j \in DOMAIN ex : Belongs(t, s, ex[j], q[j], q[j + 1])
  BY DEF Hangs
<1>2. /\ ex2 \in Seq(Items) /\ Len(ex2) = Len(ex) - 1 /\ Len(ex) >= 1
      /\ DOMAIN ex2 = 1..Len(ex) - 1 /\ DOMAIN ex = 1..Len(ex)
      /\ \A i \in 1..Len(ex) - 1 : ex2[i] = ex[i + 1] /\ i + 1 \in 1..Len(ex)
      /\ Head(ex) = ex[1] /\ Head(ex) \in Items
  BY <1>1, TailOf, HeadOf
<1>3. q # <<>>  BY <1>1, EmptySeq
<1>4. /\ q2 \in Seq(Nat) /\ Len(q2) = Len(q) - 1
      /\ DOMAIN q2 = 1..Len(q) - 1 /\ DOMAIN q = 1..Len(q)
      /\ \A i \in 1..Len(q) - 1 : q2[i] = q[i + 1] /\ i + 1 \in 1..Len(q)
  <2> DEFINE N == Nat
  <2>1. q \in Seq(N) /\ q # <<>> /\ Drops(q2, q)  BY <1>1, <1>3
  <2> HIDE DEF N
  <2>2. /\ q2 \in Seq(N) /\ Len(q2) = Len(q) - 1
        /\ DOMAIN q2 = 1..Len(q) - 1 /\ DOMAIN q = 1..Len(q)
        /\ \A i \in 1..Len(q) - 1 : q2[i] = q[i + 1] /\ i + 1 \in 1..Len(q)
    BY <2>1, TailOf
  <2> QED BY <2>2 DEF N
<1>5. \A i \in 1..Len(q) : q[i] \in Nat  BY <1>1
<1>6. q2[1] = q[2] /\ 2 \in 1..Len(q) /\ 1 \in 1..Len(q)
  <2>1. 1 \in 1..Len(q) - 1  BY <1>1, <1>2
  <2> QED BY <1>1, <1>4, <2>1
<1>7. Belongs(t, s, Head(ex), q[1], q2[1])
  <2>1. 1 \in DOMAIN ex /\ 1 + 1 = 2  BY <1>2
  <2>2. Belongs(t, s, ex[1], q[1], q[1 + 1])  BY <1>1, <2>1
  <2> QED BY <1>2, <1>6, <2>1, <2>2
<1>8. q2[1] + Span(Head(ex)) = q[1]
  <2>1. Span(Head(ex)) \in Nat  BY <1>2, Spans
  <2> QED BY <1>5, <1>6, <1>7, <2>1 DEF Belongs
<1>9. q2[1] <= Len(s)
  <2>1. 1 \in DOMAIN q /\ 2 \in DOMAIN q /\ 1 <= 2  BY <1>4, <1>6
  <2>2. q[2] <= q[1]  BY <1>1, <2>1
  <2> QED BY <1>1, <1>5, <1>6, <2>2
<1>10. q2[Len(q2)] = 0
  <2>1. Len(q2) \in 1..Len(q) - 1 /\ Len(q2) + 1 = Len(q)  BY <1>1, <1>2, <1>4
  <2> QED BY <1>1, <1>4, <2>1
<1>11. \A i, j \in DOMAIN q2 : i <= j => q2[j] <= q2[i]
  <2>1. SUFFICES ASSUME NEW i \in 1..Len(q) - 1, NEW j \in 1..Len(q) - 1, i <= j
                 PROVE  q2[j] <= q2[i]
    BY <1>4
  <2>2. i + 1 \in 1..Len(q) /\ j + 1 \in 1..Len(q) /\ i + 1 <= j + 1  BY <1>4, <2>1
  <2> QED BY <1>1, <1>4, <2>2
<1>12. \A j \in DOMAIN ex2 : Belongs(t, s, ex2[j], q2[j], q2[j + 1])
  <2>1. SUFFICES ASSUME NEW j \in 1..Len(ex) - 1
                 PROVE  Belongs(t, s, ex2[j], q2[j], q2[j + 1])
    BY <1>2
  <2>2. /\ j + 1 \in DOMAIN ex /\ ex2[j] = ex[j + 1]
        /\ j \in 1..Len(q) - 1 /\ j + 1 \in 1..Len(q) - 1
    BY <1>1, <1>2, SMTT(30)
  <2>3. q2[j] = q[j + 1] /\ q2[j + 1] = q[(j + 1) + 1]  BY <1>4, <2>2
  <2>4. Belongs(t, s, ex[j + 1], q[j + 1], q[(j + 1) + 1])  BY <1>1, <2>2
  <2> QED BY <2>2, <2>3, <2>4
<1>13. Hangs(t, s, ex2, q2)
  <2>1. Len(q2) = Len(ex2) + 1  BY <1>1, <1>2, <1>4
  <2> QED BY <1>2, <1>4, <1>9, <1>10, <1>11, <1>12, <2>1 DEF Hangs
<1> QED BY <1>1, <1>2, <1>5, <1>6, <1>7, <1>8, <1>13

(* What is below the top hangs on in any stack that starts the same way.     *)
LEMMA HangsOn ==
  ASSUME NEW t, NEW u, NEW s \in Seq(Nat), NEW x \in Seq(Nat), NEW ex, NEW q, Hangs(t, s, ex, q),
         q[1] <= Len(x), \A i \in 1..q[1] : x[i] = s[i] /\ u[s[i]].kind = t[s[i]].kind
  PROVE  Hangs(u, x, ex, q)
<1>1. /\ ex \in Seq(Items) /\ q \in Seq(Nat) /\ Len(q) = Len(ex) + 1 /\ Len(ex) \in Nat
      /\ q[1] <= Len(s) /\ q[Len(q)] = 0
      /\ \A i, j \in DOMAIN q : i <= j => q[j] <= q[i]
      /\ \A j \in DOMAIN ex : Belongs(t, s, ex[j], q[j], q[j + 1])
      /\ DOMAIN q = 1..Len(q) /\ DOMAIN ex = 1..Len(ex)
  BY DEF Hangs
<1>2. ASSUME NEW j \in DOMAIN ex PROVE Belongs(u, x, ex[j], q[j], q[j + 1])
  <2>1. /\ j \in 1..Len(q) /\ j + 1 \in 1..Len(q) /\ 1 \in 1..Len(q) /\ 1 <= j /\ ex[j] \in Items
    BY <1>1
  <2>2. q[j] \in Nat /\ q[j + 1] \in Nat /\ q[j] <= q[1] /\ q[1] \in Nat
    <3>1. j \in DOMAIN q /\ 1 \in DOMAIN q  BY <1>1, <2>1
    <3>2. q[j] <= q[1]  BY <1>1, <2>1, <3>1
    <3> QED BY <1>1, <2>1, <3>2
  <2>3. Belongs(t, s, ex[j], q[j], q[j + 1])  BY <1>1
  <2>4. CASE ex[j] = "stmt"  BY <2>3, <2>4 DEF Belongs
  <2>5. CASE ex[j] = "case"
    <3>1. q[j] = q[j + 1] + 2  BY <2>3, <2>5 DEF Belongs, Span
    <3>2. q[j] \in 1..q[1] /\ q[j] - 1 \in 1..q[1]  BY <2>2, <3>1, SMTT(30)
    <3> QED BY <2>3, <3>2 DEF Belongs
  <2>6. CASE ex[j] \notin {"stmt", "case"}
    <3>1. q[j] = q[j + 1] + 1  BY <2>3, <2>6 DEF Belongs, Span
    <3>2. q[j] \in 1..q[1]  BY <2>2, <3>1
    <3> QED BY <2>3, <2>6, <3>2 DEF Belongs
  <2> QED BY <2>4, <2>5, <2>6
<1> QED BY <1>1, <1>2 DEF Hangs

-----------------------------------------------------------------------------
(* What the parser does to tree, stack and expectations *)

LEMMA ParsesShape ==
  ASSUME NEW t, NEW st, NEW q, NEW ex, NEW path, NEW d, NEW l, Parses(t, st, q, ex, path, d, l)
  PROVE  /\ Len(t) \in Nat /\ Len(t) >= 1
         /\ Open(t, st) \in Seq(1..Len(t)) /\ Open(t, st) \in Seq(Nat)
         /\ path \in Seq(1..Len(t)) /\ path \in Seq(Nat)
         /\ d \in Nat /\ l \in Nat
         /\ \A j \in DOMAIN Open(t, st) : Open(t, st)[j] \in 1..Len(t)
         /\ Open(t, st) = st[Len(t)] /\ path = Path(t, Len(t))
<1>1. /\ TreeOK(t, st) /\ Len(t) \in Nat /\ Len(t) >= 1 /\ path = Path(t, Len(t))
  BY DEF Parses, TreeOK
<1>2. Stack(st, Len(t)) = Open(t, st)  BY <1>1 DEF Stack, Open
<1>3. Open(t, st) \in Seq(1..Len(t)) /\ path \in Seq(1..Len(t))  BY <1>1, <1>2, TreeShape
<1>4. 1..Len(t) \subseteq Nat  BY <1>1
<1>5. Open(t, st) \in Seq(Nat) /\ path \in Seq(Nat)  BY <1>3, <1>4
<1>6. d \in Nat /\ l \in Nat  BY <1>5, CountHolding DEF Parses
<1>7. \A j \in DOMAIN Open(t, st) : Open(t, st)[j] \in 1..Len(t)  BY <1>3
<1> QED BY <1>1, <1>3, <1>5, <1>6, <1>7 DEF Open

LEMMA Grown ==
  ASSUME NEW t, NEW st, NEW q, NEW ex, NEW path, NEW d, NEW l, Parses(t, st, q, ex, path, d, l),
         NEW e \in NodeType, NEW x,
         Joins(t, Open(t, st), path, e, Len(t) + 1, x), Suits(t, Open(t, st), e),
         NEW u, Grows(u, t, e), NEW v, Grows(v, st, x),
         NEW ex2, NEW q2, NEW d2, NEW l2, Hangs(u, x, ex2, q2), q2[1] = Len(x),
         d2 = Count(u, x, {"block"}), l2 = Count(u, x, LoopKinds),
         NEW path2, path2 = Behind(e, Len(t) + 1)
  PROVE  Parses(u, v, q2, ex2, path2, d2, l2)
<1>1. TreeOK(t, st) /\ path = Path(t, Len(t)) /\ Open(t, st) = st[Len(t)]
  BY DEF Parses, Open
<1>2. Joins(t, st[Len(t)], Path(t, Len(t)), e, Len(t) + 1, x) /\ Suits(t, st[Len(t)], e)
  BY <1>1
<1>3. /\ TreeOK(u, v) /\ x \in Seq(Nat)
      /\ v[Len(t) + 1] = x /\ u[Len(t) + 1] = e /\ Len(u) = Len(t) + 1
  <2>1. NextNode(t, st, e, x, u, v)  BY <1>1, <1>2 DEF NextNode
  <2> QED BY <2>1, TreeGrows
<1>4. Open(u, v) = x  BY <1>3 DEF Open
<1>5. Len(t) + 1 # 0  BY ParsesShape
<1>6. path2 = Path(u, Len(u))  BY <1>3, <1>5 DEF Path, Behind
<1> QED BY <1>3, <1>4, <1>6 DEF Parses

(* A longer tree says the same of the nodes before.                          *)
LEMMA SameTree ==
  ASSUME NEW t, NEW st, NEW q, NEW ex, NEW path, NEW d, NEW l, Parses(t, st, q, ex, path, d, l),
         NEW e, NEW u, Grows(u, t, e), NEW s, s = Open(t, st)
  PROVE  /\ \A k \in 1..Len(t) : u[k] = t[k]
         /\ u[Len(t) + 1] = e
         /\ \A j \in DOMAIN s : u[s[j]].kind = t[s[j]].kind
         /\ \A K : Count(u, s, K) = Count(t, s, K)
<1>1. Len(t) \in Nat /\ \A j \in DOMAIN s : s[j] \in 1..Len(t)
  BY ParsesShape
<1>2. t \in Seq(NodeType)  BY DEF Parses, TreeOK
<1>3. (\A k \in 1..Len(t) : u[k] = t[k]) /\ u[Len(t) + 1] = e
  <2>1. t \in Seq(NodeType \cup {e}) /\ e \in NodeType \cup {e}
    <3>1. NodeType \subseteq NodeType \cup {e}  OBVIOUS
    <3> QED BY <1>2, <3>1
  <2> QED BY <2>1 DEF Grows
<1>4. \A j \in DOMAIN s : u[s[j]].kind = t[s[j]].kind
  BY <1>1, <1>3
<1>5. ASSUME NEW K PROVE Count(u, s, K) = Count(t, s, K)
  BY <1>4, CountSame
<1> QED BY <1>3, <1>4, <1>5

LEMMA ReadsLeaf ==
  ASSUME NEW t, NEW st, NEW q, NEW ex, NEW path, NEW d, NEW l, Parses(t, st, q, ex, path, d, l),
         NEW e \in NodeType, e.kind \in Leaves, e.within = path, Suits(t, Open(t, st), e),
         NEW u, Grows(u, t, e), NEW v, Grows(v, st, Open(t, st))
  PROVE  Parses(u, v, q, ex, path, d, l)
<1> DEFINE s == Open(t, st)
<1>1. e.kind \notin Scoped \cup {"if", "else"} \cup Ends
  BY DEF Leaves, Scoped, Ends, LoopKinds, Declarations
<1>2. Joins(t, s, path, e, Len(t) + 1, s)  BY <1>1 DEF Joins
<1>3. s \in Seq(Nat) /\ DOMAIN s = 1..Len(s)  BY ParsesShape
<1>4. /\ \A j \in DOMAIN s : u[s[j]].kind = t[s[j]].kind
      /\ \A K : Count(u, s, K) = Count(t, s, K)
  <2>1. s = Open(t, st)  OBVIOUS
  <2> HIDE DEF s
  <2> QED BY <2>1, SameTree
<1>5. Hangs(t, s, ex, q) /\ q[1] = Len(s) /\ d = Count(t, s, {"block"}) /\ l = Count(t, s, LoopKinds)
  BY DEF Parses
<1>6. Suits(t, s, e) /\ Grows(v, st, s)  OBVIOUS
<1>7. path = Behind(e, Len(t) + 1)  BY <1>1 DEF Behind
<1> HIDE DEF s
<1>8. Hangs(u, s, ex, q)
  <2>1. q[1] <= Len(s) /\ \A i \in 1..q[1] : s[i] = s[i] /\ u[s[i]].kind = t[s[i]].kind
    BY <1>3, <1>4, <1>5
  <2> QED BY <1>3, <1>5, <2>1, HangsOn
<1>9. d = Count(u, s, {"block"}) /\ l = Count(u, s, LoopKinds)  BY <1>4, <1>5
<1> QED BY <1>2, <1>5, <1>6, <1>7, <1>8, <1>9, Grown DEF s

LEMMA DropsStmt ==
  ASSUME NEW t, NEW st, NEW q, NEW ex, NEW path, NEW d, NEW l, Parses(t, st, q, ex, path, d, l),
         ex # <<>>, Head(ex) = "stmt", NEW ex2, Drops(ex2, ex), NEW q2, Drops(q2, q)
  PROVE  Parses(t, st, q2, ex2, path, d, l)
<1> DEFINE s == Open(t, st)
<1>1. s \in Seq(Nat) /\ Hangs(t, s, ex, q) /\ q[1] = Len(s)
  BY ParsesShape DEF Parses
<1> HIDE DEF s
<1>2. /\ Hangs(t, s, ex2, q2) /\ q2[1] \in Nat /\ q[1] \in Nat
      /\ q2[1] + Span(Head(ex)) = q[1]
  <2>1. Pops(t, s, ex, q, ex2, q2)  BY <1>1 DEF Pops
  <2> QED BY <2>1, HangsPop
<1>3. Span(Head(ex)) = 0  BY DEF Span
<1>4. q2[1] = q[1]  BY <1>2, <1>3
<1> QED BY <1>1, <1>2, <1>4 DEF Parses, s

LEMMA AddsStmt ==
  ASSUME NEW t, NEW st, NEW q, NEW ex, NEW path, NEW d, NEW l, Parses(t, st, q, ex, path, d, l),
         NEW ex2, Leads(ex2, "stmt", ex), NEW q2, Leads(q2, q[1], q)
  PROVE  Parses(t, st, q2, ex2, path, d, l)
<1> DEFINE s == Open(t, st)
<1>1. s \in Seq(Nat) /\ Hangs(t, s, ex, q) /\ q[1] = Len(s)
  BY ParsesShape DEF Parses
<1> HIDE DEF s
<1>2. q[1] \in Nat /\ q[1] <= Len(s)  BY <1>1
<1>3. Belongs(t, s, "stmt", q[1], q[1])  BY <1>2 DEF Belongs, Span
<1>4. "stmt" \in Items  BY DEF Items
<1>5. Hangs(t, s, ex2, q2) /\ q2[1] = q[1]
  <2>1. Pushes(t, s, ex, q, "stmt", q[1], ex2, q2)  BY <1>1, <1>2, <1>3, <1>4 DEF Pushes
  <2> QED BY <2>1, HangsPush
<1> QED BY <1>1, <1>5 DEF Parses, s

(* A construct is opened on top of what was open; item waits for its end.    *)
LEMMA Opens ==
  ASSUME NEW t, NEW st, NEW q, NEW ex, NEW path, NEW d, NEW l, Parses(t, st, q, ex, path, d, l),
         NEW e \in NodeType, e.kind \in Scoped \cup {"if"}, e.within = path,
         Suits(t, Open(t, st), e),
         NEW item \in Items \ {"stmt", "case"}, e.kind \in Awaits(item),
         NEW u, Grows(u, t, e), NEW x, Grows(x, Open(t, st), Len(t) + 1), NEW v, Grows(v, st, x),
         NEW ex2, Leads(ex2, item, ex), NEW q2, Leads(q2, q[1] + 1, q),
         NEW path2, path2 = Behind(e, Len(t) + 1),
         NEW d2, d2 = d + (IF e.kind = "block" THEN 1 ELSE 0),
         NEW l2, l2 = l + (IF e.kind \in LoopKinds THEN 1 ELSE 0)
  PROVE  Parses(u, v, q2, ex2, path2, d2, l2)
<1> DEFINE s == Open(t, st)
           n == Len(t) + 1
<1>1. e.kind \notin {"else"} \cup Ends \cup Leaves
  BY DEF Leaves, Scoped, Ends, LoopKinds, Declarations
<1>2. Joins(t, s, path, e, n, x)  BY <1>1 DEF Joins, Grows
<1>3. s \in Seq(Nat) /\ DOMAIN s = 1..Len(s) /\ n \in Nat /\ Len(s) \in Nat  BY ParsesShape
<1>4. /\ u[n] = e
      /\ \A j \in DOMAIN s : u[s[j]].kind = t[s[j]].kind
      /\ \A K : Count(u, s, K) = Count(t, s, K)
  <2>1. s = Open(t, st)  OBVIOUS
  <2> HIDE DEF s
  <2> QED BY <2>1, SameTree
<1>5. Hangs(t, s, ex, q) /\ q[1] = Len(s) /\ d = Count(t, s, {"block"}) /\ l = Count(t, s, LoopKinds)
  BY DEF Parses
<1>6. Suits(t, s, e) /\ Grows(x, s, n) /\ path2 = Behind(e, n)  OBVIOUS
<1> HIDE DEF s, n
<1>7. /\ x \in Seq(Nat) /\ Len(x) = Len(s) + 1 /\ \A i \in 1..Len(s) : x[i] = s[i]
      /\ x[Len(s) + 1] = n
  <2>1. NatGrows(x, s, n)  BY <1>3, <1>6 DEF NatGrows
  <2> QED BY <2>1, NatGrowsTo
<1>8. \A K : Count(u, x, K) = Count(t, s, K) + (IF e.kind \in K THEN 1 ELSE 0)
  <2>1. NatGrows(x, s, n)  BY <1>3, <1>6 DEF NatGrows
  <2> QED BY <2>1, <1>4, NatGrowsTo
<1>9. Hangs(u, x, ex, q)
  <2>1. q[1] <= Len(x) /\ \A i \in 1..q[1] : x[i] = s[i] /\ u[s[i]].kind = t[s[i]].kind
    BY <1>3, <1>4, <1>5, <1>7
  <2> QED BY <1>3, <1>5, <1>7, <2>1, HangsOn
<1>10. Belongs(u, x, item, q[1] + 1, q[1])
  <2>1. Span(item) = 1 /\ item \notin {"stmt", "case"}  BY DEF Span, Items
  <2>2. u[x[q[1] + 1]].kind \in Awaits(item)  BY <1>4, <1>5, <1>7
  <2> QED BY <2>1, <2>2 DEF Belongs
<1>11. Hangs(u, x, ex2, q2) /\ q2[1] = Len(x)
  <2>1. item \in Items /\ q[1] + 1 \in Nat /\ q[1] + 1 <= Len(x) /\ Len(x) = q[1] + 1
    BY <1>3, <1>5, <1>7
  <2>2. Pushes(u, x, ex, q, item, q[1] + 1, ex2, q2)  BY <1>7, <1>9, <1>10, <2>1 DEF Pushes
  <2> QED BY <2>1, <2>2, HangsPush
<1>12. d2 = Count(u, x, {"block"}) /\ l2 = Count(u, x, LoopKinds)
  BY <1>5, <1>8
<1> QED BY <1>2, <1>6, <1>11, <1>12, Grown DEF s, n

(* The item at hand turns into another one, or is complete.                  *)
LEMMA Turns ==
  ASSUME NEW t, NEW st, NEW q, NEW ex, NEW path, NEW d, NEW l, Parses(t, st, q, ex, path, d, l),
         ex # <<>>, NEW e \in NodeType, NEW x \in Seq(Nat),
         Joins(t, Open(t, st), path, e, Len(t) + 1, x), Suits(t, Open(t, st), e),
         NEW u, Grows(u, t, e), NEW v, Grows(v, st, x),
         NEW ex1, Drops(ex1, ex), NEW q1, Drops(q1, q),
         q1[1] <= Len(x), \A i \in 1..q1[1] : x[i] = Open(t, st)[i],
         NEW item \in Items, Belongs(u, x, item, Len(x), q1[1]),
         NEW ex2, Leads(ex2, item, ex1), NEW q2, Leads(q2, Len(x), q1),
         NEW path2, path2 = Behind(e, Len(t) + 1),
         NEW d2, d2 = Count(u, x, {"block"}), NEW l2, l2 = Count(u, x, LoopKinds)
  PROVE  Parses(u, v, q2, ex2, path2, d2, l2)
<1> DEFINE s == Open(t, st)
<1>1. s \in Seq(Nat) /\ Hangs(t, s, ex, q) /\ q[1] = Len(s) /\ Len(s) \in Nat /\ DOMAIN s = 1..Len(s)
  BY ParsesShape DEF Parses
<1>2. \A j \in DOMAIN s : u[s[j]].kind = t[s[j]].kind
  <2>1. s = Open(t, st)  OBVIOUS
  <2> HIDE DEF s
  <2> QED BY <2>1, SameTree
<1>3. \A i \in 1..q1[1] : x[i] = s[i]  OBVIOUS
<1> HIDE DEF s
<1>4. Hangs(t, s, ex1, q1) /\ q1[1] \in Nat /\ q1[1] <= q[1]
  <2>1. Pops(t, s, ex, q, ex1, q1)  BY <1>1 DEF Pops
  <2>2. /\ Hangs(t, s, ex1, q1) /\ q1[1] \in Nat /\ q[1] \in Nat /\ Head(ex) \in Items
        /\ q1[1] + Span(Head(ex)) = q[1]
    BY <2>1, HangsPop
  <2>3. Span(Head(ex)) \in Nat  BY <2>2, Spans
  <2> QED BY <2>2, <2>3
<1>5. Hangs(u, x, ex1, q1)
  <2>1. ASSUME NEW i \in 1..q1[1] PROVE x[i] = s[i] /\ u[s[i]].kind = t[s[i]].kind
    <3>1. i \in DOMAIN s  BY <1>1, <1>4
    <3> QED BY <1>2, <1>3, <3>1
  <2> QED BY <1>1, <1>4, <2>1, HangsOn
<1>6. Hangs(u, x, ex2, q2) /\ q2[1] = Len(x)
  <2>1. Len(x) \in Nat /\ Len(x) <= Len(x)  OBVIOUS
  <2>2. Pushes(u, x, ex1, q1, item, Len(x), ex2, q2)  BY <1>5, <2>1 DEF Pushes
  <2> QED BY <2>2, HangsPush
<1> QED BY <1>6, Grown

(* What the item at hand says of the stack.                                  *)
LEMMA AtHand ==
  ASSUME NEW t, NEW st, NEW q, NEW ex, NEW path, NEW d, NEW l, Parses(t, st, q, ex, path, d, l),
         ex # <<>>, NEW q1, Drops(q1, q), NEW s, s = Open(t, st), Head(ex) # "stmt"
  PROVE  /\ s # <<>> /\ s \in Seq(Nat) /\ Head(ex) \in Items
         /\ Last(s) \in 1..Len(t) /\ t[Last(s)].kind \in Awaits(Head(ex))
         /\ q1[1] + Span(Head(ex)) = Len(s) /\ q1[1] \in Nat
         /\ Head(ex) = "case" => Len(s) >= 2 /\ t[s[Len(s) - 1]].kind = "switch"
<1>1. /\ s \in Seq(Nat) /\ Hangs(t, s, ex, q) /\ q[1] = Len(s) /\ Len(s) \in Nat
      /\ \A j \in DOMAIN s : s[j] \in 1..Len(t)
  BY ParsesShape DEF Parses
<1>2. PICK ex1 : Drops(ex1, ex)  BY DEF Drops
<1>3. /\ q1[1] \in Nat /\ q[1] \in Nat /\ Head(ex) \in Items
      /\ q1[1] + Span(Head(ex)) = q[1] /\ Belongs(t, s, Head(ex), q[1], q1[1])
  <2>1. Pops(t, s, ex, q, ex1, q1)  BY <1>1, <1>2 DEF Pops
  <2> QED BY <2>1, HangsPop
<1>4. Span(Head(ex)) \in 1..2 /\ (Head(ex) = "case" => Span(Head(ex)) = 2)
  BY <1>3, Spans
<1>5. Len(s) >= 1 /\ s # <<>>
  <2>1. Len(s) >= 1  BY <1>1, <1>3, <1>4
  <2> QED BY <1>1, <2>1, EmptySeq
<1>6. Last(s) = s[Len(s)] /\ Len(s) \in DOMAIN s  BY <1>1, <1>5 DEF Last
<1>7. t[Last(s)].kind \in Awaits(Head(ex))  BY <1>1, <1>3, <1>6 DEF Belongs
<1>8. Head(ex) = "case" => Len(s) >= 2 /\ t[s[Len(s) - 1]].kind = "switch"
  BY <1>1, <1>3, <1>4 DEF Belongs
<1> QED BY <1>1, <1>3, <1>5, <1>6, <1>7, <1>8

(* Taking the top off.                                                       *)
Loses(f, s) == s \in Seq(Nat) /\ s # <<>> /\ f = Front(s)

LEMMA TakesTop ==
  ASSUME NEW s, NEW f, Loses(f, s)
  PROVE  /\ f \in Seq(Nat) /\ Len(f) = Len(s) - 1 /\ Len(s) \in Nat /\ Len(s) >= 1
         /\ DOMAIN f = 1..Len(s) - 1 /\ DOMAIN s = 1..Len(s)
         /\ \A i \in 1..Len(s) - 1 : f[i] = s[i]
         /\ \A t, K : /\ Count(t, f, K) \in Nat
                      /\ Count(t, s, K) = Count(t, f, K) + (IF t[Last(s)].kind \in K THEN 1 ELSE 0)
<1> DEFINE N == Nat
<1>1. s \in Seq(N) /\ s # <<>> /\ f = Front(s)  BY DEF Loses
<1>2. ASSUME NEW t, NEW K
      PROVE  /\ Count(t, f, K) \in Nat
             /\ Count(t, s, K) = Count(t, f, K) + (IF t[Last(s)].kind \in K THEN 1 ELSE 0)
  BY <1>1, CountPop
<1> HIDE DEF N
<1>3. /\ f \in Seq(N) /\ Len(f) = Len(s) - 1 /\ Len(s) \in Nat /\ Len(s) >= 1
      /\ DOMAIN f = 1..Len(s) - 1 /\ DOMAIN s = 1..Len(s)
      /\ \A i \in 1..Len(s) - 1 : f[i] = s[i]
  BY <1>1, FrontOf
<1> QED BY <1>2, <1>3 DEF N

(* A construct ends; what was expected behind it is at hand.                 *)
LEMMA Ending ==
  ASSUME NEW t, NEW st, NEW q, NEW ex, NEW path, NEW d, NEW l, Parses(t, st, q, ex, path, d, l),
         ex # <<>>, Head(ex) \notin {"stmt", "case"},
         NEW e \in NodeType, e.kind \in Ends, Awaits(Head(ex)) \subseteq Closes(e.kind),
         e.within = IF e.kind = "endif" THEN path ELSE Front(path),
         NEW u, Grows(u, t, e), NEW v, Grows(v, st, Front(Open(t, st))),
         NEW ex1, Drops(ex1, ex), NEW q1, Drops(q1, q),
         NEW d2, d2 = d - (IF Head(ex) = "list" THEN 1 ELSE 0),
         NEW l2, l2 = l - (IF e.kind \in {"endwhile", "enddo", "endfor"} THEN 1 ELSE 0)
  PROVE  Parses(u, v, q1, ex1, e.within, d2, l2)
<1> DEFINE s == Open(t, st)
           x == Front(s)
<1>1. /\ s # <<>> /\ s \in Seq(Nat) /\ Last(s) \in 1..Len(t) /\ Head(ex) \in Items
      /\ t[Last(s)].kind \in Awaits(Head(ex))
      /\ q1[1] + Span(Head(ex)) = Len(s) /\ q1[1] \in Nat
  <2>1. s = Open(t, st)  OBVIOUS
  <2> HIDE DEF s
  <2> QED BY <2>1, AtHand
<1>2. e.kind \notin Scoped \cup {"if", "else"} \cup Leaves
  BY DEF Leaves, Scoped, Ends, LoopKinds, Declarations
<1>3. Joins(t, s, path, e, Len(t) + 1, x)
  <2>1. TopIn(t, s, Closes(e.kind))  BY <1>1 DEF TopIn
  <2>2. e.within = IF e.kind \in Ends \ {"endif"} THEN Front(path) ELSE path  OBVIOUS
  <2> HIDE DEF s
  <2> QED BY <1>2, <2>1, <2>2 DEF Joins
<1>4. Suits(t, s, e)  BY DEF Suits, Ends, LoopKinds, Declarations
<1>5. /\ \A k \in 1..Len(t) : u[k] = t[k]
      /\ \A j \in DOMAIN s : u[s[j]].kind = t[s[j]].kind
      /\ \A K : Count(u, s, K) = Count(t, s, K)
  <2>1. s = Open(t, st)  OBVIOUS
  <2> HIDE DEF s
  <2> QED BY <2>1, SameTree
<1>6. Hangs(t, s, ex, q) /\ q[1] = Len(s) /\ d = Count(t, s, {"block"}) /\ l = Count(t, s, LoopKinds)
  BY DEF Parses
<1>7. Grows(v, st, x) /\ x = Front(s)  OBVIOUS
<1> HIDE DEF s, x
<1>8. /\ x \in Seq(Nat) /\ Len(x) = Len(s) - 1 /\ Len(s) \in Nat /\ Len(s) >= 1
      /\ DOMAIN x = 1..Len(s) - 1 /\ DOMAIN s = 1..Len(s)
      /\ \A i \in 1..Len(s) - 1 : x[i] = s[i]
      /\ \A K : /\ Count(u, x, K) \in Nat
                /\ Count(u, s, K) = Count(u, x, K) + (IF u[Last(s)].kind \in K THEN 1 ELSE 0)
  <2>1. Loses(x, s)  BY <1>1, <1>7 DEF Loses
  <2> QED BY <2>1, TakesTop
<1>9. Span(Head(ex)) = 1 /\ q1[1] = Len(x)
  <2>1. Span(Head(ex)) = 1  BY DEF Span
  <2> QED BY <1>1, <1>8, <2>1
<1>10. Hangs(u, x, ex1, q1)
  <2>1. Pops(t, s, ex, q, ex1, q1)  BY <1>1, <1>6 DEF Pops
  <2>2. Hangs(t, s, ex1, q1)  BY <2>1, HangsPop
  <2>3. \A i \in 1..q1[1] : x[i] = s[i] /\ u[s[i]].kind = t[s[i]].kind
    BY <1>5, <1>8, <1>9
  <2>4. q1[1] <= Len(x) /\ x \in Seq(Nat)  BY <1>1, <1>8, <1>9
  <2> QED BY <1>1, <2>2, <2>3, <2>4, HangsOn
<1>11. u[Last(s)].kind = t[Last(s)].kind  BY <1>1, <1>5
<1>12. d2 = Count(u, x, {"block"})
  <2>1. u[Last(s)].kind = "block" <=> Head(ex) = "list"
    BY <1>1, <1>11 DEF Awaits, Items
  <2> QED BY <1>5, <1>6, <1>8, <2>1
<1>13. l2 = Count(u, x, LoopKinds)
  <2>1. u[Last(s)].kind \in LoopKinds <=> e.kind \in {"endwhile", "enddo", "endfor"}
    BY <1>1, <1>11 DEF Awaits, Items, Closes, Ends, LoopKinds
  <2> QED BY <1>5, <1>6, <1>8, <2>1
<1>14. e.within = Behind(e, Len(t) + 1)  BY <1>2 DEF Behind
<1> QED BY <1>3, <1>4, <1>7, <1>9, <1>10, <1>12, <1>13, <1>14, Grown DEF s

(* The items of a switch and of an if change with the node that is read.     *)
LEMMA CaseEnds ==
  ASSUME NEW t, NEW st, NEW q, NEW ex, NEW path, NEW d, NEW l, Parses(t, st, q, ex, path, d, l),
         ex # <<>>, Head(ex) = "case",
         NEW e \in NodeType, e.kind = "endcase", e.within = Front(path),
         NEW u, Grows(u, t, e), NEW ex1, Drops(ex1, ex), NEW ex2, Leads(ex2, "switch", ex1)
  PROVE  \E v, q2 : Parses(u, v, q2, ex2, e.within, d, l)
<1> DEFINE s == Open(t, st)
           x == Front(s)
<1>1. PICK q1 : Drops(q1, q)  BY DEF Drops
<1>2. /\ s # <<>> /\ s \in Seq(Nat) /\ Last(s) \in 1..Len(t)
      /\ t[Last(s)].kind \in {"case", "default"}
      /\ q1[1] + 2 = Len(s) /\ q1[1] \in Nat /\ Len(s) >= 2
      /\ t[s[Len(s) - 1]].kind = "switch"
  <2>1. s = Open(t, st) /\ Head(ex) # "stmt"  OBVIOUS
  <2> HIDE DEF s
  <2>2. Awaits("case") = {"case", "default"} /\ Span("case") = 2  BY DEF Awaits, Span
  <2> QED BY <1>1, <2>1, <2>2, AtHand, SMTT(30)
<1>3. e.kind \notin Scoped \cup {"if", "else"} \cup Leaves /\ e.kind \in Ends \ {"endif"}
  BY DEF Leaves, Scoped, Ends, LoopKinds, Declarations
<1>4. Joins(t, s, path, e, Len(t) + 1, x)
  <2>1. TopIn(t, s, Closes(e.kind))  BY <1>2 DEF TopIn, Closes
  <2> HIDE DEF s
  <2> QED BY <1>3, <2>1 DEF Joins
<1>5. Suits(t, s, e)  BY DEF Suits, Declarations
<1>6. /\ \A k \in 1..Len(t) : u[k] = t[k]
      /\ \A j \in DOMAIN s : u[s[j]].kind = t[s[j]].kind
      /\ \A K : Count(u, s, K) = Count(t, s, K)
  <2>1. s = Open(t, st)  OBVIOUS
  <2> HIDE DEF s
  <2> QED BY <2>1, SameTree
<1>7. d = Count(t, s, {"block"}) /\ l = Count(t, s, LoopKinds)
  BY DEF Parses
<1>8. x = Front(s)  OBVIOUS
<1> HIDE DEF x
<1>9. /\ x \in Seq(Nat) /\ Len(x) = Len(s) - 1 /\ Len(s) \in Nat /\ Len(s) >= 1
      /\ DOMAIN x = 1..Len(s) - 1 /\ DOMAIN s = 1..Len(s)
      /\ \A i \in 1..Len(s) - 1 : x[i] = s[i]
      /\ \A K : /\ Count(u, x, K) \in Nat
                /\ Count(u, s, K) = Count(u, x, K) + (IF u[Last(s)].kind \in K THEN 1 ELSE 0)
  <2> HIDE DEF s
  <2>1. Loses(x, s)  BY <1>2, <1>8 DEF Loses
  <2> QED BY <2>1, TakesTop
<1>10. Belongs(u, x, "switch", Len(x), q1[1])
  <2> HIDE DEF s
  <2>1. Len(x) = q1[1] + 1 /\ Len(x) \in 1..Len(s) - 1 /\ Len(s) - 1 \in DOMAIN s
    BY <1>2, <1>9, SMTT(30)
  <2>2. u[x[Len(x)]].kind = "switch"  BY <1>2, <1>6, <1>9, <2>1
  <2> QED BY <2>1, <2>2 DEF Belongs, Span, Awaits
<1>11. d = Count(u, x, {"block"}) /\ l = Count(u, x, LoopKinds)
  <2> HIDE DEF s
  <2>1. u[Last(s)].kind \notin {"block"} \cup LoopKinds  BY <1>2, <1>6 DEF LoopKinds
  <2> QED BY <1>6, <1>7, <1>9, <2>1
<1>12. PICK v, q2 : Grows(v, st, x) /\ Leads(q2, Len(x), q1)  BY DEF Grows, Leads
<1>13. "switch" \in Items /\ e.within = Behind(e, Len(t) + 1)  BY <1>3 DEF Items, Behind
<1>14. q1[1] <= Len(x) /\ \A i \in 1..q1[1] : x[i] = s[i]
  <2> HIDE DEF s
  <2>1. q1[1] <= Len(x)  BY <1>2, <1>9, SMTT(30)
  <2>2. ASSUME NEW i \in 1..q1[1] PROVE x[i] = s[i]
    <3>1. i \in 1..Len(s) - 1  BY <1>2, <1>9, SMTT(30)
    <3> QED BY <1>9, <3>1
  <2> QED BY <2>1, <2>2
<1>15. Parses(u, v, q2, ex2, Behind(e, Len(t) + 1), d, l)
  BY <1>1, <1>4, <1>5, <1>9, <1>10, <1>11, <1>12, <1>13, <1>14, Turns
<1> QED BY <1>13, <1>15

LEMMA CaseOpens ==
  ASSUME NEW t, NEW st, NEW q, NEW ex, NEW path, NEW d, NEW l, Parses(t, st, q, ex, path, d, l),
         ex # <<>>, Head(ex) = "switch",
         NEW e \in NodeType, e.kind \in {"case", "default"}, e.within = path,
         NEW u, Grows(u, t, e), NEW ex1, Drops(ex1, ex), NEW ex2, Leads(ex2, "case", ex1)
  PROVE  \E v, q2 : Parses(u, v, q2, ex2, Append(path, Len(t) + 1), d, l)
<1> DEFINE s == Open(t, st)
           n == Len(t) + 1
<1>1. PICK q1 : Drops(q1, q)  BY DEF Drops
<1>2. /\ s # <<>> /\ s \in Seq(Nat) /\ Last(s) \in 1..Len(t)
      /\ t[Last(s)].kind = "switch" /\ q1[1] + 1 = Len(s) /\ q1[1] \in Nat
  <2>1. s = Open(t, st) /\ Head(ex) # "stmt"  OBVIOUS
  <2> HIDE DEF s
  <2>2. Awaits("switch") = {"switch"} /\ Span("switch") = 1  BY DEF Awaits, Span
  <2> QED BY <1>1, <2>1, <2>2, AtHand
<1>3. e.kind \notin {"else"} \cup Ends \cup Leaves /\ e.kind \in Scoped
  BY DEF Leaves, Scoped, Ends, LoopKinds, Declarations
<1>4. n \in Nat /\ Len(s) \in Nat /\ DOMAIN s = 1..Len(s)
  BY ParsesShape
<1>5. PICK x : Grows(x, s, n)  BY DEF Grows
<1>6. Joins(t, s, path, e, n, x)
  <2> HIDE DEF s, n
  <2> QED BY <1>3, <1>5 DEF Joins, Grows
<1>7. Suits(t, s, e)  BY <1>2 DEF Suits, Declarations, TopIn
<1>8. /\ \A k \in 1..Len(t) : u[k] = t[k]
      /\ u[n] = e
      /\ \A j \in DOMAIN s : u[s[j]].kind = t[s[j]].kind
      /\ \A K : Count(u, s, K) = Count(t, s, K)
  <2>1. s = Open(t, st)  OBVIOUS
  <2> HIDE DEF s
  <2> QED BY <2>1, SameTree
<1>9. d = Count(t, s, {"block"}) /\ l = Count(t, s, LoopKinds)
  BY DEF Parses
<1>10. /\ x \in Seq(Nat) /\ Len(x) = Len(s) + 1
       /\ \A i \in 1..Len(s) : x[i] = s[i]
       /\ x[Len(s) + 1] = n
       /\ \A K : Count(u, x, K) = Count(u, s, K) + (IF u[n].kind \in K THEN 1 ELSE 0)
  <2> HIDE DEF s, n
  <2>1. NatGrows(x, s, n)  BY <1>2, <1>4, <1>5 DEF NatGrows
  <2> QED BY <2>1, NatGrowsTo
<1>11. Belongs(u, x, "case", Len(x), q1[1])
  <2> HIDE DEF s, n
  <2>1. Len(x) = q1[1] + 2 /\ Len(x) - 1 = Len(s) /\ Len(s) \in 1..Len(s)
    <3>1. Len(x) = Len(s) + 1  BY <1>10
    <3> QED BY <1>2, <1>4, <3>1
  <2>2. u[x[Len(x)]].kind \in {"case", "default"}  BY <1>8, <1>10
  <2>3. u[x[Len(x) - 1]].kind = "switch"  BY <1>2, <1>4, <1>8, <1>10, <2>1 DEF Last
  <2> QED BY <2>1, <2>2, <2>3 DEF Belongs, Span, Awaits
<1>12. d = Count(u, x, {"block"}) /\ l = Count(u, x, LoopKinds)
  <2> HIDE DEF s, n
  <2>1. u[n].kind \notin {"block"} \cup LoopKinds  BY <1>8 DEF LoopKinds
  <2>2. d \in Nat /\ l \in Nat  BY ParsesShape
  <2> QED BY <1>8, <1>9, <1>10, <2>1, <2>2
<1>13. PICK v, q2 : Grows(v, st, x) /\ Leads(q2, Len(x), q1)  BY DEF Grows, Leads
<1>14. "case" \in Items  BY DEF Items
<1>15. q1[1] <= Len(x) /\ \A i \in 1..q1[1] : x[i] = s[i]
  <2> HIDE DEF s
  <2>1. q1[1] <= Len(x)  BY <1>2, <1>4, <1>10
  <2>2. ASSUME NEW i \in 1..q1[1] PROVE x[i] = s[i]
    <3>1. i \in 1..Len(s)  BY <1>2, <1>4
    <3> QED BY <1>10, <3>1
  <2> QED BY <2>1, <2>2
<1>16. Parses(u, v, q2, ex2, Behind(e, n), d, l)
  BY <1>1, <1>6, <1>7, <1>10, <1>11, <1>12, <1>13, <1>14, <1>15, Turns
<1>17. Behind(e, n) = Append(path, Len(t) + 1)  BY <1>3 DEF Behind
<1> QED BY <1>16, <1>17

LEMMA Elses ==
  ASSUME NEW t, NEW st, NEW q, NEW ex, NEW path, NEW d, NEW l, Parses(t, st, q, ex, path, d, l),
         ex # <<>>, Head(ex) = "else?", NEW e \in NodeType, e.kind = "else", e.within = path,
         NEW u, Grows(u, t, e), NEW ex1, Drops(ex1, ex), NEW ex2, Leads(ex2, "endif", ex1)
  PROVE  \E v, q2 : Parses(u, v, q2, ex2, path, d, l)
<1> DEFINE s == Open(t, st)
           f == Front(s)
           n == Len(t) + 1
<1>1. PICK q1 : Drops(q1, q)  BY DEF Drops
<1>2. /\ s # <<>> /\ s \in Seq(Nat) /\ Last(s) \in 1..Len(t)
      /\ t[Last(s)].kind = "if" /\ q1[1] + 1 = Len(s) /\ q1[1] \in Nat
  <2>1. s = Open(t, st) /\ Head(ex) # "stmt"  OBVIOUS
  <2> HIDE DEF s
  <2>2. Awaits("else?") = {"if"} /\ Span("else?") = 1  BY DEF Awaits, Span
  <2> QED BY <1>1, <2>1, <2>2, AtHand
<1>3. e.kind \notin Scoped \cup {"if"} \cup Ends \cup Leaves
  BY DEF Leaves, Scoped, Ends, LoopKinds, Declarations
<1>4. n \in Nat /\ Len(s) \in Nat /\ DOMAIN s = 1..Len(s)
  BY ParsesShape
<1>5. PICK x : Grows(x, f, n)  BY DEF Grows
<1>6. Joins(t, s, path, e, n, x)
  <2>1. TopIn(t, s, {"if"})  BY <1>2 DEF TopIn
  <2> HIDE DEF s, n
  <2> QED BY <1>3, <1>5, <2>1 DEF Joins, Grows
<1>7. Suits(t, s, e)  BY DEF Suits, Declarations
<1>8. /\ \A k \in 1..Len(t) : u[k] = t[k]
      /\ u[n] = e
      /\ \A j \in DOMAIN s : u[s[j]].kind = t[s[j]].kind
      /\ \A K : Count(u, s, K) = Count(t, s, K)
  <2>1. s = Open(t, st)  OBVIOUS
  <2> HIDE DEF s
  <2> QED BY <2>1, SameTree
<1>9. d = Count(t, s, {"block"}) /\ l = Count(t, s, LoopKinds)
  BY DEF Parses
<1>10. f = Front(s)  OBVIOUS
<1> HIDE DEF f
<1>11. /\ f \in Seq(Nat) /\ Len(f) = Len(s) - 1 /\ Len(s) >= 1
       /\ \A i \in 1..Len(s) - 1 : f[i] = s[i]
       /\ \A K : /\ Count(u, f, K) \in Nat
                 /\ Count(u, s, K) = Count(u, f, K) + (IF u[Last(s)].kind \in K THEN 1 ELSE 0)
  <2> HIDE DEF s
  <2>1. Loses(f, s)  BY <1>2, <1>10 DEF Loses
  <2> QED BY <2>1, TakesTop
<1>12. /\ x \in Seq(Nat) /\ Len(x) = Len(f) + 1
       /\ \A i \in 1..Len(f) : x[i] = f[i]
       /\ x[Len(f) + 1] = n
       /\ \A K : Count(u, x, K) = Count(u, f, K) + (IF u[n].kind \in K THEN 1 ELSE 0)
  <2> HIDE DEF s, n
  <2>1. NatGrows(x, f, n)  BY <1>4, <1>5, <1>11 DEF NatGrows
  <2> QED BY <2>1, NatGrowsTo
<1>13. Belongs(u, x, "endif", Len(x), q1[1])
  <2> HIDE DEF s, n
  <2>1. Len(x) = q1[1] + 1 /\ Len(x) = Len(f) + 1  BY <1>2, <1>4, <1>11, <1>12
  <2>2. u[x[Len(x)]].kind = "else"  BY <1>8, <1>12
  <2> QED BY <2>1, <2>2 DEF Belongs, Span, Awaits
<1>14. d = Count(u, x, {"block"}) /\ l = Count(u, x, LoopKinds)
  <2> HIDE DEF s, n
  <2>1. u[n].kind \notin {"block"} \cup LoopKinds  BY <1>8 DEF LoopKinds
  <2>2. u[Last(s)].kind \notin {"block"} \cup LoopKinds  BY <1>2, <1>8 DEF LoopKinds
  <2> QED BY <1>8, <1>9, <1>11, <1>12, <2>1, <2>2
<1>15. PICK v, q2 : Grows(v, st, x) /\ Leads(q2, Len(x), q1)  BY DEF Grows, Leads
<1>16. "endif" \in Items /\ path = Behind(e, n)  BY <1>3 DEF Items, Behind
<1>17. q1[1] <= Len(x) /\ \A i \in 1..q1[1] : x[i] = s[i]
  <2> HIDE DEF s
  <2>1. q1[1] <= Len(x)  BY <1>2, <1>4, <1>11, <1>12, SMTT(30)
  <2>2. ASSUME NEW i \in 1..q1[1] PROVE x[i] = s[i]
    <3>1. i \in 1..Len(s) - 1 /\ i \in 1..Len(f)  BY <1>2, <1>4, <1>11, SMTT(30)
    <3> QED BY <1>11, <1>12, <3>1
  <2> QED BY <2>1, <2>2
<1>18. Parses(u, v, q2, ex2, path, d, l)
  BY <1>1, <1>6, <1>7, <1>12, <1>13, <1>14, <1>15, <1>16, <1>17, Turns
<1> QED BY <1>18

LEMMA RestOf ==
  ASSUME NEW t, NEW st, NEW q, NEW ex, NEW path, NEW d, NEW l, Parses(t, st, q, ex, path, d, l),
         ex # <<>>, NEW ex2, Remains(ex2, ex)
  PROVE  \E q2 : Parses(t, st, q2, ex2, path, d, l)
<1>1. CASE Head(ex) = "stmt"
  <2>1. Drops(ex2, ex)  BY <1>1 DEF Remains, Drops
  <2>2. PICK q2 : Drops(q2, q)  BY DEF Drops
  <2>3. Parses(t, st, q2, ex2, path, d, l)  BY <1>1, <2>1, <2>2, DropsStmt
  <2> QED BY <2>3
<1>2. CASE Head(ex) # "stmt"
  <2>1. ex2 = ex  BY <1>2 DEF Remains
  <2> QED BY <2>1
<1> QED BY <1>1, <1>2

(* A leaf, and a statement that holds others.                                *)
LEMMA LeafRead ==
  ASSUME NEW t, NEW st, NEW q, NEW ex, NEW path, NEW d, NEW l, Parses(t, st, q, ex, path, d, l),
         NEW e \in NodeType, e.kind \in Leaves, e.within = path, Suits(t, Open(t, st), e),
         NEW u, Grows(u, t, e), ex # <<>>, NEW ex2, Remains(ex2, ex)
  PROVE  \E v, q2 : Parses(u, v, q2, ex2, path, d, l)
<1>1. PICK v : Grows(v, st, Open(t, st))  BY DEF Grows
<1>2. Parses(u, v, q, ex, path, d, l)  BY <1>1, ReadsLeaf
<1>3. \E q2 : Parses(u, v, q2, ex2, path, d, l)  BY <1>2, RestOf
<1> QED BY <1>3

LEMMA OpenRead ==
  ASSUME NEW t, NEW st, NEW q, NEW ex, NEW path, NEW d, NEW l, Parses(t, st, q, ex, path, d, l),
         NEW e \in NodeType, e.kind \in Scoped \cup {"if"}, e.within = path,
         Suits(t, Open(t, st), e), NEW item \in Items \ {"stmt", "case"}, e.kind \in Awaits(item),
         NEW u, Grows(u, t, e), ex # <<>>, NEW ex1, Remains(ex1, ex), NEW ex2, Leads(ex2, item, ex1),
         NEW path2, path2 = Behind(e, Len(t) + 1),
         NEW d2, d2 = d + (IF e.kind = "block" THEN 1 ELSE 0),
         NEW l2, l2 = l + (IF e.kind \in LoopKinds THEN 1 ELSE 0)
  PROVE  \E v, q2 : Parses(u, v, q2, ex2, path2, d2, l2)
<1>1. PICK q1 : Parses(t, st, q1, ex1, path, d, l)  BY RestOf
<1>2. PICK x, v, q2 : /\ Grows(x, Open(t, st), Len(t) + 1) /\ Grows(v, st, x)
                      /\ Leads(q2, q1[1] + 1, q1)
  BY DEF Grows, Leads
<1>3. Parses(u, v, q2, ex2, path2, d2, l2)  BY <1>1, <1>2, Opens, ZenonT(30)
<1> QED BY <1>3

(* A statement is read first of all.                                         *)
LEMMA StmtFirst ==
  ASSUME NEW t, NEW st, NEW q, NEW ex, NEW path, NEW d, NEW l, Parses(t, st, q, ex, path, d, l),
         NEW ex2, Leads(ex2, "stmt", ex)
  PROVE  \E q2 : Parses(t, st, q2, ex2, path, d, l)
<1>1. PICK q2 : Leads(q2, q[1], q)  BY DEF Leads
<1>2. Parses(t, st, q2, ex2, path, d, l)  BY <1>1, AddsStmt
<1> QED BY <1>2

LEMMA TwoFirst ==
  ASSUME NEW a, NEW b, NEW s \in Seq(Items), a \in Items, b \in Items, NEW c, Leads(c, b, s),
         NEW r, r = <<a, b>> \o s
  PROVE  Leads(r, a, c)
<1>1. /\ c \in Seq(Items) /\ Len(c) = Len(s) + 1 /\ c[1] = b /\ Len(s) \in Nat
      /\ \A i \in 1..Len(s) : c[i + 1] = s[i]
  BY ConsOf
<1>2. PICK z : Leads(z, a, c)  BY DEF Leads
<1>3. /\ z \in Seq(Items) /\ Len(z) = Len(s) + 2 /\ z[1] = a
      /\ \A i \in 1..Len(c) : z[i + 1] = c[i]
  BY <1>1, <1>2, ConsOf
<1>4. r \in Seq(Items) /\ Len(r) = Len(s) + 2 /\ r[1] = a /\ r[2] = b
      /\ \A i \in 1..Len(s) : r[i + 2] = s[i]
  OBVIOUS
<1>5. ASSUME NEW i \in 1..Len(s) + 2 PROVE r[i] = z[i]
  <2>1. CASE i = 1  BY <1>3, <1>4, <2>1
  <2>2. CASE i = 2
    <3>1. 1 \in 1..Len(c) /\ z[1 + 1] = c[1]  BY <1>1, <1>3
    <3> QED BY <1>1, <1>4, <2>2, <3>1
  <2>3. CASE i \notin {1, 2}
    <3>1. PICK j \in 1..Len(s) : i = j + 2
      <4>1. i - 2 \in 1..Len(s) /\ i = (i - 2) + 2  BY <1>1, <2>3
      <4> QED BY <4>1
    <3>2. j + 1 \in 1..Len(c) /\ (j + 1) + 1 = i  BY <1>1, <3>1
    <3>3. z[(j + 1) + 1] = c[j + 1]  BY <1>3, <3>2
    <3> QED BY <1>1, <1>4, <3>1, <3>2, <3>3
  <2> QED BY <2>1, <2>2, <2>3
<1>6. r = z
  <2>1. Len(r) \in Nat /\ Len(r) = Len(z)  BY <1>1, <1>3, <1>4
  <2> QED BY <1>1, <1>3, <1>4, <1>5, <2>1, SeqEqual
<1> QED BY <1>2, <1>6

-----------------------------------------------------------------------------
(* The steps of the parser *)

LEMMA FreshFields ==
  ASSUME parser \in ParserType, NEW kind
  PROVE  /\ Fresh(kind) \in ParserType
         /\ Fresh(kind).depth = parser.depth /\ Fresh(kind).loops = parser.loops
         /\ Fresh(kind).epoch = parser.epoch /\ Fresh(kind).noElse = 0
<1>1. kind \in DOMAIN Weight => Weight[kind] \in Nat  BY CapacityAssumption
<1>2. parser.room \in Int  BY DEF ParserType
<1>3. (IF kind \in DOMAIN Weight THEN parser.room - Weight[kind] ELSE parser.room) \in Int
  BY <1>1, <1>2
<1> QED BY <1>3 DEF Fresh, ParserType

IsNode(e, kind, name, how) ==
  kind \in Kinds /\ name \in NodeNames /\ how \in Hows /\ e = Node(kind, name, how)

LEMMA NodeFields ==
  ASSUME ParseOK, NEW e, NEW kind, NEW name, NEW how, IsNode(e, kind, name, how)
  PROVE  /\ e \in NodeType /\ e.kind = kind /\ e.name = name /\ e.how = how /\ e.within = within
<1>1. within \in Seq(Nat)  BY ParsesShape DEF ParseOK
<1>2. parser.depth \in Nat /\ parser.epoch \in Nat
  <2>1. parser \in ParserType  BY DEF ParseOK
  <2>2. parser.depth \in 0..MaxScopeDepth /\ parser.epoch \in Nat  BY <2>1 DEF ParserType
  <2>3. MaxScopeDepth \in Nat  BY CapacityAssumption
  <2> QED BY <2>2, <2>3
<1> QED BY <1>1, <1>2 DEF Node, NodeType, IsNode

LEMMA EndNode ==
  ASSUME ParseOK, expect # <<>>, Head(expect) \notin {"stmt", "else?", "endif"},
         NEW e, NEW kind, e = End(kind, Front(within)), kind \in Ends
  PROVE  e \in NodeType /\ e.kind = kind /\ e.within = Front(within)
<1>1. PICK st, q : Parses(ast, st, q, expect, within, parser.depth, parser.loops)
  BY DEF ParseOK
<1> DEFINE s == Open(ast, st)
           n == Len(ast)
<1>2. /\ TreeOK(ast, st) /\ within = Path(ast, n) /\ s = Stack(st, n) /\ n \in 0..Len(ast)
      /\ n \in Nat
  <2>1. n \in Nat /\ n >= 1 /\ s = st[n] /\ within = Path(ast, n)  BY <1>1, ParsesShape
  <2> QED BY <1>1, <2>1 DEF Parses, Stack
<1>3. /\ s \in Seq(1..n) /\ Rising(s) /\ within \in Seq(1..n) /\ Rising(within)
      /\ ToSet(within) = {k \in ToSet(s) : ast[k].kind \in Scoped}
  BY <1>2, TreeShape
<1>4. PICK q1 : Drops(q1, q)  BY DEF Drops
<1>5. TopIn(ast, s, Scoped)
  <2>1. s = Open(ast, st) /\ Head(expect) # "stmt"  OBVIOUS
  <2> HIDE DEF s
  <2>2. s # <<>> /\ Head(expect) \in Items /\ ast[Last(s)].kind \in Awaits(Head(expect))
    BY <1>1, <1>4, <2>1, AtHand
  <2>3. Awaits(Head(expect)) \subseteq Scoped
    BY <2>2 DEF Items, Awaits, Scoped, LoopKinds
  <2> QED BY <2>2, <2>3 DEF TopIn
<1>6. within # <<>>
  <2> HIDE DEF s, n
  <2> QED BY <1>2, <1>3, <1>5, LastOfBoth
<1>7. Front(within) \in Seq(Nat)
  <2> HIDE DEF s, n
  <2>1. within \in Seq(Nat)  BY <1>1, ParsesShape
  <2> QED BY <1>6, <2>1, FrontOf
<1>8. kind \in Kinds /\ "" \in NodeNames /\ "" \in Hows
  BY DEF Kinds, Ends, LoopKinds, Leaves, NodeNames, Hows
<1> DEFINE m == Node(kind, "", "")
<1>9. IsNode(m, kind, "", "") /\ e = [m EXCEPT !.within = Front(within)]
  BY <1>8 DEF IsNode, End
<1> HIDE DEF m
<1>10. m \in NodeType /\ m.kind = kind  BY <1>9, NodeFields
<1> QED BY <1>7, <1>9, <1>10 DEF NodeType

AtNode(st) == \E q : Parses(ast, st, q, expect, within, parser.depth, parser.loops)

LEMMA LeafStep ==
  ASSUME ParseOK, NEW e \in NodeType, e.kind \in Leaves, e.within = within,
         \A st : AtNode(st) => Suits(ast, Open(ast, st), e),
         expect # <<>>, ReadLeaf(e),
         parser' \in ParserType, parser'.depth = parser.depth, parser'.loops = parser.loops
  PROVE  ParseOK'
<1>1. PICK st, q : Parses(ast, st, q, expect, within, parser.depth, parser.loops)
  BY DEF ParseOK
<1>2. Suits(ast, Open(ast, st), e)  BY <1>1 DEF AtNode
<1>3. Grows(ast', ast, e) /\ Remains(expect', expect) /\ within' = within
  BY DEF ReadLeaf, Rest, Grows, Remains
<1>4. \E v, q2 : Parses(ast', v, q2, expect', within, parser.depth, parser.loops)
  BY <1>1, <1>2, <1>3, LeafRead
<1> QED BY <1>3, <1>4 DEF ParseOK

LEMMA OpenStep ==
  ASSUME ParseOK, NEW e \in NodeType, e.kind \in Scoped \cup {"if"}, e.within = within,
         \A st : AtNode(st) => Suits(ast, Open(ast, st), e),
         NEW item \in Items \ {"stmt", "case"}, e.kind \in Awaits(item),
         NEW inner, inner = <<item>> \/ inner = <<"stmt", item>>,
         NEW changes, NEW path, path = IF e.kind = "if" THEN within ELSE Opened,
         expect # <<>>, ReadOpen(e, inner, changes, path),
         changes \in ParserType,
         changes.depth = parser.depth + (IF e.kind = "block" THEN 1 ELSE 0),
         changes.loops = parser.loops + (IF e.kind \in LoopKinds THEN 1 ELSE 0)
  PROVE  ParseOK'
<1>1. PICK st, q : Parses(ast, st, q, expect, within, parser.depth, parser.loops)
  BY DEF ParseOK
<1>2. Suits(ast, Open(ast, st), e)  BY <1>1 DEF AtNode
<1>3. /\ Grows(ast', ast, e) /\ Remains(Rest, expect) /\ within' = path /\ parser' = changes
      /\ expect' = inner \o Rest
  BY DEF ReadOpen, Rest, Grows, Remains
<1>4. path = Behind(e, Len(ast) + 1)  BY DEF Behind, Opened, Scoped, LoopKinds
<1>5. PICK ex2 : Leads(ex2, item, Rest)  BY DEF Leads
<1>6. PICK v, q2 : Parses(ast', v, q2, ex2, path, changes.depth, changes.loops)
  BY <1>1, <1>2, <1>3, <1>4, <1>5, OpenRead
<1>7. \E v2, q3 : Parses(ast', v2, q3, expect', path, changes.depth, changes.loops)
  <2>1. CASE inner = <<item>>
    <3>1. expect' = ex2  BY <1>3, <1>5, <2>1 DEF Leads
    <3> QED BY <1>6, <3>1
  <2>2. CASE inner = <<"stmt", item>>
    <3>1. Rest \in Seq(Items)
      <4>1. PICK q4 : Parses(ast, st, q4, Rest, within, parser.depth, parser.loops)
        BY <1>1, <1>3, RestOf
      <4> QED BY <4>1 DEF Parses, Hangs
    <3>2. "stmt" \in Items /\ item \in Items  BY DEF Items
    <3>3. expect' = <<"stmt", item>> \o Rest  BY <1>3, <2>2
    <3>4. Leads(expect', "stmt", ex2)  BY <1>5, <3>1, <3>2, <3>3, TwoFirst
    <3>5. \E q3 : Parses(ast', v, q3, expect', path, changes.depth, changes.loops)
      BY <1>6, <3>4, StmtFirst
    <3> QED BY <3>5
  <2> QED BY <2>1, <2>2
<1> QED BY <1>3, <1>7 DEF ParseOK

(* Reading the end of a construct: f is what the parser holds but for depth. *)
Left(changes, f, item, e) ==
  /\ f \in ParserType /\ f.depth = parser.depth /\ f.loops = parser.loops
  /\ changes = [f EXCEPT
       !.depth = @ - (IF item = "list" THEN 1 ELSE 0),
       !.loops = @ - (IF e.kind \in {"endwhile", "enddo", "endfor"} THEN 1 ELSE 0)]

LEMMA EndStep ==
  ASSUME ParseOK, expect # <<>>, Head(expect) \notin {"stmt", "case"},
         NEW e \in NodeType, e.kind \in Ends, Awaits(Head(expect)) \subseteq Closes(e.kind),
         e.within = IF e.kind = "endif" THEN within ELSE Front(within),
         NEW changes, NEW f, Left(changes, f, Head(expect), e), NEW path, path = e.within,
         ReadEnd(<<e>>, changes, path)
  PROVE  ParseOK'
<1> DEFINE depth == parser.depth - (IF Head(expect) = "list" THEN 1 ELSE 0)
           loops1 == parser.loops - (IF e.kind \in {"endwhile", "enddo", "endfor"} THEN 1 ELSE 0)
<1>1. PICK st, q : Parses(ast, st, q, expect, within, parser.depth, parser.loops)
  BY DEF ParseOK
<1>2. /\ Grows(ast', ast, e) /\ Drops(expect', expect) /\ within' = e.within /\ parser' = changes
  <2>1. ast \in Seq(NodeType)  BY <1>1 DEF Parses, TreeOK
  <2>2. ast \o <<e>> = Append(ast, e)  BY <2>1
  <2> QED BY <2>2 DEF ReadEnd, Grows, Drops
<1>3. PICK v, q1 : Grows(v, st, Front(Open(ast, st))) /\ Drops(q1, q)  BY DEF Grows, Drops
<1>4. Parses(ast', v, q1, expect', e.within, depth, loops1)
  BY <1>1, <1>2, <1>3, Ending
<1>5. depth \in Nat /\ loops1 \in Nat  BY <1>4, ParsesShape
<1>6. depth \in 0..MaxScopeDepth
  <2>1. parser.depth \in 0..MaxScopeDepth /\ MaxScopeDepth \in Nat
    BY CapacityAssumption DEF ParseOK, ParserType
  <2> QED BY <1>5, <2>1
<1>7. changes \in ParserType /\ changes.depth = depth /\ changes.loops = loops1
  <2>1. /\ f \in ParserType /\ f.depth = parser.depth /\ f.loops = parser.loops
        /\ changes = [f EXCEPT !.depth = depth, !.loops = loops1]
    BY DEF Left, ParserType
  <2> HIDE DEF depth, loops1
  <2> QED BY <1>5, <1>6, <2>1 DEF ParserType
<1> QED BY <1>2, <1>4, <1>7 DEF ParseOK

(* One lemma for each kind of statement.                                     *)
LEMMA StepDeclare ==
  ASSUME ParseOK, NEW kind \in Declarations, NEW x \in Names, Declare(kind, x)
  PROVE  ParseOK'
<1> DEFINE e == [Node(kind, x, kind) EXCEPT !.epoch = parser.epoch + 1]
<1>1. expect # <<>> /\ ReadLeaf(e) /\ parser' = [Fresh(kind) EXCEPT !.epoch = @ + 1]
      /\ PlainDeclaration
  BY DEF Declare, MayRead
<1>2. parser \in ParserType  BY DEF ParseOK
<1>3. parser' \in ParserType /\ parser'.depth = parser.depth /\ parser'.loops = parser.loops
  <2>1. Fresh(kind) \in ParserType /\ Fresh(kind).depth = parser.depth /\ Fresh(kind).loops = parser.loops
    BY <1>2, FreshFields
  <2> QED BY <1>1, <2>1 DEF ParserType
<1>4. e \in NodeType /\ e.kind = kind /\ e.name = x /\ e.within = within
  <2>1. kind \in Kinds /\ kind \in Hows /\ x \in NodeNames
    BY DEF Kinds, Leaves, Hows, Declarations, Variable, NodeNames
  <2>2. /\ Node(kind, x, kind) \in NodeType /\ Node(kind, x, kind).kind = kind
        /\ Node(kind, x, kind).name = x /\ Node(kind, x, kind).within = within
    <3>1. IsNode(Node(kind, x, kind), kind, x, kind)  BY <2>1 DEF IsNode
    <3> QED BY <3>1, NodeFields
  <2>3. parser.epoch + 1 \in Nat  BY <1>2 DEF ParserType
  <2> QED BY <2>2, <2>3 DEF NodeType
<1>5. ASSUME NEW st, AtNode(st) PROVE Suits(ast, Open(ast, st), e)
  <2>1. PICK q : Parses(ast, st, q, expect, within, parser.depth, parser.loops)
    BY <1>5 DEF AtNode
  <2>2. Disciplined = 1 => TopIn(ast, Open(ast, st), {"block", "case", "default"})
    <3>1. SUFFICES ASSUME Disciplined = 1
                   PROVE  TopIn(ast, Open(ast, st), {"block", "case", "default"})
      OBVIOUS
    <3>2. Head(expect) \in {"list", "case"}  BY <1>1, <3>1 DEF PlainDeclaration
    <3>3. PICK q1 : Drops(q1, q)  BY DEF Drops
    <3>4. Open(ast, st) # <<>> /\ ast[Last(Open(ast, st))].kind \in Awaits(Head(expect))
      BY <1>1, <2>1, <3>2, <3>3, AtHand
    <3>5. Awaits(Head(expect)) \subseteq {"block", "case", "default"}  BY <3>2 DEF Awaits
    <3> QED BY <3>4, <3>5 DEF TopIn
  <2> HIDE DEF e
  <2> QED BY <1>4, <2>2 DEF Suits, Declarations
<1>6. e.kind \in Leaves  BY <1>4 DEF Leaves
<1> HIDE DEF e
<1> QED BY <1>1, <1>3, <1>4, <1>5, <1>6, LeafStep

LEMMA StepLeaf ==
  ASSUME ParseOK, NEW kind \in Leaves \ Declarations, NEW x \in NodeNames,
         NEW how \in Hows, expect # <<>>, ReadLeaf(Node(kind, x, how)), parser' = Fresh(kind),
         kind \in {"update", "address"} => x \in Variable,
         kind \in {"goto", "label"} => x \in Labels,
         \A st : AtNode(st) => /\ kind = "break" => Holding(ast, Open(ast, st), Breakable)
                               /\ kind = "continue" => Holding(ast, Open(ast, st), LoopKinds)
  PROVE  ParseOK'
<1> DEFINE e == Node(kind, x, how)
<1>1. /\ e \in NodeType /\ e.kind = kind /\ e.name = x /\ e.within = within
  <2>1. kind \in Kinds  BY DEF Kinds
  <2>2. IsNode(e, kind, x, how)  BY <2>1 DEF IsNode
  <2> HIDE DEF e
  <2> QED BY <2>2, NodeFields
<1>2. /\ parser' \in ParserType /\ parser'.depth = parser.depth /\ parser'.loops = parser.loops
  BY FreshFields DEF ParseOK
<1>3. ReadLeaf(e)  OBVIOUS
<1> HIDE DEF e
<1>4. ASSUME NEW st, AtNode(st) PROVE Suits(ast, Open(ast, st), e)
  BY <1>1, <1>4 DEF Suits, Leaves, LoopKinds
<1> QED BY <1>1, <1>2, <1>3, <1>4, LeafStep

LEMMA StepExpression ==
  ASSUME ParseOK, NEW x \in Variable, NEW kind \in {"update", "address"},
         NEW how \in {"statement", "argument", "operand"}, ParseExpression(kind, x, how)
  PROVE  ParseOK'
<1>1. expect # <<>> /\ ReadLeaf(Node(kind, x, how)) /\ parser' = Fresh(kind)
  BY DEF ParseExpression, MayRead
<1>2. kind \in Leaves \ Declarations /\ how \in Hows /\ kind \notin {"break", "continue", "goto", "label"}
      /\ x \in NodeNames
  BY DEF Leaves, Declarations, Hows, NodeNames
<1> QED BY <1>1, <1>2, StepLeaf

LEMMA StepReturn ==
  ASSUME ParseOK, ParseReturn
  PROVE  ParseOK'
<1>1. expect # <<>> /\ ReadLeaf(Node("return", "", "")) /\ parser' = Fresh("return")
  BY DEF ParseReturn, MayRead
<1>2. "return" \in Leaves \ Declarations /\ "" \in Hows /\ "" \in NodeNames
  BY DEF Leaves, Declarations, Hows, NodeNames
<1> QED BY <1>1, <1>2, StepLeaf

LEMMA StepGoto ==
  ASSUME ParseOK, NEW x \in Labels, ParseGoto(x)
  PROVE  ParseOK'
<1>1. expect # <<>> /\ ReadLeaf(Node("goto", x, "")) /\ parser' = Fresh("goto")
  BY DEF ParseGoto, MayRead
<1>2. "goto" \in Leaves \ Declarations /\ "" \in Hows /\ x \in NodeNames
  BY DEF Leaves, Declarations, Hows, NodeNames
<1> QED BY <1>1, <1>2, StepLeaf

(* A break or continue is read where there is something to leave.            *)
LEMMA StepJump ==
  ASSUME ParseOK, NEW kind \in {"break", "continue"}, ParseJump(kind)
  PROVE  ParseOK'
<1> DEFINE open == {ast[within[k]].kind : k \in DOMAIN within}
<1>1. CASE ~(parser.loops > 0 \/ (kind = "break" /\ "switch" \in open))
  BY <1>1 DEF ParseJump, Reject, parseVars, ParseOK
<1>2. CASE parser.loops > 0 \/ (kind = "break" /\ "switch" \in open)
  <2>1. expect # <<>> /\ ReadLeaf(Node(kind, "", "")) /\ parser' = Fresh(kind)
    BY <1>2 DEF ParseJump, MayRead
  <2>2. kind \in Leaves \ Declarations /\ "" \in Hows /\ "" \in NodeNames
    BY DEF Leaves, Declarations, Hows, NodeNames
  <2>3. ASSUME NEW st, AtNode(st)
        PROVE  /\ kind = "break" => Holding(ast, Open(ast, st), Breakable)
               /\ kind = "continue" => Holding(ast, Open(ast, st), LoopKinds)
    <3>1. PICK q : Parses(ast, st, q, expect, within, parser.depth, parser.loops)
      BY <2>3 DEF AtNode
    <3>2. Open(ast, st) \in Seq(Nat)  BY <3>1, ParsesShape
    <3>3. parser.loops = Count(ast, Open(ast, st), LoopKinds)  BY <3>1 DEF Parses
    <3>4. parser.loops > 0 => Holding(ast, Open(ast, st), LoopKinds)
      BY <3>2, <3>3, CountHolding
    <3>5. Holding(ast, Open(ast, st), LoopKinds) => Holding(ast, Open(ast, st), Breakable)
      BY DEF Holding, Breakable
    <3>6. "switch" \in open => Holding(ast, Open(ast, st), Breakable)
      <4>1. SUFFICES ASSUME "switch" \in open PROVE Holding(ast, Open(ast, st), Breakable)
        OBVIOUS
      <4>2. PICK k \in DOMAIN within : ast[within[k]].kind = "switch"  BY <4>1
      <4>3. ToSet(within) = {i \in ToSet(Open(ast, st)) : ast[i].kind \in Scoped}
        <5>1. /\ TreeOK(ast, st) /\ within = Path(ast, Len(ast)) /\ Open(ast, st) = st[Len(ast)]
              /\ Len(ast) \in 0..Len(ast) /\ Len(ast) # 0
          BY <3>1, ParsesShape DEF Parses
        <5>2. Open(ast, st) = Stack(st, Len(ast))  BY <5>1 DEF Stack
        <5> QED BY <5>1, <5>2, TreeShape
      <4>4. within[k] \in ToSet(Open(ast, st))  BY <4>3 DEF ToSet
      <4>5. PICK j \in DOMAIN Open(ast, st) : Open(ast, st)[j] = within[k]  BY <4>4 DEF ToSet
      <4> QED BY <4>2, <4>5 DEF Holding, Breakable
    <3> QED BY <1>2, <3>4, <3>5, <3>6
  <2> QED BY <2>1, <2>2, <2>3, StepLeaf
<1> QED BY <1>1, <1>2

LEMMA StepBlock ==
  ASSUME ParseOK, ParseBlock
  PROVE  ParseOK'
<1>1. CASE parser.depth + 1 >= MaxScopeDepth
  BY <1>1 DEF ParseBlock, Reject, parseVars, ParseOK
<1>2. CASE ~(parser.depth + 1 >= MaxScopeDepth)
  <2> DEFINE e == Node("block", "", "")
             changes == [Fresh("block") EXCEPT !.depth = @ + 1]
  <2>1. expect # <<>> /\ ReadOpen(e, <<"list">>, changes, Opened)
    BY <1>2 DEF ParseBlock, MayRead
  <2>2. e \in NodeType /\ e.kind = "block" /\ e.within = within
    <3>1. "block" \in Kinds /\ "" \in NodeNames /\ "" \in Hows
      BY DEF Kinds, NodeNames, Hows
    <3>2. IsNode(e, "block", "", "")  BY <3>1 DEF IsNode
    <3> HIDE DEF e
    <3> QED BY <3>2, NodeFields
  <2>3. changes \in ParserType /\ changes.depth = parser.depth + 1 /\ changes.loops = parser.loops
    <3>1. parser \in ParserType  BY DEF ParseOK
    <3>2. parser.depth \in 0..MaxScopeDepth /\ MaxScopeDepth \in Nat
      BY <3>1, CapacityAssumption DEF ParserType
    <3>3. parser.depth + 1 \in 0..MaxScopeDepth  BY <1>2, <3>2
    <3>4. Fresh("block") \in ParserType /\ Fresh("block").depth = parser.depth
          /\ Fresh("block").loops = parser.loops
      BY <3>1, FreshFields
    <3> QED BY <3>3, <3>4 DEF ParserType
  <2> HIDE DEF e, changes
  <2>4. ASSUME NEW st PROVE Suits(ast, Open(ast, st), e)
    BY <2>2 DEF Suits, Declarations
  <2>5. "list" \in Items \ {"stmt", "case"} /\ "block" \in Awaits("list") /\ "block" \in Scoped
        /\ "block" \notin LoopKinds /\ parser.loops + 0 = parser.loops
    <3>1. parser.loops \in Nat  BY DEF ParseOK, ParserType
    <3> QED BY <3>1 DEF Items, Awaits, Scoped, LoopKinds
  <2> DEFINE inner == <<"list">>
  <2>6. ReadOpen(e, inner, changes, Opened) /\ inner = <<"list">>  BY <2>1
  <2> HIDE DEF inner
  <2> QED BY <2>1, <2>2, <2>3, <2>4, <2>5, <2>6, OpenStep
<1> QED BY <1>1, <1>2

LEMMA StepIf ==
  ASSUME ParseOK, ParseIf
  PROVE  ParseOK'
<1> DEFINE e == Node("if", "", "")
           inner == <<"stmt", "else?">>
<1>1. expect # <<>> /\ ReadOpen(e, inner, Fresh("if"), within)
  BY DEF ParseIf, MayRead
<1>2. e \in NodeType /\ e.kind = "if" /\ e.within = within
  <2>1. "if" \in Kinds /\ "" \in NodeNames /\ "" \in Hows
    BY DEF Kinds, NodeNames, Hows
  <2>2. IsNode(e, "if", "", "")  BY <2>1 DEF IsNode
  <2> HIDE DEF e
  <2> QED BY <2>2, NodeFields
<1>3. /\ Fresh("if") \in ParserType /\ Fresh("if").depth = parser.depth + 0
      /\ Fresh("if").loops = parser.loops + 0
  <2>1. parser \in ParserType  BY DEF ParseOK
  <2>2. parser.depth \in 0..MaxScopeDepth /\ MaxScopeDepth \in Nat /\ parser.loops \in Nat
    BY <2>1, CapacityAssumption DEF ParserType
  <2>3. parser.depth + 0 = parser.depth /\ parser.loops + 0 = parser.loops  BY <2>2
  <2> QED BY <2>1, <2>3, FreshFields
<1>4. inner = <<"stmt", "else?">>  OBVIOUS
<1> HIDE DEF e, inner
<1>5. ASSUME NEW st PROVE Suits(ast, Open(ast, st), e)
  BY <1>2 DEF Suits, Declarations
<1>6. "else?" \in Items \ {"stmt", "case"} /\ "if" \in Awaits("else?") /\ "if" \notin LoopKinds
  BY DEF Items, Awaits, LoopKinds
<1> QED BY <1>1, <1>2, <1>3, <1>4, <1>5, <1>6, OpenStep

LEMMA StepLoop ==
  ASSUME ParseOK, NEW kind \in {"while", "do"}, ParseLoop(kind)
  PROVE  ParseOK'
<1> DEFINE e == Node(kind, "", "")
           inner == <<"stmt", LoopEnd[kind]>>
           changes == [Fresh(kind) EXCEPT !.loops = @ + 1]
<1>1. expect # <<>> /\ ReadOpen(e, inner, changes, Opened)
  BY DEF ParseLoop, MayRead
<1>2. e \in NodeType /\ e.kind = kind /\ e.within = within
  <2>1. kind \in Kinds /\ "" \in NodeNames /\ "" \in Hows
    BY DEF Kinds, NodeNames, Hows, LoopKinds
  <2>2. IsNode(e, kind, "", "")  BY <2>1 DEF IsNode
  <2> HIDE DEF e
  <2> QED BY <2>2, NodeFields
<1>3. /\ changes \in ParserType /\ changes.depth = parser.depth + 0
      /\ changes.loops = parser.loops + 1
  <2>1. parser \in ParserType  BY DEF ParseOK
  <2>2. parser.depth \in 0..MaxScopeDepth /\ MaxScopeDepth \in Nat /\ parser.loops \in Nat
    BY <2>1, CapacityAssumption DEF ParserType
  <2>3. parser.depth + 0 = parser.depth /\ parser.loops + 1 \in Nat  BY <2>2
  <2>4. Fresh(kind) \in ParserType /\ Fresh(kind).depth = parser.depth
        /\ Fresh(kind).loops = parser.loops
    BY <2>1, FreshFields
  <2> QED BY <2>3, <2>4 DEF ParserType
<1>4. inner = <<"stmt", LoopEnd[kind]>>  OBVIOUS
<1> HIDE DEF e, inner, changes
<1>5. ASSUME NEW st PROVE Suits(ast, Open(ast, st), e)
  BY <1>2 DEF Suits, Declarations
<1>6. LoopEnd[kind] \in Items \ {"stmt", "case"} /\ kind \in Awaits(LoopEnd[kind])
      /\ kind \in LoopKinds /\ kind \in Scoped /\ kind \notin {"if", "block"}
  BY DEF Items, Awaits, LoopKinds, LoopEnd, Scoped
<1> QED BY <1>1, <1>2, <1>3, <1>4, <1>5, <1>6, OpenStep

Clauses(x, how) == IF how = "none" THEN x = "" ELSE how \in {"object", "int"} /\ x \in Names

LEMMA StepFor ==
  ASSUME ParseOK, NEW x, NEW how, Clauses(x, how), ParseFor(x, how)
  PROVE  ParseOK'
<1>1. parser \in ParserType  BY DEF ParseOK
<1>2. PICK epoch \in Nat : epoch = parser.epoch + (IF how = "none" THEN 0 ELSE 1)
  <2>1. parser.epoch \in Nat  BY <1>1 DEF ParserType
  <2>2. CASE how = "none"
    <3>1. parser.epoch + (IF how = "none" THEN 0 ELSE 1) = parser.epoch + 0  BY <2>2
    <3>2. parser.epoch + 0 \in Nat  BY <2>1
    <3> QED BY <3>1, <3>2
  <2>3. CASE how # "none"
    <3>1. parser.epoch + (IF how = "none" THEN 0 ELSE 1) = parser.epoch + 1  BY <2>3
    <3>2. parser.epoch + 1 \in Nat  BY <2>1
    <3> QED BY <3>1, <3>2
  <2> QED BY <2>2, <2>3
<1>0. /\ Fresh("for") \in ParserType /\ Fresh("for").depth = parser.depth
      /\ Fresh("for").loops = parser.loops /\ Fresh("for").epoch = parser.epoch
  BY <1>1, FreshFields
<1> DEFINE e == [Node("for", x, how) EXCEPT !.epoch = epoch]
           inner == <<"stmt", "endfor">>
           changes == [Fresh("for") EXCEPT !.loops = parser.loops + 1, !.epoch = epoch]
<1>9. expect # <<>> /\ ReadOpen(e, inner, changes, Opened)
  <2>1. /\ expect # <<>>
        /\ ReadOpen([Node("for", x, how) EXCEPT !.epoch = epoch], inner,
                    [Fresh("for") EXCEPT !.loops = Fresh("for").loops + 1, !.epoch = epoch], Opened)
    BY <1>0, <1>2 DEF ParseFor, MayRead
  <2> QED BY <2>1, <1>0
<1>3. e \in NodeType /\ e.kind = "for" /\ e.within = within /\ e.name = x /\ e.how = how
  <2>1. "for" \in Kinds /\ x \in NodeNames /\ how \in Hows
    BY DEF Kinds, NodeNames, Hows, LoopKinds, Variable, Clauses
  <2>2. /\ Node("for", x, how) \in NodeType /\ Node("for", x, how).kind = "for"
        /\ Node("for", x, how).name = x /\ Node("for", x, how).how = how
        /\ Node("for", x, how).within = within
    <3>1. IsNode(Node("for", x, how), "for", x, how)  BY <2>1 DEF IsNode
    <3> QED BY <3>1, NodeFields
  <2> QED BY <1>2, <2>2 DEF NodeType
<1>4. /\ changes \in ParserType /\ changes.depth = parser.depth + 0
      /\ changes.loops = parser.loops + 1
  <2>1. parser.depth \in 0..MaxScopeDepth /\ MaxScopeDepth \in Nat /\ parser.loops \in Nat
    BY <1>1, CapacityAssumption DEF ParserType
  <2>2. parser.depth + 0 = parser.depth /\ parser.loops + 1 \in Nat  BY <2>1
  <2> QED BY <1>0, <1>2, <2>2 DEF ParserType
<1>5. inner = <<"stmt", "endfor">>  OBVIOUS
<1> HIDE DEF e, inner, changes
<1>6. ASSUME NEW st PROVE Suits(ast, Open(ast, st), e)
  BY <1>3 DEF Suits, Declarations, Clauses
<1>7. "endfor" \in Items \ {"stmt", "case"} /\ "for" \in Awaits("endfor")
      /\ "for" \in LoopKinds /\ "for" \in Scoped
  BY DEF Items, Awaits, LoopKinds, Scoped
<1> QED BY <1>9, <1>3, <1>4, <1>5, <1>6, <1>7, OpenStep

LEMMA StepSwitch ==
  ASSUME ParseOK, ParseSwitch
  PROVE  ParseOK'
<1> DEFINE e == Node("switch", "", "")
           inner == <<"switch">>
<1>1. expect # <<>> /\ ReadOpen(e, inner, Fresh("switch"), Opened)
  BY DEF ParseSwitch, MayRead
<1>2. e \in NodeType /\ e.kind = "switch" /\ e.within = within
  <2>1. "switch" \in Kinds /\ "" \in NodeNames /\ "" \in Hows
    BY DEF Kinds, NodeNames, Hows
  <2>2. IsNode(e, "switch", "", "")  BY <2>1 DEF IsNode
  <2> HIDE DEF e
  <2> QED BY <2>2, NodeFields
<1>3. /\ Fresh("switch") \in ParserType /\ Fresh("switch").depth = parser.depth + 0
      /\ Fresh("switch").loops = parser.loops + 0
  <2>1. parser \in ParserType  BY DEF ParseOK
  <2>2. parser.depth \in 0..MaxScopeDepth /\ MaxScopeDepth \in Nat /\ parser.loops \in Nat
    BY <2>1, CapacityAssumption DEF ParserType
  <2>3. parser.depth + 0 = parser.depth /\ parser.loops + 0 = parser.loops  BY <2>2
  <2> QED BY <2>1, <2>3, FreshFields
<1>4. inner = <<"switch">>  OBVIOUS
<1> HIDE DEF e, inner
<1>5. ASSUME NEW st PROVE Suits(ast, Open(ast, st), e)
  BY <1>2 DEF Suits, Declarations
<1>6. "switch" \in Items \ {"stmt", "case"} /\ "switch" \in Awaits("switch")
      /\ "switch" \notin LoopKinds /\ "switch" \in Scoped
  BY DEF Items, Awaits, LoopKinds, Scoped
<1> QED BY <1>1, <1>2, <1>3, <1>4, <1>5, <1>6, OpenStep

LEMMA StepLabel ==
  ASSUME ParseOK, NEW x \in Labels, ParseLabel(x)
  PROVE  ParseOK'
<1> DEFINE e == Node("label", x, "")
<1>1. /\ expect # <<>> /\ Grows(ast', ast, e) /\ Remains(Rest, expect)
      /\ Leads(expect', "stmt", Rest) /\ within' = within /\ parser' = Fresh("label")
  BY DEF ParseLabel, MayRead, ReadOpen, Grows, Remains, Leads, Rest
<1>2. e \in NodeType /\ e.kind = "label" /\ e.within = within /\ e.name = x
  <2>1. "label" \in Kinds /\ x \in NodeNames /\ "" \in Hows
    BY DEF Kinds, NodeNames, Hows, Leaves
  <2>2. IsNode(e, "label", x, "")  BY <2>1 DEF IsNode
  <2> HIDE DEF e
  <2> QED BY <2>2, NodeFields
<1>3. /\ Fresh("label") \in ParserType /\ Fresh("label").depth = parser.depth
      /\ Fresh("label").loops = parser.loops
  BY FreshFields DEF ParseOK
<1> HIDE DEF e
<1>4. PICK st, q : Parses(ast, st, q, expect, within, parser.depth, parser.loops)
  BY DEF ParseOK
<1>5. Suits(ast, Open(ast, st), e)  BY <1>2 DEF Suits, Declarations
<1>6. "label" \in Leaves  BY DEF Leaves
<1>7. PICK v, q2 : Parses(ast', v, q2, Rest, within, parser.depth, parser.loops)
  BY <1>1, <1>2, <1>4, <1>5, <1>6, LeafRead
<1>8. \E q3 : Parses(ast', v, q3, expect', within, parser.depth, parser.loops)
  BY <1>1, <1>7, StmtFirst
<1> QED BY <1>1, <1>3, <1>8 DEF ParseOK

LEMMA ConsTail ==
  ASSUME NEW s, NEW x, NEW c, Leads(c, x, s), s \in Seq(Items), x \in Items
  PROVE  c # <<>> /\ Head(c) = x /\ Drops(s, c)
<1>1. /\ c \in Seq(Items) /\ Len(c) = Len(s) + 1 /\ Len(s) \in Nat /\ c[1] = x
      /\ \A i \in 1..Len(s) : c[i + 1] = s[i]
  BY ConsOf
<1>2. c # <<>>  BY <1>1, EmptySeq
<1>3. Head(c) = x  BY <1>1, <1>2, HeadTailProperties
<1>4. /\ Tail(c) \in Seq(Items) /\ Len(Tail(c)) = Len(s)
      /\ \A i \in 1..Len(s) : Tail(c)[i] = c[i + 1]
  BY <1>1, <1>2, HeadTailProperties
<1>5. Tail(c) = s  BY <1>1, <1>4, SeqEqual
<1> QED BY <1>2, <1>3, <1>5 DEF Drops

LEMMA StepElse ==
  ASSUME ParseOK, ParseElse
  PROVE  ParseOK'
<1> DEFINE e == Node("else", "", "")
<1>1. PICK st, q : Parses(ast, st, q, expect, within, parser.depth, parser.loops)
  BY DEF ParseOK
<1>2. /\ expect # <<>> /\ Head(expect) = "else?" /\ Grows(ast', ast, e)
      /\ expect' = <<"stmt", "endif">> \o Tail(expect) /\ parser' = parser /\ within' = within
  BY DEF ParseElse, Expected, Grows
<1>3. e \in NodeType /\ e.kind = "else" /\ e.within = within
  <2>1. "else" \in Kinds /\ "" \in NodeNames /\ "" \in Hows
    BY DEF Kinds, NodeNames, Hows
  <2>2. IsNode(e, "else", "", "")  BY <2>1 DEF IsNode
  <2> HIDE DEF e
  <2> QED BY <2>2, NodeFields
<1> HIDE DEF e
<1>4. PICK ex1, ex2 : Drops(ex1, expect) /\ Leads(ex2, "endif", ex1)  BY DEF Drops, Leads
<1>5. PICK v, q2 : Parses(ast', v, q2, ex2, within, parser.depth, parser.loops)
  BY <1>1, <1>2, <1>3, <1>4, Elses
<1>6. Leads(expect', "stmt", ex2)
  <2>1. expect \in Seq(Items)  BY <1>1 DEF Parses, Hangs
  <2>2. ex1 \in Seq(Items)  BY <1>2, <1>4, <2>1, TailOf
  <2>3. "stmt" \in Items /\ "endif" \in Items  BY DEF Items
  <2>4. expect' = <<"stmt", "endif">> \o ex1  BY <1>2, <1>4 DEF Drops
  <2> QED BY <1>4, <2>2, <2>3, <2>4, TwoFirst
<1>7. \E q3 : Parses(ast', v, q3, expect', within, parser.depth, parser.loops)
  BY <1>5, <1>6, StmtFirst
<1> QED BY <1>2, <1>7 DEF ParseOK

LEMMA StepBlockEnd ==
  ASSUME ParseOK, ParseBlockEnd
  PROVE  ParseOK'
<1> DEFINE f == Fresh("}")
           e == End("endblock", Front(within))
           changes == [f EXCEPT !.depth = @ - 1]
<1>1. expect # <<>> /\ Head(expect) = "list" /\ ReadEnd(<<e>>, changes, Front(within))
  BY DEF ParseBlockEnd, Expected
<1>2. /\ f \in ParserType /\ f.depth = parser.depth /\ f.loops = parser.loops
  BY FreshFields DEF ParseOK
<1>3. "endblock" \in Ends /\ Awaits("list") \subseteq Closes("endblock")
  BY DEF Ends, Awaits, Closes
<1>4. e \in NodeType /\ e.kind = "endblock" /\ e.within = Front(within)
  <2>1. e = End("endblock", Front(within))  OBVIOUS
  <2> HIDE DEF e
  <2> QED BY <1>1, <1>3, <2>1, EndNode
<1> HIDE DEF e, f
<1>5. Left(changes, f, Head(expect), e)
  <2>1. f.loops \in Nat  BY <1>2 DEF ParserType
  <2>2. f.loops - 0 = f.loops  BY <2>1
  <2> QED BY <1>1, <1>2, <1>4, <2>2 DEF Left, ParserType
<1> HIDE DEF changes
<1> QED BY <1>1, <1>3, <1>4, <1>5, EndStep

LEMMA StepLoopEnd ==
  ASSUME ParseOK, NEW kind \in LoopKinds, ParseLoopEnd(kind)
  PROVE  ParseOK'
<1> DEFINE e == End(LoopEnd[kind], Front(within))
           f == [parser EXCEPT !.noElse = IF kind = "do" THEN 0 ELSE @]
           changes == [parser EXCEPT !.loops = @ - 1, !.noElse = IF kind = "do" THEN 0 ELSE @]
<1>1. expect # <<>> /\ Head(expect) = LoopEnd[kind] /\ ReadEnd(<<e>>, changes, Front(within))
  BY DEF ParseLoopEnd, Expected
<1>2. parser \in ParserType  BY DEF ParseOK
<1>3. /\ f \in ParserType /\ f.depth = parser.depth /\ f.loops = parser.loops
  BY <1>2 DEF ParserType
<1>4. /\ LoopEnd[kind] \in Ends /\ Awaits(LoopEnd[kind]) \subseteq Closes(LoopEnd[kind])
      /\ LoopEnd[kind] \in {"endwhile", "enddo", "endfor"}
  BY DEF Ends, Awaits, Closes, LoopEnd, LoopKinds
<1>5. e \in NodeType /\ e.kind = LoopEnd[kind] /\ e.within = Front(within)
  <2>1. e = End(LoopEnd[kind], Front(within))  OBVIOUS
  <2> HIDE DEF e
  <2> QED BY <1>1, <1>4, <2>1, EndNode
<1> HIDE DEF e
<1>6. Left(changes, f, Head(expect), e)
  <2>1. parser.depth \in 0..MaxScopeDepth /\ MaxScopeDepth \in Nat
    BY <1>2, CapacityAssumption DEF ParserType
  <2>2. parser.depth - 0 = parser.depth  BY <2>1
  <2>3. Head(expect) # "list" /\ e.kind \in {"endwhile", "enddo", "endfor"}  BY <1>1, <1>4, <1>5
  <2>4. changes = [f EXCEPT !.depth = @ - 0, !.loops = @ - 1]  BY <1>2, <2>2 DEF ParserType
  <2> HIDE DEF changes, f
  <2> QED BY <1>3, <2>3, <2>4 DEF Left
<1> HIDE DEF changes, f
<1> QED BY <1>1, <1>4, <1>5, <1>6, EndStep

LEMMA StepIfEnd ==
  ASSUME ParseOK, ParseIfEnd
  PROVE  ParseOK'
<1> DEFINE e == Node("endif", "", "")
           changes == [parser EXCEPT !.noElse = IF Head(expect) = "else?" THEN 1 ELSE @]
<1>1. /\ expect # <<>> /\ Head(expect) \in {"else?", "endif"}
      /\ ReadEnd(<<e>>, changes, within)
  BY DEF ParseIfEnd, Expected
<1>2. parser \in ParserType  BY DEF ParseOK
<1>3. changes \in ParserType /\ changes.depth = parser.depth /\ changes.loops = parser.loops
  BY <1>2 DEF ParserType
<1>4. e \in NodeType /\ e.kind = "endif" /\ e.within = within
  <2>1. "endif" \in Kinds /\ "" \in NodeNames /\ "" \in Hows
    BY DEF Kinds, NodeNames, Hows
  <2>2. IsNode(e, "endif", "", "")  BY <2>1 DEF IsNode
  <2> HIDE DEF e
  <2> QED BY <2>2, NodeFields
<1> HIDE DEF e, changes
<1>5. Left(changes, changes, Head(expect), e)
  <2>1. changes.depth \in 0..MaxScopeDepth /\ MaxScopeDepth \in Nat /\ changes.loops \in Nat
    BY <1>3, CapacityAssumption DEF ParserType
  <2>2. changes.depth - 0 = changes.depth /\ changes.loops - 0 = changes.loops  BY <2>1
  <2>3. Head(expect) # "list" /\ e.kind \notin {"endwhile", "enddo", "endfor"}  BY <1>1, <1>4
  <2>4. changes = [changes EXCEPT !.depth = @ - 0, !.loops = @ - 0]  BY <1>3, <2>2 DEF ParserType
  <2> QED BY <1>3, <2>3, <2>4 DEF Left
<1>6. Awaits(Head(expect)) \subseteq Closes("endif") /\ "endif" \in Ends
  BY <1>1 DEF Awaits, Closes, Ends
<1> QED BY <1>1, <1>4, <1>5, <1>6, EndStep

LEMMA StepSwitchEnd ==
  ASSUME ParseOK, ParseSwitchEnd
  PROVE  ParseOK'
<1> DEFINE outer == Front(within)
           e == End("endcase", outer)
           g == End("endswitch", Front(outer))
           f == Fresh("}")
<1>1. /\ expect # <<>> /\ Head(expect) = "case"
      /\ ast' = ast \o <<e, g>> /\ expect' = Tail(expect) /\ parser' = f
      /\ within' = Front(outer)
  BY DEF ParseSwitchEnd, Expected, ReadEnd
<1>2. PICK st, q : Parses(ast, st, q, expect, within, parser.depth, parser.loops)
  BY DEF ParseOK
<1>3. f \in ParserType /\ f.depth = parser.depth /\ f.loops = parser.loops
  BY FreshFields DEF ParseOK
<1>4. e \in NodeType /\ e.kind = "endcase" /\ e.within = outer
  <2>1. e = End("endcase", Front(within)) /\ "endcase" \in Ends  BY DEF Ends
  <2> HIDE DEF e
  <2> QED BY <1>1, <2>1, EndNode
<1>5. PICK u, ex1, ex2 : Grows(u, ast, e) /\ Drops(ex1, expect) /\ Leads(ex2, "switch", ex1)
  BY DEF Grows, Drops, Leads
<1>6. PICK v, q2 : Parses(u, v, q2, ex2, e.within, parser.depth, parser.loops)
  <2> HIDE DEF e
  <2> QED BY <1>1, <1>2, <1>4, <1>5, CaseEnds
<1>7. ex2 # <<>> /\ Head(ex2) = "switch" /\ Drops(ex1, ex2) /\ Drops(expect', expect)
      /\ expect' = ex1
  <2>1. expect \in Seq(Items)  BY <1>2 DEF Parses, Hangs
  <2>2. ex1 \in Seq(Items)  BY <1>1, <1>5, <2>1, TailOf
  <2>3. "switch" \in Items  BY DEF Items
  <2>4. expect' = ex1 /\ Drops(expect', expect)  BY <1>1, <1>5 DEF Drops
  <2> QED BY <1>5, <2>2, <2>3, <2>4, ConsTail
<1>8. g \in NodeType /\ g.kind = "endswitch" /\ g.within = Front(outer)
  <2>1. Front(outer) \in Seq(Nat)
    <3>1. outer # <<>> /\ outer \in Seq(Nat)
      <4>1. outer = Path(u, Len(u)) /\ TreeOK(u, v) /\ outer \in Seq(Nat) /\ Open(u, v) = v[Len(u)]
            /\ Len(u) \in Nat /\ Len(u) >= 1
        <5> HIDE DEF e, outer
        <5> QED BY <1>4, <1>6, ParsesShape DEF Parses
      <4>2. PICK q3 : Drops(q3, q2)  BY DEF Drops
      <4>3. PICK z : z = Open(u, v)  OBVIOUS
      <4>4. z # <<>> /\ u[Last(z)].kind \in Awaits("switch")
        <5> HIDE DEF e, outer
        <5> QED BY <1>6, <1>7, <4>2, <4>3, AtHand
      <4>5. TopIn(u, z, Scoped)  BY <4>4 DEF TopIn, Awaits, Scoped
      <4>6. z = Stack(v, Len(u)) /\ Len(u) \in 0..Len(u)  BY <4>1, <4>3 DEF Stack
      <4> HIDE DEF outer
      <4>7. /\ z \in Seq(1..Len(u)) /\ Rising(z) /\ outer \in Seq(1..Len(u)) /\ Rising(outer)
            /\ ToSet(outer) = {k \in ToSet(z) : u[k].kind \in Scoped}
        BY <4>1, <4>6, TreeShape
      <4> DEFINE n == Len(u)
      <4>8. n \in Nat /\ z \in Seq(1..n) /\ outer \in Seq(1..n)  BY <4>1, <4>7
      <4> HIDE DEF n
      <4> QED BY <4>1, <4>5, <4>7, <4>8, LastOfBoth
    <3> QED BY <3>1, FrontOf
  <2> HIDE DEF outer
  <2> DEFINE m == Node("endswitch", "", "")
  <2>2. "endswitch" \in Kinds /\ "" \in NodeNames /\ "" \in Hows  BY DEF Kinds, NodeNames, Hows
  <2>3. IsNode(m, "endswitch", "", "")  BY <2>2 DEF IsNode
  <2>4. g = [m EXCEPT !.within = Front(outer)]  BY DEF End
  <2> HIDE DEF m, g
  <2>5. m \in NodeType /\ m.kind = "endswitch"  BY <2>3, NodeFields
  <2> QED BY <2>1, <2>4, <2>5 DEF NodeType
<1>9. Grows(ast', u, g)
  <2> HIDE DEF e, g
  <2>1. ast \in Seq(NodeType)  BY <1>2 DEF Parses, TreeOK
  <2>2. ast \o <<e, g>> = Append(Append(ast, e), g)  BY <1>4, <1>8, <2>1
  <2> QED BY <1>1, <1>5, <2>2 DEF Grows
<1>10. PICK w, q3 : Grows(w, v, Front(Open(u, v))) /\ Drops(q3, q2)  BY DEF Grows, Drops
<1>11. /\ "endswitch" \in Ends /\ Awaits("switch") \subseteq Closes("endswitch")
       /\ parser.depth - 0 = parser.depth /\ parser.loops - 0 = parser.loops
  <2>1. parser.depth \in Nat /\ parser.loops \in Nat  BY <1>2, ParsesShape
  <2> QED BY <2>1 DEF Ends, Awaits, Closes
<1>12. Parses(ast', w, q3, expect', g.within, parser.depth, parser.loops)
  <2> HIDE DEF e, g
  <2>1. g.within = IF g.kind = "endif" THEN e.within ELSE Front(e.within)  BY <1>4, <1>8
  <2> HIDE DEF outer
  <2> QED BY <1>6, <1>7, <1>8, <1>9, <1>10, <1>11, <2>1, Ending
<1> QED BY <1>1, <1>3, <1>8, <1>12 DEF ParseOK

LEMMA StepCase ==
  ASSUME ParseOK, NEW kind \in {"case", "default"}, ParseCase(kind)
  PROVE  ParseOK'
<1>1. PICK st, q : Parses(ast, st, q, expect, within, parser.depth, parser.loops)
  BY DEF ParseOK
<1>2. Fresh(kind) \in ParserType /\ Fresh(kind).depth = parser.depth /\ Fresh(kind).loops = parser.loops
  BY FreshFields DEF ParseOK
<1>3. /\ ast \in Seq(NodeType) /\ expect \in Seq(Items) /\ within \in Seq(Nat)
      /\ Len(ast) \in Nat /\ "switch" \in Items
  BY <1>1, ParsesShape DEF Parses, TreeOK, Hangs, Items
<1>4. kind \in Kinds /\ "" \in NodeNames /\ "" \in Hows
  BY DEF Kinds, NodeNames, Hows
<1>5. expect # <<>> /\ parser' = Fresh(kind) /\ expect' = <<"case">> \o Tail(expect)
      /\ Head(expect) \in {"switch", "case"}
  BY DEF ParseCase
<1> DEFINE m == Node(kind, "", "")
<1>6. m \in NodeType /\ m.kind = kind /\ m.within = within
  <2>1. IsNode(m, kind, "", "")  BY <1>4 DEF IsNode
  <2> HIDE DEF m
  <2> QED BY <2>1, NodeFields
<1>7. CASE Head(expect) = "switch"
  <2> DEFINE e == [m EXCEPT !.within = within]
  <2>1. ast' = (ast \o <<>>) \o <<e>> /\ within' = Append(within, Len(ast) + Len(<<>>) + 1)
    BY <1>7 DEF ParseCase
  <2> HIDE DEF m
  <2>2. e \in NodeType /\ e.kind = kind /\ e.within = within
    BY <1>3, <1>6 DEF NodeType
  <2> HIDE DEF e
  <2>3. Grows(ast', ast, e) /\ within' = Append(within, Len(ast) + 1)
    <3>1. ast \o <<>> = ast /\ Len(<<>>) = 0  BY <1>3
    <3>2. ast \o <<e>> = Append(ast, e) /\ Len(ast) + 0 + 1 = Len(ast) + 1  BY <1>3, <2>2
    <3>3. Len(ast) + Len(<<>>) + 1 = Len(ast) + 1  BY <1>3, <3>1
    <3> QED BY <2>1, <3>1, <3>2, <3>3 DEF Grows
  <2>4. PICK ex1 : Drops(ex1, expect)  BY DEF Drops
  <2>5. Leads(expect', "case", ex1)  BY <1>5, <2>4 DEF Leads, Drops
  <2>6. \E v, q2 : Parses(ast', v, q2, expect', Append(within, Len(ast) + 1),
                          parser.depth, parser.loops)
    BY <1>1, <1>5, <1>7, <2>2, <2>3, <2>4, <2>5, CaseOpens
  <2> QED BY <1>2, <1>5, <2>3, <2>6 DEF ParseOK
<1>8. CASE Head(expect) = "case"
  <2> DEFINE path == Front(within)
             e == [m EXCEPT !.within = path]
             g == [Node("endcase", "", "") EXCEPT !.within = path]
  <2>1. ast' = (ast \o <<g>>) \o <<e>> /\ within' = Append(path, Len(ast) + Len(<<g>>) + 1)
    BY <1>8 DEF ParseCase
  <2>2. g \in NodeType /\ g.kind = "endcase" /\ g.within = path
    <3>1. g = End("endcase", Front(within)) /\ "endcase" \in Ends  BY DEF Ends, End
    <3> HIDE DEF g
    <3> QED BY <1>5, <1>8, <3>1, EndNode
  <2> HIDE DEF m, g
  <2>3. path \in Seq(Nat)  BY <2>2 DEF NodeType
  <2> HIDE DEF path
  <2>4. e \in NodeType /\ e.kind = kind /\ e.within = path
    BY <1>6, <2>3 DEF NodeType
  <2> HIDE DEF e
  <2>5. PICK u, ex1, ex2 : Grows(u, ast, g) /\ Drops(ex1, expect) /\ Leads(ex2, "switch", ex1)
    BY DEF Grows, Drops, Leads
  <2>6. PICK v, q2 : Parses(u, v, q2, ex2, g.within, parser.depth, parser.loops)
    <3>1. g.within = Front(within)  BY <2>2 DEF path
    <3> QED BY <1>1, <1>5, <1>8, <2>2, <2>5, <3>1, CaseEnds
  <2>7. /\ Grows(ast', u, e) /\ Len(u) + 1 = Len(ast) + Len(<<g>>) + 1
    <3>1. ast \o <<g>> = Append(ast, g) /\ Len(<<g>>) = 1  BY <1>3, <2>2
    <3>2. u \in Seq(NodeType) /\ Len(u) = Len(ast) + 1  BY <1>3, <2>2, <2>5 DEF Grows
    <3>3. u \o <<e>> = Append(u, e)  BY <2>4, <3>2
    <3>4. u = ast \o <<g>>  BY <2>5, <3>1 DEF Grows
    <3>5. ast' = u \o <<e>>  BY <2>1, <3>4
    <3> QED BY <1>3, <3>1, <3>2, <3>3, <3>5 DEF Grows
  <2>8. ex2 # <<>> /\ Head(ex2) = "switch" /\ Drops(ex1, ex2)
    <3>1. ex1 \in Seq(Items)  BY <1>3, <1>5, <2>5, TailOf
    <3> QED BY <1>3, <2>5, <3>1, ConsTail
  <2>9. Leads(expect', "case", ex1)  BY <1>5, <2>5 DEF Leads, Drops
  <2>10. \E w, q3 : Parses(ast', w, q3, expect', Append(path, Len(u) + 1),
                           parser.depth, parser.loops)
    <3>1. e.within = g.within  BY <2>2, <2>4
    <3>2. \E w, q3 : Parses(ast', w, q3, expect', Append(g.within, Len(u) + 1),
                            parser.depth, parser.loops)
      BY <2>4, <2>6, <2>7, <2>8, <2>9, <3>1, CaseOpens
    <3> QED BY <2>2, <3>2
  <2> QED BY <1>2, <1>5, <2>1, <2>7, <2>10 DEF ParseOK
<1> QED BY <1>5, <1>7, <1>8

(* The parser never loses what its recursive descent is in the middle of.    *)
LEMMA ParserKeeps ==
  ASSUME ParseOK, Next
  PROVE  ParseOK'
<1>1. CASE Parse
  <2>1. ASSUME NEW x \in Names, NEW kind \in Declarations, ParseDeclaration(kind, x)
        PROVE  ParseOK'
    BY <2>1, StepDeclare DEF ParseDeclaration
  <2>2. ASSUME NEW x \in Names, ParseStatic(x) PROVE ParseOK'
    <3>1. CASE StaticsFit
      <4>1. Declare("static", x) /\ "static" \in Declarations
        BY <2>2, <3>1 DEF ParseStatic, Declarations
      <4> QED BY <4>1, StepDeclare
    <3>2. CASE ~StaticsFit
      BY <2>2, <3>2 DEF ParseStatic, Reject, parseVars, ParseOK
    <3> QED BY <3>1, <3>2
  <2>3. ASSUME NEW x \in Names, NEW how \in {"object", "int"}, ParseFor(x, how) PROVE ParseOK'
    <3>1. Clauses(x, how)  BY DEF Clauses
    <3> QED BY <2>3, <3>1, StepFor
  <2>4. ASSUME NEW x \in Names \cup ToSet(Parameters), NEW kind \in {"update", "address"},
               NEW how \in {"statement", "argument", "operand"}, ParseExpression(kind, x, how)
        PROVE  ParseOK'
    <3>1. x \in Variable  BY DEF Variable
    <3> QED BY <2>4, <3>1, StepExpression
  <2>5. ASSUME NEW kind \in Declarations, ParseForDeclaration(kind) PROVE ParseOK'
    BY <2>5 DEF ParseForDeclaration, Reject, parseVars, ParseOK
  <2>6. ASSUME ParseFor("", "none") PROVE ParseOK'
    <3>1. \E x, how : Clauses(x, how) /\ ParseFor(x, how)  BY <2>6 DEF Clauses
    <3> QED BY <3>1, StepFor
  <2>7. ASSUME NEW kind \in {"break", "continue"}, ParseJump(kind) PROVE ParseOK'
    BY <2>7, StepJump
  <2>8. ASSUME NEW l \in Labels, ParseLabel(l) \/ ParseGoto(l) PROVE ParseOK'
    BY <2>8, StepLabel, StepGoto
  <2>9. ASSUME NEW kind \in {"case", "default"}, ParseCase(kind) PROVE ParseOK'
    BY <2>9, StepCase
  <2>10. ASSUME NEW kind \in {"while", "do"}, ParseLoop(kind) PROVE ParseOK'
    BY <2>10, StepLoop
  <2>11. ASSUME NEW kind \in LoopKinds, ParseLoopEnd(kind) PROVE ParseOK'
    BY <2>11, StepLoopEnd
  <2> QED
    BY <1>1, <2>1, <2>2, <2>3, <2>4, <2>5, <2>6, <2>7, <2>8, <2>9, <2>10, <2>11,
       StepBlock, StepIf, StepSwitch, StepReturn, StepBlockEnd, StepSwitchEnd, StepElse, StepIfEnd
    DEF Parse
<1>2. CASE UNCHANGED parseVars
  BY <1>2 DEF parseVars, ParseOK
<1>3. CASE Emit
  <2>1. UNCHANGED parseVars
    BY <1>3 DEF Emit, CollectLabels, EmitBlock, EmitBlockEnd, EmitDeclaration, RefuseDeclaration,
      EmitExpression, RefuseExpression, EmitIf, EmitElse, EmitIfEnd, EmitWhile, EmitWhileEnd, EmitDo,
      EmitDoEnd, EmitFor, EmitForEnd, RefuseLoop, EmitSwitch, RefuseSwitch, EmitCase, EmitSwitchEnd,
      EmitBreak, EmitContinue, RefuseJump, EmitLabel, EmitGoto, RefuseGoto, EmitReturn,
      EmitFunctionEnd, Emitting, Refusing, Refuse
  <2> QED BY <1>2, <2>1
<1>4. CASE Run
  <2>1. UNCHANGED parseVars
    BY <1>4 DEF Run, RunAlloc, RunSet, RunPromote, RunFree, RunTake, RunUpdate, RunSave, RunRestore,
      RunJump, RunReturn, Running
  <2> QED BY <1>2, <2>1
<1>5. CASE Done  BY <1>2, <1>5 DEF Done, vars
<1> QED BY <1>1, <1>3, <1>4, <1>5 DEF Next

LEMMA ParserStarts ==
  ASSUME Init
  PROVE  ParseOK
<1>1. /\ expect = <<"list">> /\ within = <<1>>
      /\ ast = <<[kind |-> "block", name |-> "", how |-> "", depth |-> 0, epoch |-> 0,
                  within |-> <<>>]>>
      /\ parser = [depth |-> 1, epoch |-> 0, loops |-> 0, noElse |-> 0, room |-> MaxWeight]
  BY DEF Init
<1>2. parser \in ParserType
  <2>1. MaxScopeDepth \in Nat \ {0}  BY CapacityAssumption
  <2>3. MaxWeight \in Int
    <3>1. MaxWeight \in Nat  BY CapacityAssumption
    <3> QED BY <3>1
  <2>2. 1 \in 0..MaxScopeDepth  BY <2>1
  <2> QED BY <1>1, <2>1, <2>2, <2>3 DEF ParserType
<1> DEFINE st == <<<<1>>>>
           q == <<1, 0>>
           e == ast[1]
<1>3. /\ Len(ast) = 1 /\ e.kind = "block" /\ e.within = <<>> /\ Len(st) = 1 /\ st[1] = <<1>>
      /\ ast \in Seq(NodeType) /\ st \in Seq(Seq(Nat))
  <2>1. PICK nd : nd = [kind |-> "block", name |-> "", how |-> "", depth |-> 0, epoch |-> 0,
                        within |-> <<>>]
    OBVIOUS
  <2>2. /\ "block" \in Kinds /\ "" \in NodeNames /\ "" \in Hows /\ 0 \in Nat
        /\ <<>> \in Seq(Nat)
    BY DEF Kinds, NodeNames, Hows
  <2>3. nd \in NodeType  BY <2>1, <2>2 DEF NodeType
  <2>4. ast = <<nd>>  BY <1>1, <2>1
  <2>5. ast \in Seq(NodeType) /\ Len(ast) = 1 /\ e = nd  BY <2>3, <2>4
  <2>7. nd.kind = "block" /\ nd.within = <<>>  BY <2>1
  <2>6. st \in Seq(Seq(Nat)) /\ Len(st) = 1 /\ st[1] = <<1>>
    <3>1. <<1>> \in Seq(Nat)  OBVIOUS
    <3> QED BY <3>1
  <2> HIDE DEF e, st
  <2> QED BY <2>5, <2>6, <2>7
<1>4. Path(ast, 0) = <<>> /\ Stack(st, 0) = <<>> /\ Path(ast, 1) = <<1>>
  <2>1. Append(<<>>, 1) = <<1>>  OBVIOUS
  <2> QED BY <1>3, <2>1 DEF Path, Stack, Scoped
<1> HIDE DEF e
<1>5. TreeOK(ast, st)
  <2>1. NodeOK(ast, st, 1)
    <3>1. Joins(ast, <<>>, <<>>, e, 1, <<1>>)
      <4>1. Append(<<>>, 1) = <<1>>  OBVIOUS
      <4> QED BY <1>3, <4>1 DEF Joins, Scoped, Ends, Leaves, Declarations
    <3>2. Suits(ast, <<>>, e)  BY <1>3 DEF Suits, Declarations
    <3>3. 1 - 1 = 0 /\ e = ast[1]  BY DEF e
    <3> QED BY <1>3, <1>4, <3>1, <3>2, <3>3 DEF NodeOK
  <2>2. Stacked(ast, st, 1)
    <3>1. <<1>> \in Seq(1..1) /\ Rising(<<1>>) /\ ToSet(<<1>>) = {1}
      BY DEF Rising, ToSet
    <3>2. ast[1].kind \in Scoped  BY <1>3 DEF Scoped, e
    <3> QED BY <1>3, <1>4, <3>1, <3>2 DEF Stacked
  <2>3. Lasts(ast, 1, 1)  BY DEF Lasts
  <2>4. \A n \in 1..Len(ast) : n = 1 /\ \A m \in 1..n : m = 1  BY <1>3
  <2> QED BY <1>3, <2>1, <2>2, <2>3, <2>4 DEF TreeOK
<1>6. Open(ast, st) = <<1>>  BY <1>3 DEF Open
<1>7. Hangs(ast, <<1>>, expect, q) /\ q[1] = Len(<<1>>)
  <2>1. expect \in Seq(Items) /\ Len(expect) = 1 /\ expect[1] = "list"
    <3>1. PICK it : it = "list"  OBVIOUS
    <3>2. it \in Items  BY <3>1 DEF Items
    <3>3. expect = <<it>>  BY <1>1, <3>1
    <3>4. expect \in Seq(Items) /\ Len(expect) = 1 /\ expect[1] = it  BY <3>2, <3>3
    <3> QED BY <3>1, <3>4
  <2>2. q \in Seq(Nat) /\ Len(q) = 2 /\ q[1] = 1 /\ q[2] = 0  OBVIOUS
  <2>3. Belongs(ast, <<1>>, "list", 1, 0)  BY <1>3 DEF Belongs, Span, Awaits, e
  <2> HIDE DEF q
  <2>4. \A j \in DOMAIN expect : Belongs(ast, <<1>>, expect[j], q[j], q[j + 1])
    <3>1. DOMAIN expect = {1} /\ 1 + 1 = 2  BY <2>1
    <3> QED BY <2>1, <2>2, <2>3, <3>1
  <2>5. \A i, j \in DOMAIN q : i <= j => q[j] <= q[i]
    <3>1. DOMAIN q = 1..2  BY <2>2
    <3> QED BY <2>2, <3>1
  <2> QED BY <2>1, <2>2, <2>4, <2>5 DEF Hangs
<1>8. ASSUME NEW K PROVE Count(ast, <<1>>, K) = IF "block" \in K THEN 1 ELSE 0
  <2>1. Count(ast, <<>>, K) = 0  BY CountEmpty
  <2>2. Append(<<>>, 1) = <<1>> /\ <<>> \in Seq(Nat)  OBVIOUS
  <2>3. PICK z, y : z = <<>> /\ y = <<1>>  OBVIOUS
  <2>4. NatGrows(y, z, 1)  BY <2>2, <2>3 DEF NatGrows, Grows
  <2>5. Count(ast, y, K) = Count(ast, z, K) + (IF ast[1].kind \in K THEN 1 ELSE 0)
    BY <2>4, NatGrowsTo
  <2> QED BY <1>3, <2>1, <2>3, <2>5 DEF e
<1>9. Parses(ast, st, q, expect, within, parser.depth, parser.loops)
  <2>1. parser.depth = 1 /\ parser.loops = 0 /\ within = Path(ast, Len(ast))
    BY <1>1, <1>3, <1>4
  <2>2. Count(ast, <<1>>, {"block"}) = 1 /\ Count(ast, <<1>>, LoopKinds) = 0
    BY <1>8 DEF LoopKinds
  <2> HIDE DEF st, q
  <2> QED BY <1>5, <1>6, <1>7, <2>1, <2>2 DEF Parses
<1> QED BY <1>2, <1>9 DEF ParseOK

-----------------------------------------------------------------------------
(* What the parser promises *)

(* The counters of the parser count the blocks and the loops that are open,  *)
(* `within` is the path of open constructs, and every node of the tree opens *)
(* or closes what the grammar lets it (nc_parse_statement, nc_parse_block).  *)
THEOREM TreesAreNested == Spec => []ParseOK
<1>1. Init => ParseOK  BY ParserStarts
<1>2. ParseOK /\ [Next]_vars => ParseOK'
  <2>1. ASSUME ParseOK, UNCHANGED vars PROVE ParseOK'  BY <2>1 DEF vars, parseVars, ParseOK
  <2> QED BY <2>1, ParserKeeps
<1> QED BY <1>1, <1>2, PTL DEF Spec

\* Every break has a loop or a switch around it, every continue a loop.
JumpsInside ==
  \A n \in DOMAIN ast :
    LET Inside(kinds) == \E k \in DOMAIN ast[n].within : ast[ast[n].within[k]].kind \in kinds
    IN  /\ ast[n].kind = "break" => Inside(Breakable)
        /\ ast[n].kind = "continue" => Inside(LoopKinds)

(* A counter of open loops, and a search for an open switch, are enough to   *)
(* keep break and continue where they have a target, so that the generator   *)
(* finds a context for each (nc_parse_statement, loop_depth, switch_depth).  *)
THEOREM JumpsHaveTargets == Spec => []JumpsInside
<1>1. ParseOK => JumpsInside
  <2> SUFFICES ASSUME ParseOK, NEW n \in DOMAIN ast, NEW K,
                      \/ ast[n].kind = "break" /\ K = Breakable
                      \/ ast[n].kind = "continue" /\ K = LoopKinds
               PROVE  \E k \in DOMAIN ast[n].within : ast[ast[n].within[k]].kind \in K
    BY DEF JumpsInside
  <2>1. PICK st : TreeOK(ast, st)  BY DEF ParseOK, Parses
  <2>2. n \in 1..Len(ast) /\ n - 1 \in 0..Len(ast)  BY <2>1 DEF TreeOK
  <2> DEFINE s == Stack(st, n - 1)
             p == Path(ast, n - 1)
  <2>3. Joins(ast, s, p, ast[n], n, st[n]) /\ Suits(ast, s, ast[n])
    BY <2>1, <2>2 DEF TreeOK, NodeOK
  <2>4. ToSet(p) = {k \in ToSet(s) : ast[k].kind \in Scoped}  BY <2>1, <2>2, TreeShape
  <2> HIDE DEF s, p
  <2>5. ast[n].within = p  BY <2>3 DEF Joins, Ends
  <2>6. Holding(ast, s, K) /\ K \subseteq Scoped
    BY <2>3 DEF Suits, Breakable, Scoped, LoopKinds
  <2>7. PICK j \in DOMAIN s : ast[s[j]].kind \in K  BY <2>6 DEF Holding
  <2>8. s[j] \in ToSet(p)  BY <2>4, <2>6, <2>7 DEF ToSet
  <2>9. PICK k \in DOMAIN p : p[k] = s[j]  BY <2>8 DEF ToSet
  <2> QED BY <2>5, <2>7, <2>9
<1> QED BY <1>1, TreesAreNested, PTL

-----------------------------------------------------------------------------
(* The code generator: a name means the declaration that C's scopes make     *)
(* visible.  The generator keeps no scopes but a list of symbols and, in     *)
(* the locals of its own recursion, how long that list was when a construct  *)
(* began.  Named says which declarations the list holds, Framed that the     *)
(* lengths in frames are those at which the constructs that are open began,  *)
(* Bound that both hold of the tree the parser left.                         *)

(* What the generator keeps, in terms of the tree.  n nodes are done.        *)
List(s) == s \in Seq(ToSet(s))
SymbolType == [name : Variable, kind : Declarations, backed : 0..1, owns : 0..1,
               scope : Int, epoch : Nat, source : Nat, node : Nat]

Declared(t, d) == t[d].kind \in Declarations \/ (t[d].kind = "for" /\ t[d].how # "none")
Seen(t, d, n) == Declared(t, d) /\ IsPrefixOf(Path(t, d), Path(t, n))

\* The first k symbols are those that were there when construct m was opened.
Kept(sy, k, m) == /\ k \in 0..Len(sy)
                  /\ \A i \in 1..Len(sy) : i <= k <=> sy[i].node < m
Framed(t, s, fr, sy) ==
  /\ List(fr) /\ Len(fr) = Len(s)
  /\ \A j \in 1..Len(s) : t[s[j]].kind \in Scopes => Kept(sy, fr[j].kept, s[j])

\* The symbols are the parameters and the declarations that can be seen.
Named(t, n, sy) ==
  /\ sy \in Seq(SymbolType) /\ Len(Parameters) \in 0..Len(sy)
  /\ \A i \in 1..Len(sy) : sy[i].node \in 0..n
  /\ \A i \in 1..Len(Parameters) : sy[i].name = Parameters[i] /\ sy[i].node = 0
  /\ \A i \in Len(Parameters) + 1 .. Len(sy) :
       /\ sy[i].node \in 1..n /\ Seen(t, sy[i].node, n)
       /\ sy[i].name = t[sy[i].node].name
  /\ \A i, j \in Len(Parameters) + 1 .. Len(sy) : i < j => sy[i].node < sy[j].node
  /\ \A d \in 1..n : Seen(t, d, n) => \E i \in Len(Parameters) + 1 .. Len(sy) : sy[i].node = d

Generates(t, st, n, fr, sy) ==
  /\ n \in 0..Len(t)
  /\ Framed(t, Stack(st, n), fr, sy)
  /\ Named(t, n, sy)

-----------------------------------------------------------------------------
LEMMA PrefixIs ==
  ASSUME NEW a \in Seq(Nat), NEW b \in Seq(Nat)
  PROVE  IsPrefixOf(a, b) <=> Len(a) <= Len(b) /\ \A i \in 1..Len(a) : b[i] = a[i]
<1>1. Len(a) \in Nat /\ Len(b) \in Nat  OBVIOUS
<1>2. ASSUME Len(a) <= Len(b)
      PROVE  SubSeq(b, 1, Len(a)) = a <=> \A i \in 1..Len(a) : b[i] = a[i]
  <2> DEFINE c == SubSeq(b, 1, Len(a))
  <2>1. 1 \in 1..Len(b) + 1 /\ Len(a) \in 0..Len(b)  BY <1>1, <1>2
  <2>2. c \in Seq(Nat) /\ Len(c) = Len(a) /\ \A i \in 1..Len(a) : c[i] = b[i]
    BY <1>1, <2>1, SubSeqProperties
  <2> HIDE DEF c
  <2>3. c = a <=> \A i \in 1..Len(a) : c[i] = a[i]  BY <2>2, SeqEqual
  <2> QED BY <2>2, <2>3 DEF c
<1> QED BY <1>2 DEF IsPrefixOf

(* The path behind the next node.                                            *)
Straight == Leaves \cup {"if", "else", "endif"}
Straightens(t, st, n) ==
  t[n + 1].kind \in Straight => Path(t, n + 1) = Path(t, n)
Deepens(t, st, n) ==
  t[n + 1].kind \in Scoped => Grows(Path(t, n + 1), Path(t, n), n + 1)
Ascends(t, st, n) ==
  t[n + 1].kind \in Ends \ {"endif"} =>
    /\ Path(t, n) # <<>> /\ Path(t, n + 1) = Front(Path(t, n))
    /\ Stack(st, n) # <<>> /\ Last(Path(t, n)) = Last(Stack(st, n))
    /\ t[Last(Stack(st, n))].kind \in Closes(t[n + 1].kind)

LEMMA PathNext ==
  ASSUME NEW t, NEW st, TreeOK(t, st), NEW n \in 0..Len(t) - 1
  PROVE  Straightens(t, st, n) /\ Deepens(t, st, n) /\ Ascends(t, st, n)
<1> DEFINE e == t[n + 1]
           s == Stack(st, n)
           p == Path(t, n)
<1>1. n \in Nat /\ n \in 0..Len(t) /\ n + 1 \in 1..Len(t) /\ (n + 1) - 1 = n /\ n + 1 # 0
  BY DEF TreeOK
<1>2. Joins(t, s, p, e, n + 1, st[n + 1])  BY <1>1 DEF TreeOK, NodeOK
<1>3. Path(t, n + 1) = IF e.kind \in Scoped THEN Append(e.within, n + 1) ELSE e.within
  BY <1>1 DEF Path
<1>4. /\ s \in Seq(1..n) /\ Rising(s) /\ p \in Seq(1..n) /\ Rising(p)
      /\ ToSet(p) = {k \in ToSet(s) : t[k].kind \in Scoped}
  BY <1>1, TreeShape
<1>5. e.within = IF e.kind \in Ends \ {"endif"} THEN Front(p) ELSE p  BY <1>2 DEF Joins
<1> HIDE DEF e, s, p
<1>6. e.kind \in Straight => e.kind \notin Scoped /\ e.kind \notin Ends \ {"endif"}
  BY DEF Straight, Leaves, Declarations, Scoped, LoopKinds, Ends
<1>7. e.kind \in Scoped => e.kind \notin Ends  BY DEF Scoped, LoopKinds, Ends
<1>8. e.kind \in Straight => Path(t, n + 1) = p  BY <1>3, <1>5, <1>6
<1>9. e.kind \in Scoped => Path(t, n + 1) = Append(p, n + 1)  BY <1>3, <1>5, <1>7
<1>10. ASSUME e.kind \in Ends \ {"endif"}
       PROVE  /\ p # <<>> /\ Path(t, n + 1) = Front(p) /\ s # <<>> /\ Last(p) = Last(s)
              /\ t[Last(s)].kind \in Closes(e.kind)
  <2>1. TopIn(t, s, Closes(e.kind))  BY <1>2, <1>10 DEF Joins
  <2>2. s # <<>> /\ t[Last(s)].kind \in Closes(e.kind)  BY <2>1 DEF TopIn
  <2>3. \A kind \in Ends \ {"endif"} : Closes(kind) \subseteq Scoped
    BY DEF Ends, Closes, Scoped, LoopKinds
  <2>4. TopIn(t, s, Scoped)  BY <1>10, <2>2, <2>3 DEF TopIn
  <2>5. p # <<>> /\ Last(p) = Last(s)  BY <1>1, <1>4, <2>4, LastOfBoth
  <2>6. Path(t, n + 1) = Front(p)  BY <1>3, <1>5, <1>7, <1>10
  <2> QED BY <2>2, <2>5, <2>6
<1>11. Straightens(t, st, n)  BY <1>8 DEF Straightens, e, p
<1>12. Deepens(t, st, n)  BY <1>9 DEF Deepens, Grows, e, p
<1>13. Ascends(t, st, n)
  BY <1>10 DEF Ascends, e, p, s
<1> QED BY <1>11, <1>12, <1>13

LEMMA SeenIs ==
  ASSUME NEW t, NEW st, TreeOK(t, st), NEW n \in 1..Len(t), NEW d \in 1..n
  PROVE  /\ Path(t, d) \in Seq(Nat) /\ Path(t, n) \in Seq(Nat)
         /\ \A i \in 1..Len(Path(t, d)) : Path(t, d)[i] \in 1..d
         /\ \A i \in 1..Len(Path(t, n)) : Path(t, n)[i] \in 1..n
         /\ Seen(t, d, n) <=>
              /\ Declared(t, d) /\ Len(Path(t, d)) <= Len(Path(t, n))
              /\ \A i \in 1..Len(Path(t, d)) : Path(t, n)[i] = Path(t, d)[i]
<1>1. n \in 0..Len(t) /\ d \in 0..Len(t)  BY DEF TreeOK
<1>2. Path(t, d) \in Seq(1..d) /\ Path(t, n) \in Seq(1..n)  BY <1>1, TreeShape
<1> DEFINE a == Path(t, d)
           b == Path(t, n)
<1>3. a \in Seq(1..d) /\ b \in Seq(1..n)  BY <1>2
<1>4. Seen(t, d, n) <=> Declared(t, d) /\ IsPrefixOf(a, b)  BY DEF Seen
<1> HIDE DEF a, b
<1>5. a \in Seq(Nat) /\ b \in Seq(Nat)
  <2>1. 1..d \subseteq Nat /\ 1..n \subseteq Nat  OBVIOUS
  <2> QED BY <1>3, <2>1
<1>6. (\A i \in 1..Len(a) : a[i] \in 1..d) /\ (\A i \in 1..Len(b) : b[i] \in 1..n)  BY <1>3, SMTT(30)
<1>7. IsPrefixOf(a, b) <=> Len(a) <= Len(b) /\ \A i \in 1..Len(a) : b[i] = a[i]
  BY <1>5, PrefixIs
<1> QED BY <1>4, <1>5, <1>6, <1>7 DEF a, b

(* What can be seen from the next node.                                      *)
LEMMA SeenDeeper ==
  ASSUME NEW t, NEW st, TreeOK(t, st), NEW n \in 1..Len(t) - 1, NEW d \in 1..n,
         Grows(Path(t, n + 1), Path(t, n), n + 1)
  PROVE  Seen(t, d, n + 1) <=> Seen(t, d, n)
<1> DEFINE a == Path(t, d)
           b == Path(t, n)
           c == Path(t, n + 1)
<1>1. n \in 1..Len(t) /\ n + 1 \in 1..Len(t) /\ d \in 1..n + 1 /\ n \in Nat /\ n + 1 \in Nat
      /\ d \in Nat
  BY DEF TreeOK
<1>2. /\ a \in Seq(Nat) /\ b \in Seq(Nat) /\ \A i \in 1..Len(a) : a[i] \in 1..d
      /\ Seen(t, d, n) <=> Declared(t, d) /\ Len(a) <= Len(b) /\ \A i \in 1..Len(a) : b[i] = a[i]
  BY <1>1, SeenIs
<1>3. Seen(t, d, n + 1) <=> Declared(t, d) /\ Len(a) <= Len(c) /\ \A i \in 1..Len(a) : c[i] = a[i]
  BY <1>1, SeenIs
<1>4. Grows(c, b, n + 1)  OBVIOUS
<1> HIDE DEF a, b, c
<1>5. NatGrows(c, b, n + 1)  BY <1>1, <1>2, <1>4 DEF NatGrows
<1>6. /\ Len(c) = Len(b) + 1 /\ Len(b) \in Nat
      /\ \A i \in 1..Len(b) : c[i] = b[i]
      /\ c[Len(b) + 1] = n + 1
  BY <1>5, NatGrowsTo
<1>7. Len(a) \in Nat  BY <1>2
<1>8. ASSUME Len(a) <= Len(b)
      PROVE  (\A i \in 1..Len(a) : c[i] = a[i]) <=> (\A i \in 1..Len(a) : b[i] = a[i])
  <2>1. \A i \in 1..Len(a) : i \in 1..Len(b)  BY <1>6, <1>7, <1>8
  <2> QED BY <1>6, <2>1
<1>9. ASSUME Len(a) = Len(b) + 1, \A i \in 1..Len(a) : c[i] = a[i]
      PROVE  FALSE
  <2>1. Len(b) + 1 \in 1..Len(a)  BY <1>6, <1>9
  <2>2. a[Len(b) + 1] = n + 1 /\ a[Len(b) + 1] \in 1..d  BY <1>2, <1>6, <1>9, <2>1
  <2> QED BY <1>1, <2>2
<1>10. Len(a) <= Len(c) <=> Len(a) <= Len(b) \/ Len(a) = Len(b) + 1  BY <1>6, <1>7
<1> QED BY <1>2, <1>3, <1>8, <1>9, <1>10

LEMMA SeenHigher ==
  ASSUME NEW t, NEW st, TreeOK(t, st), NEW n \in 1..Len(t) - 1, NEW d \in 1..n,
         Path(t, n) # <<>>, Path(t, n + 1) = Front(Path(t, n))
  PROVE  Seen(t, d, n + 1) <=> Seen(t, d, n) /\ d < Last(Path(t, n))
<1> DEFINE a == Path(t, d)
           b == Path(t, n)
           c == Path(t, n + 1)
           m == Last(Path(t, n))
<1>1. n \in 1..Len(t) /\ n + 1 \in 1..Len(t) /\ d \in 1..n + 1 /\ n \in Nat /\ n + 1 \in Nat
      /\ d \in Nat
  BY DEF TreeOK
<1>2. /\ a \in Seq(Nat) /\ b \in Seq(Nat) /\ \A i \in 1..Len(a) : a[i] \in 1..d
      /\ Seen(t, d, n) <=> Declared(t, d) /\ Len(a) <= Len(b) /\ \A i \in 1..Len(a) : b[i] = a[i]
  BY <1>1, SeenIs
<1>3. Seen(t, d, n + 1) <=> Declared(t, d) /\ Len(a) <= Len(c) /\ \A i \in 1..Len(a) : c[i] = a[i]
  BY <1>1, SeenIs
<1>4. Lasts(t, d, n)  BY <1>1 DEF TreeOK
<1>5. \A j \in DOMAIN b : b[j] <= d => j \in DOMAIN a /\ a[j] = b[j]  BY <1>4 DEF Lasts
<1>6. b # <<>> /\ c = Front(b) /\ m = Last(b)  OBVIOUS
<1> HIDE DEF a, b, c, m
<1> DEFINE N == Nat
<1>7. b \in Seq(N)  BY <1>2
<1> HIDE DEF N
<1>8. /\ Len(c) = Len(b) - 1 /\ Len(b) \in Nat /\ Len(b) >= 1 /\ DOMAIN b = 1..Len(b)
      /\ \A i \in 1..Len(b) - 1 : c[i] = b[i]
      /\ m = b[Len(b)] /\ m \in N
  BY <1>6, <1>7, FrontOf
<1>9. Len(a) \in Nat /\ DOMAIN a = 1..Len(a) /\ m \in Nat  BY <1>2, <1>8 DEF N
<1>10. ASSUME Len(a) <= Len(b) - 1
       PROVE  (\A i \in 1..Len(a) : c[i] = a[i]) <=> (\A i \in 1..Len(a) : b[i] = a[i])
  <2>1. \A i \in 1..Len(a) : i \in 1..Len(b) - 1  BY <1>8, <1>9, <1>10
  <2> QED BY <1>8, <2>1
<1>11. ASSUME ~(d < m) PROVE Len(a) >= Len(b)
  <2>1. Len(b) \in DOMAIN b /\ b[Len(b)] <= d  BY <1>1, <1>8, <1>9, <1>11
  <2>2. Len(b) \in 1..Len(a)  BY <1>5, <1>9, <2>1
  <2> QED BY <1>8, <1>9, <2>2
<1>12. ASSUME d < m, Len(a) = Len(b), \A i \in 1..Len(a) : b[i] = a[i] PROVE FALSE
  <2>1. Len(b) \in 1..Len(a)  BY <1>8, <1>12
  <2>2. a[Len(b)] = m /\ a[Len(b)] \in 1..d  BY <1>2, <1>8, <1>12, <2>1
  <2> QED BY <1>1, <1>9, <1>12, <2>2
<1>13. /\ Len(a) <= Len(b) <=> Len(a) <= Len(b) - 1 \/ Len(a) = Len(b)
       /\ Len(a) <= Len(b) - 1 => ~(Len(a) >= Len(b))
       /\ Len(c) = Len(b) - 1
  <2>1. Len(a) \in Nat /\ Len(b) \in Nat /\ Len(c) = Len(b) - 1  BY <1>8, <1>9
  <2> QED BY <2>1
<1>14. Seen(t, d, n + 1) => Seen(t, d, n) /\ d < m
  BY <1>2, <1>3, <1>10, <1>11, <1>13
<1>15. Seen(t, d, n) /\ d < m => Seen(t, d, n + 1)
  BY <1>2, <1>3, <1>10, <1>12, <1>13
<1> QED BY <1>14, <1>15 DEF m

(* Behind a loop or a switch whose body is no block, nothing was declared.   *)
LEMMA NoneInside ==
  ASSUME NEW t, NEW st, TreeOK(t, st), Disciplined = 1, NEW n \in 1..Len(t), NEW d \in 1..n,
         Path(t, n) # <<>>, Seen(t, d, n), t[Last(Path(t, n))].kind \in {"while", "do", "switch"}
  PROVE  d < Last(Path(t, n))
<1> DEFINE a == Path(t, d)
           b == Path(t, n)
           m == Last(Path(t, n))
<1>1. /\ a \in Seq(Nat) /\ b \in Seq(Nat) /\ \A i \in 1..Len(a) : a[i] \in 1..d
      /\ Declared(t, d) /\ Len(a) <= Len(b) /\ \A i \in 1..Len(a) : b[i] = a[i]
  BY SeenIs
<1>2. d \in 1..Len(t) /\ d \in Nat /\ d \in 0..Len(t) /\ d - 1 \in 0..Len(t) /\ n \in Nat
      /\ (d - 1) + 1 = d /\ d - 1 \in Nat /\ d - 1 \in 0..Len(t) - 1
  BY DEF TreeOK
<1>3. Lasts(t, d, n)  BY DEF TreeOK
<1>4. \A j \in DOMAIN b : b[j] <= d => j \in DOMAIN a /\ a[j] = b[j]  BY <1>3 DEF Lasts
<1>5. b # <<>> /\ m = Last(b) /\ t[m].kind \in {"while", "do", "switch"}  OBVIOUS
<1>6. Path(t, d) = a  OBVIOUS
<1> HIDE DEF a, b, m
<1> DEFINE N == Nat
<1>7. b \in Seq(N) /\ a \in Seq(N)  BY <1>1
<1> HIDE DEF N
<1>8. Len(b) \in Nat /\ Len(b) >= 1 /\ DOMAIN b = 1..Len(b) /\ m = b[Len(b)] /\ m \in N
  BY <1>5, <1>7, FrontOf
<1>9. Len(a) \in Nat /\ DOMAIN a = 1..Len(a) /\ m \in Nat  BY <1>1, <1>8 DEF N
<1>10. SUFFICES ASSUME ~(d < m) PROVE FALSE  BY DEF m
<1>11. Len(a) = Len(b)
  <2>1. Len(b) \in DOMAIN b /\ b[Len(b)] <= d  BY <1>2, <1>8, <1>9, <1>10
  <2>2. Len(b) \in 1..Len(a)  BY <1>4, <1>9, <2>1
  <2>3. Len(a) <= Len(b) /\ Len(a) \in Nat /\ Len(b) \in Nat  BY <1>1, <1>8, <1>9
  <2> QED BY <2>2, <2>3
<1>12. a # <<>> /\ Last(a) = m
  <2>1. Len(a) \in 1..Len(a) /\ Len(a) >= 1  BY <1>8, <1>11
  <2>2. a # <<>>  BY <2>1, EmptySeq
  <2>3. Last(a) = a[Len(a)]  BY <1>7, <2>2, FrontOf
  <2>4. a[Len(a)] = b[Len(a)]  BY <1>1, <2>1
  <2> QED BY <1>8, <1>11, <2>2, <2>3, <2>4
<1>13. CASE t[d].kind \in Declarations
  <2>1. t[d].kind \in Straight  BY <1>13 DEF Straight, Leaves
  <2>2. Path(t, d) = Path(t, d - 1)
    <3>1. Straightens(t, st, d - 1)  BY <1>2, PathNext
    <3> QED BY <1>2, <2>1, <3>1 DEF Straightens
  <2>3. TopIn(t, Stack(st, d - 1), {"block", "case", "default"})
    BY <1>2, <1>13 DEF TreeOK, NodeOK, Suits
  <2>4. /\ Stack(st, d - 1) \in Seq(1..d - 1) /\ Rising(Stack(st, d - 1))
        /\ Path(t, d - 1) \in Seq(1..d - 1) /\ Rising(Path(t, d - 1))
        /\ ToSet(Path(t, d - 1)) = {k \in ToSet(Stack(st, d - 1)) : t[k].kind \in Scoped}
    BY <1>2, TreeShape
  <2>5. TopIn(t, Stack(st, d - 1), Scoped)  BY <2>3 DEF TopIn, Scoped
  <2>6. Last(Path(t, d - 1)) = Last(Stack(st, d - 1))  BY <1>2, <2>4, <2>5, LastOfBoth
  <2>7. t[m].kind \in {"block", "case", "default"}
    BY <1>6, <1>12, <2>2, <2>3, <2>6 DEF TopIn
  <2> QED BY <1>5, <2>7
<1>14. CASE t[d].kind = "for"
  <2>1. t[d].kind \in Scoped  BY <1>14 DEF Scoped, LoopKinds
  <2>2. Deepens(t, st, d - 1)  BY <1>2, PathNext
  <2>3. Grows(a, Path(t, d - 1), d)  BY <1>2, <1>6, <2>1, <2>2 DEF Deepens
  <2>4. Path(t, d - 1) \in Seq(Nat)
    <3>1. Path(t, d - 1) \in Seq(1..d - 1) /\ 1..d - 1 \subseteq Nat  BY <1>2, TreeShape
    <3> QED BY <3>1
  <2>5. NatGrows(a, Path(t, d - 1), d)  BY <1>2, <2>3, <2>4 DEF NatGrows
  <2>6. Len(a) = Len(Path(t, d - 1)) + 1 /\ a[Len(Path(t, d - 1)) + 1] = d
    BY <2>5, NatGrowsTo
  <2>7. Last(a) = d  BY <2>6 DEF Last
  <2> QED BY <1>5, <1>12, <1>14, <2>7
<1> QED BY <1>1, <1>13, <1>14 DEF Declared

-----------------------------------------------------------------------------
(* The symbols *)

Alike(sy, sy2) ==
  /\ sy2 \in Seq(SymbolType) /\ Len(sy2) = Len(sy)
  /\ \A i \in 1..Len(sy) : sy2[i].node = sy[i].node /\ sy2[i].name = sy[i].name
Unchanging(t, n) ==
  /\ \A d \in 1..n : Seen(t, d, n + 1) <=> Seen(t, d, n)
  /\ ~Seen(t, n + 1, n + 1)

LEMMA NamedKeeps ==
  ASSUME NEW t, NEW n \in Nat, NEW sy, NEW sy2, Named(t, n, sy), Alike(sy, sy2),
         Unchanging(t, n)
  PROVE  Named(t, n + 1, sy2)
<1> DEFINE k == Len(Parameters)
           L == Len(sy)
<1>1. L \in Nat /\ k \in Nat /\ k <= L /\ Len(sy2) = L /\ sy2 \in Seq(SymbolType)
      /\ \A i \in 1..L : sy2[i].node = sy[i].node /\ sy2[i].name = sy[i].name
  BY DEF Named, Alike
<1>2. /\ \A i \in 1..L : sy[i].node \in 0..n
      /\ \A i \in 1..k : sy[i].name = Parameters[i] /\ sy[i].node = 0
      /\ \A i \in k + 1 .. L : /\ sy[i].node \in 1..n /\ Seen(t, sy[i].node, n)
                               /\ sy[i].name = t[sy[i].node].name
      /\ \A i, j \in k + 1 .. L : i < j => sy[i].node < sy[j].node
      /\ \A d \in 1..n : Seen(t, d, n) => \E i \in k + 1 .. L : sy[i].node = d
  BY DEF Named
<1>3. /\ \A d \in 1..n : Seen(t, d, n + 1) <=> Seen(t, d, n)
      /\ ~Seen(t, n + 1, n + 1)
  BY DEF Unchanging
<1> HIDE DEF k, L
<1>4. /\ \A i \in 1..k : i \in 1..L
      /\ \A i \in k + 1 .. L : i \in 1..L
      /\ 0..n \subseteq 0..n + 1 /\ 1..n \subseteq 1..n + 1
      /\ \A d \in 1..n + 1 : d \in 1..n \/ d = n + 1
  BY <1>1
<1>5. \A i \in 1..L : sy2[i].node \in 0..n + 1  BY <1>1, <1>2, <1>4
<1>6. \A i \in 1..k : sy2[i].name = Parameters[i] /\ sy2[i].node = 0  BY <1>1, <1>2, <1>4
<1>7. \A i \in k + 1 .. L : /\ sy2[i].node \in 1..n + 1 /\ Seen(t, sy2[i].node, n + 1)
                            /\ sy2[i].name = t[sy2[i].node].name
  BY <1>1, <1>2, <1>3, <1>4
<1>8. \A i, j \in k + 1 .. L : i < j => sy2[i].node < sy2[j].node  BY <1>1, <1>2, <1>4
<1>9. \A d \in 1..n + 1 : Seen(t, d, n + 1) => \E i \in k + 1 .. L : sy2[i].node = d
  BY <1>1, <1>2, <1>3, <1>4
<1>10. Len(sy2) = L /\ k \in 0..L  BY <1>1
<1> QED BY <1>1, <1>5, <1>6, <1>7, <1>8, <1>9, <1>10 DEF Named, k, L

Introduces(t, n, sy, x, sy2) ==
  /\ Grows(sy2, sy, x) /\ x \in SymbolType /\ x.node = n + 1 /\ x.name = t[n + 1].name
  /\ \A d \in 1..n : Seen(t, d, n + 1) <=> Seen(t, d, n)
  /\ Seen(t, n + 1, n + 1)

LEMMA NamedAdds ==
  ASSUME NEW t, NEW n \in Nat, NEW sy, NEW x, NEW sy2, Named(t, n, sy),
         Introduces(t, n, sy, x, sy2)
  PROVE  Named(t, n + 1, sy2)
<1> DEFINE k == Len(Parameters)
           L == Len(sy)
<1>1. L \in Nat /\ k \in Nat /\ k <= L /\ sy \in Seq(SymbolType)
  BY DEF Named
<1>2. /\ \A i \in 1..L : sy[i].node \in 0..n
      /\ \A i \in 1..k : sy[i].name = Parameters[i] /\ sy[i].node = 0
      /\ \A i \in k + 1 .. L : /\ sy[i].node \in 1..n /\ Seen(t, sy[i].node, n)
                               /\ sy[i].name = t[sy[i].node].name
      /\ \A i, j \in k + 1 .. L : i < j => sy[i].node < sy[j].node
      /\ \A d \in 1..n : Seen(t, d, n) => \E i \in k + 1 .. L : sy[i].node = d
  BY DEF Named
<1>3. /\ \A d \in 1..n : Seen(t, d, n + 1) <=> Seen(t, d, n)
      /\ Seen(t, n + 1, n + 1)
      /\ x.node = n + 1 /\ x.name = t[n + 1].name
  BY DEF Introduces
<1>4. /\ Len(sy2) = L + 1 /\ sy2 \in Seq(SymbolType)
      /\ \A i \in 1..L : sy2[i] = sy[i]
      /\ sy2[L + 1] = x
  BY <1>1, GrowsTo DEF Introduces
<1> HIDE DEF k, L
<1>5. /\ \A i \in 1..k : i \in 1..L
      /\ \A i \in k + 1 .. L : i \in 1..L
      /\ 0..n \subseteq 0..n + 1 /\ 1..n \subseteq 1..n + 1
      /\ \A d \in 1..n + 1 : d \in 1..n \/ d = n + 1
      /\ \A i \in 1..L + 1 : i \in 1..L \/ i = L + 1
      /\ \A i \in k + 1 .. L + 1 : i \in k + 1 .. L \/ i = L + 1
      /\ k + 1 .. L \subseteq k + 1 .. L + 1 /\ L + 1 \in k + 1 .. L + 1
      /\ n + 1 \in 1..n + 1 /\ n + 1 \in 0..n + 1
  BY <1>1
<1>6. \A i \in 1..L + 1 : sy2[i].node \in 0..n + 1  BY <1>2, <1>3, <1>4, <1>5
<1>7. \A i \in 1..k : sy2[i].name = Parameters[i] /\ sy2[i].node = 0  BY <1>2, <1>4, <1>5
<1>8. \A i \in k + 1 .. L + 1 : /\ sy2[i].node \in 1..n + 1 /\ Seen(t, sy2[i].node, n + 1)
                                /\ sy2[i].name = t[sy2[i].node].name
  <2>1. ASSUME NEW i \in k + 1 .. L
        PROVE  /\ sy2[i].node \in 1..n + 1 /\ Seen(t, sy2[i].node, n + 1)
               /\ sy2[i].name = t[sy2[i].node].name
    BY <1>2, <1>3, <1>4, <1>5
  <2>2. /\ sy2[L + 1].node \in 1..n + 1 /\ Seen(t, sy2[L + 1].node, n + 1)
        /\ sy2[L + 1].name = t[sy2[L + 1].node].name
    BY <1>3, <1>4, <1>5
  <2> QED BY <1>5, <2>1, <2>2
<1>9. \A i, j \in k + 1 .. L + 1 : i < j => sy2[i].node < sy2[j].node
  <2>1. SUFFICES ASSUME NEW i \in k + 1 .. L + 1, NEW j \in k + 1 .. L + 1, i < j
                 PROVE  sy2[i].node < sy2[j].node
    OBVIOUS
  <2>2. i \in k + 1 .. L /\ i \in 1..L  BY <1>1, <2>1
  <2>3. CASE j \in k + 1 .. L
    <3>1. j \in 1..L  BY <1>5, <2>3
    <3> QED BY <1>2, <1>4, <2>1, <2>2, <2>3, <3>1
  <2>4. CASE j = L + 1
    <3>1. sy2[i].node \in 0..n /\ sy2[j].node = n + 1  BY <1>2, <1>3, <1>4, <2>2, <2>4
    <3> QED BY <3>1
  <2> QED BY <1>5, <2>3, <2>4
<1>10. \A d \in 1..n + 1 : Seen(t, d, n + 1) => \E i \in k + 1 .. L + 1 : sy2[i].node = d
  <2>1. ASSUME NEW d \in 1..n, Seen(t, d, n + 1)
        PROVE  \E i \in k + 1 .. L + 1 : sy2[i].node = d
    <3>1. PICK i \in k + 1 .. L : sy[i].node = d  BY <1>2, <1>3, <2>1
    <3> QED BY <1>4, <1>5, <3>1
  <2>2. \E i \in k + 1 .. L + 1 : sy2[i].node = n + 1  BY <1>3, <1>4, <1>5
  <2> QED BY <1>5, <2>1, <2>2
<1>11. Len(sy2) = L + 1 /\ k \in 0..L + 1  BY <1>1, <1>4
<1> QED BY <1>4, <1>6, <1>7, <1>8, <1>9, <1>10, <1>11 DEF Named, k

Forgets(t, n, sy, k, m, sy2) ==
  /\ Kept(sy, k, m) /\ m \in 1..n /\ sy2 = SubSeq(sy, 1, k)
  /\ \A d \in 1..n : Seen(t, d, n + 1) <=> Seen(t, d, n) /\ d < m
  /\ ~Seen(t, n + 1, n + 1)

LEMMA Cut ==
  ASSUME NEW S, NEW sy \in Seq(S), NEW k \in 0..Len(sy), NEW sy2, sy2 = SubSeq(sy, 1, k)
  PROVE  sy2 \in Seq(S) /\ Len(sy2) = k /\ \A i \in 1..k : sy2[i] = sy[i]
<1>1. Len(sy) \in Nat /\ 1 \in 1..Len(sy) + 1  OBVIOUS
<1> QED BY <1>1, SubSeqProperties

LEMMA NamedCuts ==
  ASSUME NEW t, NEW n \in Nat, NEW sy, NEW c, NEW m, NEW sy2, Named(t, n, sy),
         Forgets(t, n, sy, c, m, sy2)
  PROVE  Named(t, n + 1, sy2)
<1> DEFINE k == Len(Parameters)
           L == Len(sy)
<1>1. L \in Nat /\ k \in Nat /\ k <= L /\ sy \in Seq(SymbolType) /\ c \in 0..L /\ m \in 1..n
  BY DEF Named, Forgets, Kept
<1>2. /\ \A i \in 1..L : sy[i].node \in 0..n
      /\ \A i \in 1..k : sy[i].name = Parameters[i] /\ sy[i].node = 0
      /\ \A i \in k + 1 .. L : /\ sy[i].node \in 1..n /\ Seen(t, sy[i].node, n)
                               /\ sy[i].name = t[sy[i].node].name
      /\ \A i, j \in k + 1 .. L : i < j => sy[i].node < sy[j].node
      /\ \A d \in 1..n : Seen(t, d, n) => \E i \in k + 1 .. L : sy[i].node = d
  BY DEF Named
<1>3. /\ \A d \in 1..n : Seen(t, d, n + 1) <=> Seen(t, d, n) /\ d < m
      /\ ~Seen(t, n + 1, n + 1)
      /\ \A i \in 1..L : i <= c <=> sy[i].node < m
  BY DEF Forgets, Kept
<1>4. Len(sy2) = c /\ sy2 \in Seq(SymbolType) /\ \A i \in 1..c : sy2[i] = sy[i]
  BY <1>1, Cut DEF Forgets
<1> HIDE DEF k, L
<1>5. k <= c
  <2>1. CASE k = 0  BY <1>1, <2>1
  <2>2. CASE k # 0
    <3>1. k \in 1..k /\ k \in 1..L  BY <1>1, <2>2
    <3>2. sy[k].node < m  BY <1>1, <1>2, <3>1
    <3> QED BY <1>3, <3>1, <3>2
  <2> QED BY <2>1, <2>2
<1>6. /\ \A i \in 1..k : i \in 1..c
      /\ \A i \in 1..c : i \in 1..L
      /\ \A i \in k + 1 .. c : i \in 1..c /\ i \in k + 1 .. L /\ i \in 1..L /\ i <= c
      /\ 0..n \subseteq 0..n + 1 /\ 1..n \subseteq 1..n + 1
      /\ \A d \in 1..n + 1 : d \in 1..n \/ d = n + 1
      /\ \A i \in k + 1 .. L : i \in 1..L /\ (i <= c => i \in k + 1 .. c)
  BY <1>1, <1>5
<1>7. \A i \in 1..c : sy2[i].node \in 0..n + 1  BY <1>2, <1>4, <1>6
<1>8. \A i \in 1..k : sy2[i].name = Parameters[i] /\ sy2[i].node = 0  BY <1>2, <1>4, <1>6
<1>9. \A i \in k + 1 .. c : /\ sy2[i].node \in 1..n + 1 /\ Seen(t, sy2[i].node, n + 1)
                            /\ sy2[i].name = t[sy2[i].node].name
  BY <1>2, <1>3, <1>4, <1>6
<1>10. \A i, j \in k + 1 .. c : i < j => sy2[i].node < sy2[j].node  BY <1>2, <1>4, <1>6, SMTT(30)
<1>11. \A d \in 1..n + 1 : Seen(t, d, n + 1) => \E i \in k + 1 .. c : sy2[i].node = d
  <2>1. ASSUME NEW d \in 1..n, Seen(t, d, n + 1)
        PROVE  \E i \in k + 1 .. c : sy2[i].node = d
    <3>1. PICK i \in k + 1 .. L : sy[i].node = d  BY <1>2, <1>3, <2>1
    <3>2. i \in k + 1 .. c  BY <1>3, <1>6, <2>1, <3>1
    <3> QED BY <1>4, <1>6, <3>1, <3>2
  <2> QED BY <1>3, <1>6, <2>1
<1>12. Len(sy2) = c /\ k \in 0..c  BY <1>1, <1>4, <1>5
<1> QED BY <1>4, <1>7, <1>8, <1>9, <1>10, <1>11, <1>12 DEF Named, k

-----------------------------------------------------------------------------
(* The frames *)

LEMMA ListGrows ==
  ASSUME NEW s, List(s), NEW x, NEW a, Grows(a, s, x)
  PROVE  /\ List(a) /\ Len(a) = Len(s) + 1 /\ Len(s) \in Nat
         /\ \A i \in 1..Len(s) : a[i] = s[i]
         /\ a[Len(s) + 1] = x
<1> DEFINE S == ToSet(s) \cup {x}
<1>1. s \in Seq(S) /\ x \in S
  <2>1. s \in Seq(ToSet(s)) /\ ToSet(s) \subseteq S  BY DEF List
  <2> QED BY <2>1
<1> HIDE DEF S
<1>2. /\ a \in Seq(S) /\ Len(a) = Len(s) + 1 /\ Len(s) \in Nat
      /\ \A i \in 1..Len(s) : a[i] = s[i]
      /\ a[Len(s) + 1] = x
  BY <1>1, GrowsTo
<1>3. a \in Seq(ToSet(a))
  <2>1. \A i \in 1..Len(a) : a[i] \in ToSet(a)  BY <1>2 DEF ToSet
  <2> QED BY <1>2, <2>1
<1> QED BY <1>2, <1>3 DEF List

LEMMA ListFront ==
  ASSUME NEW s, List(s), Len(s) >= 1
  PROVE  /\ List(Front(s)) /\ Len(Front(s)) = Len(s) - 1 /\ Len(s) \in Nat
         /\ \A i \in 1..Len(s) - 1 : Front(s)[i] = s[i]
         /\ Last(s) = s[Len(s)]
<1> DEFINE S == ToSet(s)
           f == Front(s)
<1>1. s \in Seq(S) /\ Len(s) \in Nat  BY DEF List
<1>2. s # <<>>  BY EmptySeq
<1> HIDE DEF S
<1>3. /\ f \in Seq(S) /\ Len(f) = Len(s) - 1
      /\ \A i \in 1..Len(s) - 1 : f[i] = s[i]
      /\ Last(s) = s[Len(s)]
  BY <1>1, <1>2, FrontOf
<1> HIDE DEF f
<1>4. f \in Seq(ToSet(f))
  <2>1. \A i \in 1..Len(f) : f[i] \in ToSet(f)  BY <1>3 DEF ToSet
  <2> QED BY <1>3, <2>1
<1> QED BY <1>1, <1>3, <1>4 DEF List, f

LEMMA FramedKeeps ==
  ASSUME NEW t, NEW s, NEW fr, NEW sy, NEW sy2, Framed(t, s, fr, sy), Alike(sy, sy2)
  PROVE  Framed(t, s, fr, sy2)
<1>1. \A k, m : Kept(sy, k, m) => Kept(sy2, k, m)  BY DEF Kept, Alike
<1> QED BY <1>1 DEF Framed

\* x stands for the node after n.
LEMMA FramedAdds ==
  ASSUME NEW n \in Nat, NEW t, NEW s \in Seq(1..n), NEW fr, NEW sy \in Seq(SymbolType),
         NEW x, x \in SymbolType, NEW sy2, Framed(t, s, fr, sy), Grows(sy2, sy, x), x.node = n + 1
  PROVE  Framed(t, s, fr, sy2)
<1>1. /\ Len(sy2) = Len(sy) + 1 /\ Len(sy) \in Nat
      /\ \A i \in 1..Len(sy) : sy2[i] = sy[i]
      /\ sy2[Len(sy) + 1] = x
  BY GrowsTo
<1>2. ASSUME NEW k, NEW m \in 1..n, Kept(sy, k, m) PROVE Kept(sy2, k, m)
  <2>1. k \in 0..Len(sy) /\ \A i \in 1..Len(sy) : i <= k <=> sy[i].node < m  BY <1>2 DEF Kept
  <2>2. k \in 0..Len(sy2)  BY <1>1, <2>1
  <2>3. ~(Len(sy) + 1 <= k) /\ ~(sy2[Len(sy) + 1].node < m)  BY <1>1, <2>1
  <2>4. \A i \in 1..Len(sy2) : i \in 1..Len(sy) \/ i = Len(sy) + 1
    <3>1. PICK L \in Nat : L = Len(sy)  BY <1>1
    <3>2. \A i \in 1..L + 1 : i \in 1..L \/ i = L + 1  OBVIOUS
    <3> QED BY <1>1, <3>1, <3>2
  <2>5. \A i \in 1..Len(sy2) : i <= k <=> sy2[i].node < m  BY <1>1, <2>1, <2>3, <2>4
  <2> QED BY <2>2, <2>5 DEF Kept
<1>3. \A j \in 1..Len(s) : s[j] \in 1..n  OBVIOUS
<1> QED BY <1>2, <1>3 DEF Framed

LEMMA FramedPush ==
  ASSUME NEW n \in Nat, NEW t, NEW s \in Seq(1..n), NEW fr, NEW sy, NEW f, NEW s2, NEW fr2,
         Framed(t, s, fr, sy), Grows(s2, s, n + 1), Grows(fr2, fr, f),
         t[n + 1].kind \in Scopes => Kept(sy, f.kept, n + 1)
  PROVE  Framed(t, s2, fr2, sy)
<1>1. /\ Len(s2) = Len(s) + 1 /\ Len(s) \in Nat
      /\ \A i \in 1..Len(s) : s2[i] = s[i]
      /\ s2[Len(s) + 1] = n + 1
  <2>1. s \in Seq(1..n + 1) /\ n + 1 \in 1..n + 1
    <3>1. 1..n \subseteq 1..n + 1  OBVIOUS
    <3> QED BY <3>1
  <2> DEFINE S == 1..n + 1
             x == n + 1
  <2>2. s \in Seq(S) /\ x \in S /\ Grows(s2, s, x)  BY <2>1
  <2> HIDE DEF S, x
  <2>3. /\ Len(s2) = Len(s) + 1 /\ Len(s) \in Nat
        /\ \A i \in 1..Len(s) : s2[i] = s[i]
        /\ s2[Len(s) + 1] = x
    BY <2>2, GrowsTo
  <2> QED BY <2>3 DEF x
<1>2. /\ List(fr2) /\ Len(fr2) = Len(fr) + 1 /\ Len(fr) \in Nat
      /\ \A i \in 1..Len(fr) : fr2[i] = fr[i]
      /\ fr2[Len(fr) + 1] = f
  BY ListGrows DEF Framed
<1>3. Len(fr) = Len(s) /\ \A j \in 1..Len(s) : t[s[j]].kind \in Scopes => Kept(sy, fr[j].kept, s[j])
  BY DEF Framed
<1>4. \A j \in 1..Len(s) + 1 : j \in 1..Len(s) \/ j = Len(s) + 1  BY <1>1
<1>5. \A j \in 1..Len(s2) : t[s2[j]].kind \in Scopes => Kept(sy, fr2[j].kept, s2[j])
  <2>1. ASSUME NEW j \in 1..Len(s), t[s2[j]].kind \in Scopes PROVE Kept(sy, fr2[j].kept, s2[j])
    <3>1. s2[j] = s[j] /\ fr2[j] = fr[j]  BY <1>1, <1>2, <1>3
    <3> QED BY <1>3, <2>1, <3>1
  <2>2. t[s2[Len(s) + 1]].kind \in Scopes => Kept(sy, fr2[Len(s) + 1].kept, s2[Len(s) + 1])
    BY <1>1, <1>2, <1>3
  <2> QED BY <1>1, <1>4, <2>1, <2>2
<1> QED BY <1>1, <1>2, <1>3, <1>5 DEF Framed

LEMMA FramedPop ==
  ASSUME NEW n \in Nat, NEW t, NEW s \in Seq(1..n), NEW fr, NEW sy, s # <<>>, Framed(t, s, fr, sy)
  PROVE  Framed(t, Front(s), Front(fr), sy)
<1>1. /\ Len(Front(s)) = Len(s) - 1 /\ Len(s) \in Nat /\ Len(s) >= 1
      /\ \A i \in 1..Len(s) - 1 : Front(s)[i] = s[i]
  BY FrontOf
<1>2. Len(fr) = Len(s) /\ \A j \in 1..Len(s) : t[s[j]].kind \in Scopes => Kept(sy, fr[j].kept, s[j])
  BY DEF Framed
<1>3. /\ List(Front(fr)) /\ Len(Front(fr)) = Len(fr) - 1
      /\ \A i \in 1..Len(fr) - 1 : Front(fr)[i] = fr[i]
  BY <1>1, <1>2, ListFront DEF Framed
<1>4. \A j \in 1..Len(s) - 1 : j \in 1..Len(s)  BY <1>1
<1>5. ASSUME NEW j \in 1..Len(Front(s)), t[Front(s)[j]].kind \in Scopes
      PROVE  Kept(sy, Front(fr)[j].kept, Front(s)[j])
  <2>1. Front(s)[j] = s[j] /\ Front(fr)[j] = fr[j] /\ j \in 1..Len(s)  BY <1>1, <1>2, <1>3, <1>4
  <2> QED BY <1>2, <1>5, <2>1
<1> QED BY <1>1, <1>2, <1>3, <1>5 DEF Framed

LEMMA FramedCuts ==
  ASSUME NEW n \in Nat, NEW t, NEW s \in Seq(1..n), NEW fr, NEW sy \in Seq(SymbolType), NEW sy2,
         s # <<>>, Rising(s), Framed(t, s, fr, sy), t[Last(s)].kind \in Scopes,
         sy2 = SubSeq(sy, 1, Last(fr).kept)
  PROVE  Kept(sy, Last(fr).kept, Last(s)) /\ Framed(t, Front(s), Front(fr), sy2)
<1> DEFINE c == Last(fr).kept
           m == Last(s)
           s1 == Front(s)
           f1 == Front(fr)
<1>1. /\ Len(s1) = Len(s) - 1 /\ Len(s) \in Nat /\ Len(s) >= 1 /\ m = s[Len(s)] /\ m \in 1..n
      /\ \A i \in 1..Len(s) - 1 : s1[i] = s[i]
      /\ DOMAIN s = 1..Len(s)
  BY FrontOf
<1>2. Len(fr) = Len(s) /\ \A j \in 1..Len(s) : t[s[j]].kind \in Scopes => Kept(sy, fr[j].kept, s[j])
  BY DEF Framed
<1>3. c = fr[Len(fr)].kept  BY <1>1, <1>2, ListFront DEF Framed
<1>4. Len(s) \in 1..Len(s) /\ \A j \in 1..Len(s) - 1 : j \in 1..Len(s) /\ j < Len(s)  BY <1>1
<1>5. Kept(sy, c, m)  BY <1>1, <1>2, <1>3, <1>4
<1>6. Framed(t, s1, f1, sy)  BY FramedPop
<1>7. \A j \in 1..Len(s1) : s1[j] < m /\ s1[j] \in 1..n
  <2>1. \A j \in 1..Len(s) : s[j] \in 1..n  OBVIOUS
  <2> QED BY <1>1, <1>4, <2>1 DEF Rising
<1>8. sy2 = SubSeq(sy, 1, c)  OBVIOUS
<1> HIDE DEF c, m, s1, f1
<1>9. c \in 0..Len(sy) /\ (\A i \in 1..Len(sy) : i <= c <=> sy[i].node < m) /\ Len(sy) \in Nat
  BY <1>5 DEF Kept
<1>10. Len(sy2) = c /\ \A i \in 1..c : sy2[i] = sy[i]
  <2>1. PICK k \in 0..Len(sy) : k = c  BY <1>9
  <2>2. SubSeq(sy, 1, k) \in Seq(SymbolType) /\ Len(SubSeq(sy, 1, k)) = k
        /\ \A i \in 1..k : SubSeq(sy, 1, k)[i] = sy[i]
    BY Cut
  <2> QED BY <1>8, <2>1, <2>2
<1>11. \A i \in 1..Len(sy) : sy[i].node \in Nat
  <2>1. \A i \in 1..Len(sy) : sy[i] \in SymbolType  OBVIOUS
  <2> QED BY <2>1 DEF SymbolType
<1>12. \A i \in 1..c : i \in 1..Len(sy)  BY <1>9
<1>13. ASSUME NEW k, NEW m1 \in 1..n, m1 < m, Kept(sy, k, m1) PROVE Kept(sy2, k, m1)
  <2>1. k \in 0..Len(sy) /\ \A i \in 1..Len(sy) : i <= k <=> sy[i].node < m1  BY <1>13 DEF Kept
  <2>2. k <= c
    <3>1. CASE k = 0  BY <1>9, <3>1
    <3>2. CASE k # 0
      <4>1. k \in 1..Len(sy) /\ k <= k  BY <1>9, <2>1, <3>2
      <4>2. sy[k].node < m1 /\ sy[k].node \in Nat  BY <1>11, <2>1, <4>1
      <4>3. sy[k].node < m  BY <1>1, <1>13, <4>2
      <4> QED BY <1>9, <4>1, <4>3
    <3> QED BY <3>1, <3>2
  <2>3. k \in 0..c  BY <1>9, <2>1, <2>2
  <2>4. \A i \in 1..c : i <= k <=> sy2[i].node < m1  BY <1>10, <1>12, <2>1
  <2> QED BY <1>10, <2>3, <2>4 DEF Kept
<1>14. \A j \in 1..Len(s1) : t[s1[j]].kind \in Scopes => Kept(sy2, f1[j].kept, s1[j])
  BY <1>6, <1>7, <1>13 DEF Framed
<1>15. Framed(t, s1, f1, sy2)  BY <1>6, <1>14 DEF Framed
<1> QED BY <1>5, <1>15 DEF c, m, s1, f1

\* The frame of an open switch is marked when its default comes.
LEMMA FramedMark ==
  ASSUME NEW n \in Nat, NEW t, NEW s \in Seq(1..n), NEW fr, NEW sy, NEW g,
         s # <<>>, Framed(t, s, fr, sy), t[Last(s)].kind \notin Scopes,
         List(g), Len(g) = Len(fr), \A j \in 1..Len(fr) - 1 : g[j] = fr[j]
  PROVE  Framed(t, s, g, sy)
<1>1. Len(s) \in Nat /\ Len(s) >= 1 /\ Last(s) = s[Len(s)]  BY FrontOf
<1>2. Len(fr) = Len(s) /\ \A j \in 1..Len(s) : t[s[j]].kind \in Scopes => Kept(sy, fr[j].kept, s[j])
  BY DEF Framed
<1>3. \A j \in 1..Len(s) : j = Len(s) \/ j \in 1..Len(s) - 1  BY <1>1
<1>4. \A j \in 1..Len(s) : t[s[j]].kind \in Scopes => Kept(sy, g[j].kept, s[j])
  BY <1>1, <1>2, <1>3
<1> QED BY <1>2, <1>4 DEF Framed

-----------------------------------------------------------------------------
(* The generator passes a node *)

LEMMA StackNext ==
  ASSUME NEW t, NEW st, TreeOK(t, st), NEW n \in 0..Len(t) - 1,
         NEW s, NEW s2, NEW kind, s = Stack(st, n), s2 = Stack(st, n + 1), kind = t[n + 1].kind
  PROVE  /\ n \in Nat /\ s \in Seq(1..n) /\ Rising(s)
         /\ kind \in Scoped \cup {"if"} => Grows(s2, s, n + 1)
         /\ kind = "else" => s # <<>> /\ Grows(s2, Front(s), n + 1)
         /\ kind \in Ends => s # <<>> /\ s2 = Front(s) /\ t[Last(s)].kind \in Closes(kind)
         /\ kind \in Leaves => s2 = s
<1>1. n \in Nat /\ n \in 0..Len(t) /\ n + 1 \in 1..Len(t) /\ (n + 1) - 1 = n /\ n + 1 # 0
  BY DEF TreeOK
<1>2. Joins(t, s, Path(t, n), t[n + 1], n + 1, st[n + 1])  BY <1>1 DEF TreeOK, NodeOK
<1>3. s2 = st[n + 1]  BY <1>1 DEF Stack
<1>4. s \in Seq(1..n) /\ Rising(s)  BY <1>1, TreeShape
<1> QED BY <1>1, <1>2, <1>3, <1>4 DEF Joins, TopIn, Grows

LEMMA SeenBySame ==
  ASSUME NEW t, NEW n, Path(t, n + 1) = Path(t, n), ~Declared(t, n + 1)
  PROVE  Unchanging(t, n)
BY DEF Unchanging, Seen

LEMMA SeenByDeeper ==
  ASSUME NEW t, NEW st, TreeOK(t, st), NEW n \in 0..Len(t) - 1, t[n + 1].kind \in Scoped
  PROVE  /\ \A d \in 1..n : Seen(t, d, n + 1) <=> Seen(t, d, n)
         /\ ~Declared(t, n + 1) => Unchanging(t, n)
<1>1. Grows(Path(t, n + 1), Path(t, n), n + 1)  BY PathNext DEF Deepens
<1>2. ASSUME NEW d \in 1..n PROVE Seen(t, d, n + 1) <=> Seen(t, d, n)
  <2>1. n \in 1..Len(t) - 1  OBVIOUS
  <2> QED BY <1>1, <2>1, SeenDeeper
<1> QED BY <1>2 DEF Unchanging, Seen

LEMMA SeenItself ==
  ASSUME NEW t, NEW st, TreeOK(t, st), NEW n \in 1..Len(t), Declared(t, n)
  PROVE  Seen(t, n, n)
<1>1. n \in 1..n  OBVIOUS
<1>2. Path(t, n) \in Seq(Nat)  BY <1>1, SeenIs
<1>3. Len(Path(t, n)) <= Len(Path(t, n))  BY <1>2
<1> QED BY <1>1, <1>3, SeenIs

LEMMA GenLeaf ==
  ASSUME NEW t, NEW st, TreeOK(t, st), NEW n \in 0..Len(t) - 1, NEW fr, NEW sy, NEW sy2,
         Generates(t, st, n, fr, sy), t[n + 1].kind \in Leaves \ Declarations, Alike(sy, sy2)
  PROVE  Generates(t, st, n + 1, fr, sy2)
<1>1. n \in Nat /\ n + 1 \in 0..Len(t)  BY DEF TreeOK
<1>2. Stack(st, n + 1) = Stack(st, n)  BY StackNext
<1>3. Path(t, n + 1) = Path(t, n)  BY PathNext DEF Straightens, Straight
<1>4. ~Declared(t, n + 1)  BY DEF Declared, Leaves, Declarations
<1>5. Named(t, n + 1, sy2)  BY <1>1, <1>3, <1>4, SeenBySame, NamedKeeps DEF Generates
<1>6. Framed(t, Stack(st, n), fr, sy2)  BY FramedKeeps DEF Generates
<1> QED BY <1>1, <1>2, <1>5, <1>6 DEF Generates

LEMMA GenDeclare ==
  ASSUME NEW t, NEW st, TreeOK(t, st), NEW n \in 0..Len(t) - 1, NEW fr, NEW sy, NEW x, NEW sy2,
         Generates(t, st, n, fr, sy), t[n + 1].kind \in Declarations,
         Grows(sy2, sy, x), x \in SymbolType, x.node = n + 1, x.name = t[n + 1].name
  PROVE  Generates(t, st, n + 1, fr, sy2)
<1>1. n \in Nat /\ n + 1 \in 0..Len(t) /\ n + 1 \in 1..Len(t)  BY DEF TreeOK
<1>2. t[n + 1].kind \in Leaves /\ t[n + 1].kind \in Straight  BY DEF Leaves, Straight
<1>3. Stack(st, n + 1) = Stack(st, n) /\ Stack(st, n) \in Seq(1..n)  BY <1>2, StackNext
<1>4. Path(t, n + 1) = Path(t, n)  BY <1>2, PathNext DEF Straightens
<1>5. Seen(t, n + 1, n + 1)  BY <1>1, SeenItself DEF Declared
<1>6. \A d \in 1..n : Seen(t, d, n + 1) <=> Seen(t, d, n)  BY <1>4 DEF Seen
<1>7. Introduces(t, n, sy, x, sy2)  BY <1>5, <1>6 DEF Introduces
<1>8. Named(t, n + 1, sy2)  BY <1>1, <1>7, NamedAdds DEF Generates
<1>9. Framed(t, Stack(st, n), fr, sy2)
  <2>1. sy \in Seq(SymbolType) /\ Framed(t, Stack(st, n), fr, sy)  BY DEF Generates, Named
  <2> QED BY <1>1, <1>3, <2>1, FramedAdds
<1> QED BY <1>1, <1>3, <1>8, <1>9 DEF Generates

\* All symbols there are were declared before the next node.
LEMMA AllKept ==
  ASSUME NEW t, NEW n \in Nat, NEW sy, Named(t, n, sy)
  PROVE  Kept(sy, Len(sy), n + 1)
<1>1. Len(sy) \in Nat /\ \A i \in 1..Len(sy) : sy[i].node \in 0..n  BY DEF Named
<1>2. \A i \in 1..Len(sy) : i <= Len(sy) /\ sy[i].node < n + 1  BY <1>1
<1> QED BY <1>1, <1>2 DEF Kept

LEMMA GenOpen ==
  ASSUME NEW t, NEW st, TreeOK(t, st), NEW n \in 0..Len(t) - 1, NEW fr, NEW sy, NEW f, NEW fr2,
         Generates(t, st, n, fr, sy), t[n + 1].kind \in Scoped \cup {"if"}, ~Declared(t, n + 1),
         Grows(fr2, fr, f), t[n + 1].kind \in Scopes => f.kept = Len(sy)
  PROVE  Generates(t, st, n + 1, fr2, sy)
<1>1. n \in Nat /\ n + 1 \in 0..Len(t)  BY DEF TreeOK
<1>2. Grows(Stack(st, n + 1), Stack(st, n), n + 1) /\ Stack(st, n) \in Seq(1..n)  BY StackNext
<1>3. Unchanging(t, n)
  <2>1. CASE t[n + 1].kind \in Scoped  BY <2>1, SeenByDeeper
  <2>2. CASE t[n + 1].kind = "if"
    <3>1. Path(t, n + 1) = Path(t, n)  BY <2>2, PathNext DEF Straightens, Straight
    <3> QED BY <3>1, SeenBySame
  <2> QED BY <2>1, <2>2
<1>4. Alike(sy, sy)  BY DEF Generates, Named, Alike
<1>5. Named(t, n + 1, sy)  BY <1>1, <1>3, <1>4, NamedKeeps DEF Generates
<1>6. t[n + 1].kind \in Scopes => Kept(sy, f.kept, n + 1)  BY <1>1, AllKept DEF Generates
<1>7. Framed(t, Stack(st, n + 1), fr2, sy)
  <2>1. Framed(t, Stack(st, n), fr, sy)  BY DEF Generates
  <2> QED BY <1>1, <1>2, <1>6, <2>1, FramedPush
<1> QED BY <1>1, <1>5, <1>7 DEF Generates

LEMMA GenFor ==
  ASSUME NEW t, NEW st, TreeOK(t, st), NEW n \in 0..Len(t) - 1, NEW fr, NEW sy, NEW f, NEW fr2,
         NEW x, NEW sy2, Generates(t, st, n, fr, sy), t[n + 1].kind = "for", Declared(t, n + 1),
         Grows(fr2, fr, f), f.kept = Len(sy),
         Grows(sy2, sy, x), x \in SymbolType, x.node = n + 1, x.name = t[n + 1].name
  PROVE  Generates(t, st, n + 1, fr2, sy2)
<1>1. n \in Nat /\ n + 1 \in 0..Len(t) /\ n + 1 \in 1..Len(t)  BY DEF TreeOK
<1>2. t[n + 1].kind \in Scoped  BY DEF Scoped, LoopKinds
<1>3. Grows(Stack(st, n + 1), Stack(st, n), n + 1) /\ Stack(st, n) \in Seq(1..n)
  BY <1>2, StackNext
<1>4. Seen(t, n + 1, n + 1)  BY <1>1, SeenItself
<1>5. \A d \in 1..n : Seen(t, d, n + 1) <=> Seen(t, d, n)  BY <1>2, SeenByDeeper
<1>6. Introduces(t, n, sy, x, sy2)  BY <1>4, <1>5 DEF Introduces
<1>7. Named(t, n + 1, sy2)  BY <1>1, <1>6, NamedAdds DEF Generates
<1>8. /\ Len(sy2) = Len(sy) + 1 /\ Len(sy) \in Nat
      /\ \A i \in 1..Len(sy) : sy2[i] = sy[i]
      /\ sy2[Len(sy) + 1] = x
  <2>1. sy \in Seq(SymbolType)  BY DEF Generates, Named
  <2> QED BY <2>1, GrowsTo
<1>9. Kept(sy2, f.kept, n + 1)
  <2>1. Kept(sy, Len(sy), n + 1)  BY <1>1, AllKept DEF Generates
  <2>2. PICK L \in Nat : L = Len(sy)  BY <1>8
  <2>3. \A i \in 1..L : i <= L <=> sy[i].node < n + 1  BY <2>1, <2>2 DEF Kept
  <2>4. ~(L + 1 <= L) /\ ~(sy2[L + 1].node < n + 1)  BY <1>1, <1>8, <2>2
  <2>5. \A i \in 1..L + 1 : i \in 1..L \/ i = L + 1  OBVIOUS
  <2>6. \A i \in 1..L + 1 : i <= L <=> sy2[i].node < n + 1  BY <1>8, <2>2, <2>3, <2>4, <2>5
  <2>7. L \in 0..L + 1  OBVIOUS
  <2> QED BY <1>8, <2>2, <2>6, <2>7 DEF Kept
<1>10. Framed(t, Stack(st, n), fr, sy2)
  <2>1. sy \in Seq(SymbolType) /\ Framed(t, Stack(st, n), fr, sy)  BY DEF Generates, Named
  <2> QED BY <1>1, <1>3, <2>1, FramedAdds
<1>11. Framed(t, Stack(st, n + 1), fr2, sy2)  BY <1>1, <1>3, <1>9, <1>10, FramedPush
<1> QED BY <1>1, <1>7, <1>11 DEF Generates

LEMMA GenElse ==
  ASSUME NEW t, NEW st, TreeOK(t, st), NEW n \in 0..Len(t) - 1, NEW fr, NEW sy, NEW f, NEW fr2,
         Generates(t, st, n, fr, sy), t[n + 1].kind = "else", Grows(fr2, Front(fr), f)
  PROVE  Generates(t, st, n + 1, fr2, sy)
<1>1. n \in Nat /\ n + 1 \in 0..Len(t)  BY DEF TreeOK
<1>2. /\ Stack(st, n) # <<>> /\ Grows(Stack(st, n + 1), Front(Stack(st, n)), n + 1)
      /\ Stack(st, n) \in Seq(1..n)
  BY StackNext
<1>3. Path(t, n + 1) = Path(t, n)  BY PathNext DEF Straightens, Straight
<1>4. ~Declared(t, n + 1)  BY DEF Declared, Declarations
<1>5. Alike(sy, sy)  BY DEF Generates, Named, Alike
<1>6. Named(t, n + 1, sy)  BY <1>1, <1>3, <1>4, <1>5, SeenBySame, NamedKeeps DEF Generates
<1>7. Framed(t, Front(Stack(st, n)), Front(fr), sy)  BY <1>1, <1>2, FramedPop DEF Generates
<1>8. Front(Stack(st, n)) \in Seq(1..n)  BY <1>1, <1>2, FrontOf
<1>9. t[n + 1].kind \notin Scopes  BY DEF Scopes
<1>10. Framed(t, Stack(st, n + 1), fr2, sy)  BY <1>1, <1>2, <1>7, <1>8, <1>9, FramedPush
<1> QED BY <1>1, <1>6, <1>10 DEF Generates

LEMMA GenEndIf ==
  ASSUME NEW t, NEW st, TreeOK(t, st), NEW n \in 0..Len(t) - 1, NEW fr, NEW sy,
         Generates(t, st, n, fr, sy), t[n + 1].kind = "endif"
  PROVE  Generates(t, st, n + 1, Front(fr), sy)
<1>1. n \in Nat /\ n + 1 \in 0..Len(t)  BY DEF TreeOK
<1>2. /\ Stack(st, n) # <<>> /\ Stack(st, n + 1) = Front(Stack(st, n))
      /\ Stack(st, n) \in Seq(1..n)
  BY StackNext DEF Ends
<1>3. Path(t, n + 1) = Path(t, n)  BY PathNext DEF Straightens, Straight
<1>4. ~Declared(t, n + 1)  BY DEF Declared, Declarations
<1>5. Alike(sy, sy)  BY DEF Generates, Named, Alike
<1>6. Named(t, n + 1, sy)  BY <1>1, <1>3, <1>4, <1>5, SeenBySame, NamedKeeps DEF Generates
<1>7. Framed(t, Stack(st, n + 1), Front(fr), sy)  BY <1>1, <1>2, FramedPop DEF Generates
<1> QED BY <1>1, <1>6, <1>7 DEF Generates

(* The end of a construct with a path of its own; m is the construct.        *)
LEMMA SeenByEnd ==
  ASSUME NEW t, NEW st, TreeOK(t, st), NEW n \in 0..Len(t) - 1,
         t[n + 1].kind \in Ends \ {"endif"}, NEW m, m = Last(Stack(st, n))
  PROVE  /\ n >= 1 /\ m \in 1..n /\ t[m].kind \in Closes(t[n + 1].kind)
         /\ Path(t, n) # <<>> /\ m = Last(Path(t, n))
         /\ \A d \in 1..n : Seen(t, d, n + 1) <=> Seen(t, d, n) /\ d < m
         /\ ~Seen(t, n + 1, n + 1)
<1>1. /\ Path(t, n) # <<>> /\ Path(t, n + 1) = Front(Path(t, n))
      /\ Stack(st, n) # <<>> /\ m = Last(Path(t, n))
      /\ t[m].kind \in Closes(t[n + 1].kind)
  BY PathNext DEF Ascends
<1>2. n \in Nat /\ Stack(st, n) \in Seq(1..n)  BY StackNext
<1>3. m \in 1..n
  <2> DEFINE S == 1..n
             s == Stack(st, n)
  <2>1. s \in Seq(S) /\ s # <<>> /\ m = Last(s)  BY <1>1, <1>2
  <2> HIDE DEF S, s
  <2>2. Last(s) \in S  BY <2>1, FrontOf
  <2> QED BY <2>1, <2>2 DEF S
<1>4. n >= 1 /\ n \in 1..Len(t) - 1  BY <1>2, <1>3
<1>5. ASSUME NEW d \in 1..n PROVE Seen(t, d, n + 1) <=> Seen(t, d, n) /\ d < m
  BY <1>1, <1>4, SeenHigher
<1>6. ~Seen(t, n + 1, n + 1)  BY DEF Seen, Declared, Declarations, Ends
<1> QED BY <1>1, <1>3, <1>4, <1>5, <1>6

LEMMA GenEnd ==
  ASSUME NEW t, NEW st, TreeOK(t, st), NEW n \in 0..Len(t) - 1, NEW fr, NEW sy, NEW sy2,
         Generates(t, st, n, fr, sy), t[n + 1].kind \in {"endblock", "endcase", "endfor"},
         sy2 = SubSeq(sy, 1, Last(fr).kept)
  PROVE  Generates(t, st, n + 1, Front(fr), sy2)
<1>1. n \in Nat /\ n + 1 \in 0..Len(t)  BY DEF TreeOK
<1>2. t[n + 1].kind \in Ends /\ t[n + 1].kind \in Ends \ {"endif"}  BY DEF Ends
<1>3. /\ Stack(st, n) # <<>> /\ Stack(st, n + 1) = Front(Stack(st, n))
      /\ Stack(st, n) \in Seq(1..n) /\ Rising(Stack(st, n))
  BY <1>2, StackNext
<1>4. PICK m : m = Last(Stack(st, n))  OBVIOUS
<1>5. /\ m \in 1..n /\ t[m].kind \in Closes(t[n + 1].kind)
      /\ \A d \in 1..n : Seen(t, d, n + 1) <=> Seen(t, d, n) /\ d < m
      /\ ~Seen(t, n + 1, n + 1)
  BY <1>2, <1>4, SeenByEnd
<1>6. t[m].kind \in Scopes  BY <1>5 DEF Closes, Scopes
<1>7. Kept(sy, Last(fr).kept, m) /\ Framed(t, Stack(st, n + 1), Front(fr), sy2)
  <2>1. sy \in Seq(SymbolType) /\ Framed(t, Stack(st, n), fr, sy)  BY DEF Generates, Named
  <2> QED BY <1>1, <1>3, <1>4, <1>6, <2>1, FramedCuts
<1>8. Forgets(t, n, sy, Last(fr).kept, m, sy2)  BY <1>5, <1>7 DEF Forgets
<1>9. Named(t, n + 1, sy2)  BY <1>1, <1>8, NamedCuts DEF Generates
<1> QED BY <1>1, <1>7, <1>9 DEF Generates

LEMMA GenEndLoop ==
  ASSUME NEW t, NEW st, TreeOK(t, st), Disciplined = 1, NEW n \in 0..Len(t) - 1, NEW fr, NEW sy,
         Generates(t, st, n, fr, sy), t[n + 1].kind \in {"endwhile", "enddo", "endswitch"}
  PROVE  Generates(t, st, n + 1, Front(fr), sy)
<1>1. n \in Nat /\ n + 1 \in 0..Len(t)  BY DEF TreeOK
<1>2. t[n + 1].kind \in Ends /\ t[n + 1].kind \in Ends \ {"endif"}  BY DEF Ends
<1>3. /\ Stack(st, n) # <<>> /\ Stack(st, n + 1) = Front(Stack(st, n))
      /\ Stack(st, n) \in Seq(1..n)
  BY <1>2, StackNext
<1>4. PICK m : m = Last(Stack(st, n))  OBVIOUS
<1>5. /\ n >= 1 /\ m \in 1..n /\ t[m].kind \in Closes(t[n + 1].kind)
      /\ Path(t, n) # <<>> /\ m = Last(Path(t, n))
      /\ \A d \in 1..n : Seen(t, d, n + 1) <=> Seen(t, d, n) /\ d < m
      /\ ~Seen(t, n + 1, n + 1)
  BY <1>2, <1>4, SeenByEnd
<1>6. t[m].kind \in {"while", "do", "switch"}  BY <1>5 DEF Closes
<1>7. n \in 1..Len(t)  BY <1>1, <1>5
<1>8. ASSUME NEW d \in 1..n, Seen(t, d, n) PROVE d < m
  BY <1>5, <1>6, <1>7, <1>8, NoneInside
<1>9. Unchanging(t, n)  BY <1>5, <1>8 DEF Unchanging
<1>10. Alike(sy, sy)  BY DEF Generates, Named, Alike
<1>11. Named(t, n + 1, sy)  BY <1>1, <1>9, <1>10, NamedKeeps DEF Generates
<1>12. Framed(t, Stack(st, n + 1), Front(fr), sy)  BY <1>1, <1>3, FramedPop DEF Generates
<1> QED BY <1>1, <1>11, <1>12 DEF Generates

-----------------------------------------------------------------------------
(* The invariant *)

GenOK(st) ==
  /\ TreeOK(ast, st) /\ at \in 1..Len(ast) + 1 /\ scope \in Int
  /\ Generates(ast, st, at - 1, frames, symbols)
Untouched ==
  /\ at = 1 /\ frames = <<>> /\ scope = 0
  /\ symbols = [i \in DOMAIN Parameters |->
       [name |-> Parameters[i], kind |-> "int", backed |-> 0, owns |-> 0,
        scope |-> 1, epoch |-> 0, source |-> 0, node |-> 0]]
Bound ==
  /\ ParseOK
  /\ phase = "parse" => Untouched
  /\ phase = "emit" => \E st : GenOK(st)

Passing(st, n, kinds) ==
  /\ TreeOK(ast, st) /\ n \in 0..Len(ast) - 1 /\ n \in Nat /\ at = n + 1 /\ scope \in Int
  /\ Generates(ast, st, n, frames, symbols)
  /\ ast[n + 1].kind \in kinds
  /\ ast' = ast /\ at' = at + 1

LEMMA Passes ==
  ASSUME NEW st, GenOK(st), NEW kinds, Emitting(kinds)
  PROVE  \E n : Passing(st, n, kinds)
<1>1. Len(ast) \in Nat /\ at \in Nat /\ at >= 1  BY DEF GenOK, TreeOK
<1>2. PICK n \in Nat : n = at - 1  BY <1>1
<1>3. at = n + 1 /\ at <= Len(ast) /\ n \in 0..Len(ast) - 1  BY <1>1, <1>2 DEF Emitting
<1>4. Generates(ast, st, n, frames, symbols)  BY <1>2 DEF GenOK
<1>5. ast[n + 1].kind \in kinds /\ ast' = ast /\ at' = at + 1
  BY <1>3 DEF Emitting, parseVars
<1> QED BY <1>2, <1>3, <1>4, <1>5 DEF Passing, GenOK

LEMMA Passed ==
  ASSUME NEW st, NEW n, NEW kinds, Passing(st, n, kinds), scope' \in Int,
         Generates(ast, st, n + 1, frames', symbols')
  PROVE  GenOK(st)'
<1>1. /\ TreeOK(ast, st) /\ n \in 0..Len(ast) - 1 /\ n \in Nat /\ at = n + 1
      /\ ast' = ast /\ at' = at + 1
  BY DEF Passing
<1>2. at' = n + 2 /\ at' - 1 = n + 1 /\ Len(ast) \in Nat  BY <1>1 DEF TreeOK
<1>3. at' \in 1..Len(ast) + 1  BY <1>1, <1>2
<1> QED BY <1>1, <1>2, <1>3 DEF GenOK

LEMMA PassLeaf ==
  ASSUME NEW st, GenOK(st), Emitting(Leaves \ Declarations),
         frames' = frames, scope' = scope, Alike(symbols, symbols')
  PROVE  GenOK(st)'
<1>1. PICK n : Passing(st, n, Leaves \ Declarations)  BY Passes
<1>2. Generates(ast, st, n + 1, frames, symbols')  BY <1>1, GenLeaf DEF Passing
<1>3. scope' \in Int  BY <1>1 DEF Passing
<1> QED BY <1>1, <1>2, <1>3, Passed

LEMMA PassSame ==
  ASSUME NEW st, GenOK(st), Emitting({"return", "goto", "break", "continue", "label"}),
         frames' = frames, scope' = scope, symbols' = symbols
  PROVE  GenOK(st)'
<1>1. Emitting(Leaves \ Declarations)  BY DEF Emitting, Leaves, Declarations
<1>2. Alike(symbols, symbols)  BY DEF GenOK, Generates, Named, Alike
<1> QED BY <1>1, <1>2, PassLeaf

LEMMA PassOpen ==
  ASSUME NEW st, GenOK(st), NEW f, Emitting({"block", "if", "while", "do", "switch"}),
         Grows(frames', frames, f), scope' \in Int, symbols' = symbols,
         ast[at].kind = "block" => f.kept = Len(symbols)
  PROVE  GenOK(st)'
<1> DEFINE K == {"block", "if", "while", "do", "switch"}
<1>1. PICK n : Passing(st, n, K)  BY Passes
<1>2. /\ ast[n + 1].kind \in Scoped \cup {"if"} /\ ~Declared(ast, n + 1)
      /\ ast[n + 1].kind \in Scopes => ast[n + 1].kind = "block"
  BY <1>1 DEF Passing, Scoped, LoopKinds, Declared, Declarations, Scopes
<1>3. ast[n + 1].kind \in Scopes => f.kept = Len(symbols)  BY <1>1, <1>2 DEF Passing
<1>4. Generates(ast, st, n + 1, frames', symbols)  BY <1>1, <1>2, <1>3, GenOpen DEF Passing
<1> QED BY <1>1, <1>4, Passed

LEMMA PassEnd ==
  ASSUME NEW st, GenOK(st), Emitting({"endblock", "endcase", "endfor"}), frames' = Front(frames),
         scope' = scope - 1, symbols' = SubSeq(symbols, 1, Top.kept)
  PROVE  GenOK(st)'
<1>1. PICK n : Passing(st, n, {"endblock", "endcase", "endfor"})  BY Passes
<1>2. Generates(ast, st, n + 1, Front(frames), symbols')  BY <1>1, GenEnd DEF Passing, Top
<1>3. scope' \in Int  BY <1>1 DEF Passing
<1> QED BY <1>1, <1>2, <1>3, Passed

LEMMA PassEndLoop ==
  ASSUME Disciplined = 1, NEW st, GenOK(st), Emitting({"endwhile", "enddo", "endswitch"}),
         frames' = Front(frames), scope' = scope, symbols' = symbols
  PROVE  GenOK(st)'
<1>1. PICK n : Passing(st, n, {"endwhile", "enddo", "endswitch"})  BY Passes
<1>2. Generates(ast, st, n + 1, Front(frames), symbols)  BY <1>1, GenEndLoop DEF Passing
<1>3. scope' \in Int  BY <1>1 DEF Passing
<1> QED BY <1>1, <1>2, <1>3, Passed

LEMMA PassElse ==
  ASSUME NEW st, GenOK(st), EmitElse
  PROVE  GenOK(st)'
<1>1. Emitting({"else"}) /\ UNCHANGED <<symbols, scope>>  BY DEF EmitElse
<1>2. PICK n : Passing(st, n, {"else"})  BY <1>1, Passes
<1>3. PICK f : Grows(frames', Front(frames), f)  BY DEF EmitElse, Grows
<1>4. Generates(ast, st, n + 1, frames', symbols)  BY <1>2, <1>3, GenElse DEF Passing
<1>5. scope' \in Int  BY <1>1, <1>2 DEF Passing
<1> QED BY <1>1, <1>2, <1>4, <1>5, Passed

LEMMA PassEndIf ==
  ASSUME NEW st, GenOK(st), EmitIfEnd
  PROVE  GenOK(st)'
<1>1. Emitting({"endif"}) /\ frames' = Front(frames) /\ UNCHANGED <<symbols, scope>>
  BY DEF EmitIfEnd, Pop
<1>2. PICK n : Passing(st, n, {"endif"})  BY <1>1, Passes
<1>3. Generates(ast, st, n + 1, frames', symbols)  BY <1>1, <1>2, GenEndIf DEF Passing
<1>4. scope' \in Int  BY <1>1, <1>2 DEF Passing
<1> QED BY <1>1, <1>2, <1>3, <1>4, Passed

(* What a declaration puts into the table.                                   *)
LEMMA SymbolOf ==
  ASSUME NEW x \in Variable, NEW kind \in Declarations, NEW depth \in Int,
         NEW epoch \in Nat, NEW source \in Nat, at \in Nat, NEW y, y = Symbol(x, kind, depth, epoch, source)
  PROVE  y \in SymbolType /\ y.node = at /\ y.name = x
BY DEF Symbol, SymbolType

LEMMA NodeSuits ==
  ASSUME NEW st, NEW n, NEW kinds, Passing(st, n, kinds)
  PROVE  Suits(ast, Stack(st, n), ast[at]) /\ ast[at] \in NodeType /\ at = n + 1
<1>1. /\ TreeOK(ast, st) /\ n \in 0..Len(ast) - 1 /\ n \in Nat /\ at = n + 1
  BY DEF Passing
<1>2. at \in 1..Len(ast) /\ at - 1 = n  BY <1>1 DEF TreeOK
<1>3. Suits(ast, Stack(st, n), ast[at])  BY <1>1, <1>2 DEF TreeOK, NodeOK
<1>4. ast[at] \in NodeType
  <2>1. ast \in Seq(NodeType)  BY <1>1 DEF TreeOK
  <2> QED BY <1>2, <2>1
<1> QED BY <1>1, <1>3, <1>4

LEMMA PassDeclaration ==
  ASSUME NEW st, GenOK(st), EmitDeclaration
  PROVE  GenOK(st)'
<1>1. Emitting(Declarations) /\ UNCHANGED <<frames, scope>>  BY DEF EmitDeclaration
<1>2. PICK n : Passing(st, n, Declarations)  BY <1>1, Passes
<1>3. PICK e : e = ast[at]  OBVIOUS
<1>4. PICK y : y = Symbol(e.name, e.kind, scope, e.epoch, e.depth)  OBVIOUS
<1>5. Grows(symbols', symbols, y)  BY <1>3, <1>4 DEF EmitDeclaration, Grows
<1>6. Suits(ast, Stack(st, n), e) /\ e \in NodeType /\ at = n + 1  BY <1>2, <1>3, NodeSuits
<1>7. e.kind \in Declarations  BY <1>3 DEF EmitDeclaration, Emitting
<1>8. e.name \in Variable /\ e.epoch \in Nat /\ e.depth \in Nat
  BY <1>6, <1>7 DEF Suits, Variable, NodeType
<1>9. scope \in Int /\ at \in Nat  BY <1>2 DEF Passing
<1>10. y \in SymbolType /\ y.node = n + 1 /\ y.name = ast[n + 1].name
  <2>2. y \in SymbolType /\ y.node = at /\ y.name = e.name  BY <1>4, <1>7, <1>8, <1>9, SymbolOf
  <2> QED BY <1>3, <1>6, <2>2
<1>11. Generates(ast, st, n + 1, frames, symbols')
  BY <1>2, <1>5, <1>10, GenDeclare DEF Passing
<1> QED BY <1>1, <1>2, <1>9, <1>11, Passed

LEMMA PassFor ==
  ASSUME NEW st, GenOK(st), EmitFor
  PROVE  GenOK(st)'
<1>1. Emitting({"for"}) /\ scope' = scope + 1  BY DEF EmitFor
<1>2. PICK n : Passing(st, n, {"for"})  BY <1>1, Passes
<1>3. PICK e : e = ast[at]  OBVIOUS
<1>4. Suits(ast, Stack(st, n), e) /\ e \in NodeType /\ at = n + 1  BY <1>2, <1>3, NodeSuits
<1>5. e.kind = "for" /\ ast[n + 1] = e  BY <1>2, <1>3, <1>4 DEF Passing
<1>6. PICK f : Grows(frames', frames, f) /\ f.kept = Len(symbols)
  <2>1. PICK f : frames' = Append(frames, f) /\ \E a, b : f = Frame(Len(symbols), a, b, {})
    BY DEF EmitFor, Push
  <2>2. f.kept = Len(symbols)  BY <2>1 DEF Frame
  <2> QED BY <2>1, <2>2 DEF Grows
<1>7. scope \in Int /\ scope + 1 \in Int /\ at \in Nat  BY <1>2 DEF Passing
<1>8. CASE e.how = "none"
  <2>1. symbols' = symbols  BY <1>3, <1>8 DEF EmitFor
  <2>2. ~Declared(ast, n + 1) /\ ast[n + 1].kind \in Scoped \cup {"if"}
    BY <1>5, <1>8 DEF Declared, Declarations, Scoped, LoopKinds
  <2>3. Generates(ast, st, n + 1, frames', symbols)  BY <1>2, <1>6, <2>2, GenOpen DEF Passing
  <2> QED BY <1>1, <1>2, <1>7, <2>1, <2>3, Passed
<1>9. CASE e.how # "none"
  <2>0. PICK depth \in Int : depth = scope + 1  BY <1>7
  <2>1. PICK y, k : k = e.how /\ y = Symbol(e.name, k, depth, e.epoch, e.depth)  OBVIOUS
  <2>2. Grows(symbols', symbols, y)  BY <1>3, <1>9, <2>0, <2>1 DEF EmitFor, Grows
  <2>3. /\ e.name \in Variable /\ k \in Declarations
        /\ e.epoch \in Nat /\ e.depth \in Nat
    BY <1>4, <1>5, <1>9, <2>1 DEF Suits, Variable, NodeType, Declarations
  <2>4. y \in SymbolType /\ y.node = n + 1 /\ y.name = ast[n + 1].name
    <3>1. PICK a, b, c : a = e.name /\ b = e.epoch /\ c = e.depth  OBVIOUS
    <3>2. y = Symbol(a, k, depth, b, c)  BY <2>1, <3>1
    <3>3. a \in Variable /\ k \in Declarations /\ b \in Nat /\ c \in Nat  BY <2>3, <3>1
    <3>4. y \in SymbolType /\ y.node = at /\ y.name = a  BY <1>7, <3>2, <3>3, SymbolOf
    <3> QED BY <1>4, <1>5, <3>1, <3>4
  <2>5. Declared(ast, n + 1)  BY <1>5, <1>9 DEF Declared
  <2>6. Generates(ast, st, n + 1, frames', symbols')
    BY <1>2, <1>5, <1>6, <2>2, <2>4, <2>5, GenFor DEF Passing
  <2> QED BY <1>1, <1>2, <1>7, <2>6, Passed
<1> QED BY <1>8, <1>9

LEMMA SymbolEdited ==
  ASSUME NEW y \in SymbolType
  PROVE  [y EXCEPT !.backed = 1] \in SymbolType /\ [y EXCEPT !.owns = 1] \in SymbolType
BY DEF SymbolType

\* A promotion changes neither the names of the symbols nor their nodes.
LEMMA TouchAlike ==
  ASSUME symbols \in Seq(SymbolType), NEW kind, NEW i
  PROVE  Alike(symbols, AfterTouch(kind, i))
<1>1. Alike(symbols, symbols)  BY DEF Alike
<1>2. Alike(symbols, [symbols EXCEPT ![i].backed = 1, ![i].owns = 1])
  <2> DEFINE z == [symbols EXCEPT ![i].backed = 1, ![i].owns = 1]
             L == Len(symbols)
  <2>1. L \in Nat /\ DOMAIN symbols = 1..L /\ DOMAIN z = 1..L  OBVIOUS
  <2>2. ASSUME NEW j \in 1..L
        PROVE  z[j] \in SymbolType /\ z[j].node = symbols[j].node /\ z[j].name = symbols[j].name
    <3>1. symbols[j] \in SymbolType  BY <2>1
    <3>2. CASE j # i
      <4>1. z[j] = symbols[j]  BY <2>1, <3>2
      <4> QED BY <3>1, <4>1
    <3>3. CASE j = i
      <4>1. z[j] = [symbols[j] EXCEPT !.backed = 1, !.owns = 1]  BY <2>1, <3>3
      <4>2. z[j] \in SymbolType
        <5>1. PICK y \in SymbolType : y = symbols[j]  BY <3>1
        <5>2. z[j] = [y EXCEPT !.backed = 1, !.owns = 1]  BY <4>1, <5>1
        <5>3. PICK u : u = [y EXCEPT !.backed = 1]  OBVIOUS
        <5>4. u \in SymbolType  BY <5>3, SymbolEdited
        <5>5. [u EXCEPT !.owns = 1] \in SymbolType  BY <5>4, SymbolEdited
        <5>6. z[j] = [u EXCEPT !.owns = 1]  BY <5>2, <5>3
        <5> QED BY <5>5, <5>6
      <4>3. z[j].node = symbols[j].node /\ z[j].name = symbols[j].name
        BY <3>1, <4>1 DEF SymbolType
      <4> QED BY <4>2, <4>3
    <3> QED BY <3>2, <3>3
  <2>3. z \in Seq(SymbolType) /\ Len(z) = L
    <3>1. z = [j \in 1..L |-> z[j]]  BY <2>1
    <3>2. PICK T : T = SymbolType  OBVIOUS
    <3>3. \A j \in 1..L : z[j] \in T  BY <2>2, <3>2
    <3> HIDE DEF z, L
    <3>4. z \in [1..L -> T]  BY <3>1, <3>3
    <3>5. z \in Seq(T) /\ Len(z) = L  BY <2>1, <3>4
    <3> QED BY <3>2, <3>5
  <2> HIDE DEF z
  <2>4. Alike(symbols, z)  BY <2>2, <2>3 DEF Alike
  <2> QED BY <2>4 DEF z
<1> QED BY <1>1, <1>2 DEF AfterTouch

LEMMA PassExpression ==
  ASSUME NEW st, GenOK(st), EmitExpression
  PROVE  GenOK(st)'
<1>1. PICK kind, i : symbols' = AfterTouch(kind, i)  BY DEF EmitExpression
<1>2. symbols \in Seq(SymbolType)  BY DEF GenOK, Generates, Named
<1>3. Alike(symbols, symbols')  BY <1>1, <1>2, TouchAlike
<1>4. Emitting(Leaves \ Declarations) /\ frames' = frames /\ scope' = scope
  BY DEF EmitExpression, Emitting, Leaves, Declarations
<1> QED BY <1>3, <1>4, PassLeaf

LEMMA PassCase ==
  ASSUME NEW st, GenOK(st), EmitCase
  PROVE  GenOK(st)'
<1>1. Emitting({"case", "default"}) /\ scope' = scope + 1 /\ symbols' = symbols
  BY DEF EmitCase
<1>2. PICK n : Passing(st, n, {"case", "default"})  BY <1>1, Passes
<1>3. Suits(ast, Stack(st, n), ast[at]) /\ at = n + 1  BY <1>2, NodeSuits
<1>4. TopIn(ast, Stack(st, n), {"switch"})  BY <1>2, <1>3 DEF Suits, Passing
<1>5. PICK g : /\ g = frames \/ g = [frames EXCEPT ![Len(frames)].patch = 0]
               /\ \E f : Grows(frames', g, f) /\ f = Frame(Len(symbols), 0, 0, {})
  BY DEF EmitCase, Grows
<1>6. PICK f : Grows(frames', g, f) /\ f = Frame(Len(symbols), 0, 0, {})  BY <1>5
<1>7. f.kept = Len(symbols)  BY <1>6 DEF Frame
<1>8. Framed(ast, Stack(st, n), frames, symbols) /\ List(frames)
  BY <1>2 DEF Passing, Generates, Framed
<1>9. Framed(ast, Stack(st, n), g, symbols)
  <2>1. CASE g = frames  BY <1>8, <2>1
  <2>2. CASE g = [frames EXCEPT ![Len(frames)].patch = 0]
    <3> DEFINE L == Len(frames)
               S == ToSet(frames)
               z == [frames[L] EXCEPT !.patch = 0]
    <3>1. L \in Nat /\ DOMAIN frames = 1..L /\ frames \in Seq(S)  BY <1>8 DEF List
    <3>2. g = [frames EXCEPT ![L] = z]  BY <2>2
    <3> HIDE DEF S, z, L
    <3>3. DOMAIN g = 1..L /\ \A j \in 1..L : g[j] = IF j = L THEN z ELSE frames[j]
      BY <3>1, <3>2
    <3>4. g = [j \in 1..L |-> g[j]]  BY <3>2, <3>3
    <3>5. \A j \in 1..L : g[j] \in ToSet(g)  BY <3>3 DEF ToSet
    <3>6. g \in [1..L -> ToSet(g)]  BY <3>4, <3>5
    <3>7. List(g) /\ Len(g) = L  BY <3>1, <3>6 DEF List
    <3>8. \A j \in 1..L - 1 : g[j] = frames[j]  BY <3>1, <3>3
    <3>9. Stack(st, n) # <<>> /\ ast[Last(Stack(st, n))].kind \notin Scopes
      BY <1>4 DEF TopIn, Scopes
    <3>10. n \in Nat /\ Stack(st, n) \in Seq(1..n)
      BY <1>2, StackNext DEF Passing
    <3> QED BY <1>8, <3>7, <3>8, <3>9, <3>10, FramedMark DEF L
  <2> QED BY <1>5, <2>1, <2>2
<1>10. Generates(ast, st, n, g, symbols)  BY <1>2, <1>9 DEF Passing, Generates
<1>11. ~Declared(ast, n + 1) /\ ast[n + 1].kind \in Scoped \cup {"if"}
  BY <1>2 DEF Passing, Declared, Declarations, Scoped
<1>12. Generates(ast, st, n + 1, frames', symbols)
  BY <1>2, <1>6, <1>7, <1>10, <1>11, GenOpen DEF Passing
<1>13. scope' \in Int  BY <1>1, <1>2 DEF Passing
<1> QED BY <1>1, <1>2, <1>12, <1>13, Passed

LEMMA EmitKeeps ==
  ASSUME Disciplined = 1, NEW st, GenOK(st), Emit, phase = "emit"
  PROVE  phase' = "emit" => GenOK(st)'
<1>1. ASSUME RefuseDeclaration \/ RefuseExpression \/ RefuseLoop \/ RefuseSwitch \/ RefuseJump
               \/ RefuseGoto \/ EmitFunctionEnd \/ CollectLabels
      PROVE  phase' # "emit"
  BY <1>1 DEF RefuseDeclaration, RefuseExpression, RefuseLoop, RefuseSwitch, RefuseJump, RefuseGoto,
              Refusing, Refuse, EmitFunctionEnd, CollectLabels
<1>2. scope \in Int /\ scope + 1 \in Int  BY DEF GenOK
<1>3. ASSUME EmitBlock PROVE GenOK(st)'
  <2>1. PICK f : f = Frame(Len(symbols), 0, 0, {}) /\ Grows(frames', frames, f)
    BY <1>3 DEF EmitBlock, Push, Grows
  <2>2. f.kept = Len(symbols)  BY <2>1 DEF Frame
  <2>3. /\ Emitting({"block", "if", "while", "do", "switch"})
        /\ scope' = scope + 1 /\ symbols' = symbols
    BY <1>3 DEF EmitBlock, Emitting
  <2> QED BY <1>2, <2>1, <2>2, <2>3, PassOpen
<1>4. ASSUME EmitIf \/ EmitWhile \/ EmitDo \/ EmitSwitch PROVE GenOK(st)'
  <2>1. PICK f : Grows(frames', frames, f)
    BY <1>4 DEF EmitIf, EmitWhile, EmitDo, EmitSwitch, Push, Grows
  <2>2. /\ Emitting({"block", "if", "while", "do", "switch"}) /\ ast[at].kind # "block"
        /\ scope' = scope /\ symbols' = symbols
    BY <1>4 DEF EmitIf, EmitWhile, EmitDo, EmitSwitch, Emitting
  <2> QED BY <1>2, <2>1, <2>2, PassOpen
<1>5. ASSUME EmitBlockEnd \/ EmitForEnd PROVE GenOK(st)'
  <2>1. /\ Emitting({"endblock", "endcase", "endfor"}) /\ frames' = Front(frames)
        /\ scope' = scope - 1 /\ symbols' = SubSeq(symbols, 1, Top.kept)
    BY <1>5 DEF EmitBlockEnd, EmitForEnd, Emitting, Pop
  <2> QED BY <2>1, PassEnd
<1>6. ASSUME EmitWhileEnd \/ EmitDoEnd \/ EmitSwitchEnd PROVE GenOK(st)'
  <2>1. /\ Emitting({"endwhile", "enddo", "endswitch"}) /\ frames' = Front(frames)
        /\ scope' = scope /\ symbols' = symbols
    BY <1>6 DEF EmitWhileEnd, EmitDoEnd, EmitSwitchEnd, Emitting, Pop
  <2> QED BY <2>1, PassEndLoop
<1>7. ASSUME EmitBreak \/ EmitContinue \/ EmitLabel \/ EmitGoto \/ EmitReturn PROVE GenOK(st)'
  <2>1. /\ Emitting({"return", "goto", "break", "continue", "label"})
        /\ frames' = frames /\ scope' = scope /\ symbols' = symbols
    BY <1>7 DEF EmitBreak, EmitContinue, EmitLabel, EmitGoto, EmitReturn, Emitting
  <2> QED BY <2>1, PassSame
<1> QED
  BY <1>1, <1>3, <1>4, <1>5, <1>6, <1>7, PassDeclaration, PassFor, PassExpression, PassCase,
     PassElse, PassEndIf
  DEF Emit

(* A parsed program is an unvisited tree.                                    *)
LEMMA GeneratorStarts ==
  ASSUME ParseOK, Untouched
  PROVE  \E st : GenOK(st)
<1>1. PICK st, q : Parses(ast, st, q, expect, within, parser.depth, parser.loops)  BY DEF ParseOK
<1>2. TreeOK(ast, st) /\ Len(ast) \in Nat /\ Len(ast) >= 1  BY <1>1 DEF Parses, TreeOK
<1>3. at = 1 /\ at - 1 = 0 /\ frames = <<>> /\ scope = 0  BY DEF Untouched
<1> DEFINE L == Len(Parameters)
           Entry(x) == [name |-> x, kind |-> "int", backed |-> 0, owns |-> 0,
                       scope |-> 1, epoch |-> 0, source |-> 0, node |-> 0]
<1>4. L \in Nat /\ DOMAIN Parameters = 1..L /\ \A i \in 1..L : Parameters[i] \in Variable
  <2>1. Parameters \in Seq(ToSet(Parameters))  BY CapacityAssumption
  <2> QED BY <2>1 DEF Variable
<1>5. DOMAIN symbols = 1..L /\ \A i \in 1..L : symbols[i] = Entry(Parameters[i])
  BY <1>4 DEF Untouched
<1>6. ASSUME NEW x \in Variable
      PROVE  Entry(x) \in SymbolType /\ Entry(x).node = 0 /\ Entry(x).name = x
  BY DEF SymbolType, Declarations
<1> HIDE DEF Entry, L
<1>7. symbols \in Seq(SymbolType) /\ Len(symbols) = L
  <2>1. symbols = [i \in 1..L |-> symbols[i]]  BY <1>4 DEF Untouched
  <2>2. PICK T : T = SymbolType  OBVIOUS
  <2>3. \A i \in 1..L : symbols[i] \in T  BY <1>4, <1>5, <1>6, <2>2
  <2>4. symbols \in [1..L -> T]  BY <2>1, <2>3
  <2>5. symbols \in Seq(T) /\ Len(symbols) = L  BY <1>4, <2>4
  <2> QED BY <2>2, <2>5
<1>8. Named(ast, 0, symbols)
  <2>1. \A i \in 1..L : symbols[i].node = 0 /\ symbols[i].name = Parameters[i]
    BY <1>4, <1>5, <1>6
  <2>2. L \in 0..L /\ L + 1 .. L = {} /\ 1..0 = {}  BY <1>4
  <2> QED BY <1>7, <2>1, <2>2 DEF Named, L
<1>9. Framed(ast, Stack(st, 0), frames, symbols)
  <2>1. Stack(st, 0) = <<>> /\ Len(<<>>) = 0 /\ 1..0 = {}  BY DEF Stack
  <2>2. List(frames)  BY <1>3 DEF List
  <2> QED BY <1>3, <2>1, <2>2 DEF Framed
<1>10. Generates(ast, st, at - 1, frames, symbols)
  <2>1. 0 \in 0..Len(ast)  BY <1>2
  <2> QED BY <1>3, <1>8, <1>9, <2>1 DEF Generates
<1>11. at \in 1..Len(ast) + 1 /\ scope \in Int  BY <1>2, <1>3
<1> QED BY <1>2, <1>10, <1>11 DEF GenOK

LEMMA BoundStarts ==
  ASSUME Init
  PROVE  Bound
<1>1. ParseOK  BY ParserStarts
<1>2. Untouched /\ phase = "parse"  BY DEF Init, Untouched
<1> QED BY <1>1, <1>2 DEF Bound

LEMMA BoundKeeps ==
  ASSUME Disciplined = 1, Bound, [Next]_vars
  PROVE  Bound'
<1>1. CASE UNCHANGED vars
  <2>1. UNCHANGED <<phase, parseVars, at, frames, symbols, scope>>
    BY <1>1 DEF vars, parseVars, emitVars
  <2> QED BY <2>1 DEF Bound, ParseOK, parseVars, Untouched, GenOK
<1>2. CASE Next
  <2>1. ParseOK'  BY <1>2, ParserKeeps DEF Bound
  <2>2. CASE Parse
    <3>1. phase = "parse" /\ phase' \in {"parse", "rejected"}
          /\ UNCHANGED <<at, frames, symbols, scope>>
      BY <2>2 DEF Parse, ParseDeclaration, ParseStatic, Declare, ParseFor, ParseExpression,
        ParseForDeclaration, ParseBlock, ParseIf, ParseSwitch, ParseReturn, ParseJump, ParseLabel,
        ParseGoto, ParseCase, ParseLoop, ParseLoopEnd, ParseBlockEnd, ParseSwitchEnd, ParseElse,
        ParseIfEnd, MayRead, Expected, ReadLeaf, ReadOpen, ReadEnd, Reject, emitVars
    <3> QED BY <2>1, <3>1 DEF Bound, Untouched
  <2>3. CASE CollectLabels
    <3>1. /\ phase = "parse" /\ phase' \in {"emit", "rejected"}
          /\ UNCHANGED <<ast, at, frames, symbols, scope>>
      BY <2>3 DEF CollectLabels, parseVars, emitVars
    <3>2. PICK st : GenOK(st)  BY <3>1, GeneratorStarts DEF Bound
    <3>3. GenOK(st)'  BY <3>1, <3>2 DEF GenOK
    <3> QED BY <2>1, <3>1, <3>3 DEF Bound
  <2>4. CASE Emit /\ ~CollectLabels
    <3>1. phase = "emit"
      BY <2>4 DEF Emit, EmitBlock, EmitBlockEnd, EmitDeclaration, RefuseDeclaration,
        EmitExpression, RefuseExpression, EmitIf, EmitElse, EmitIfEnd, EmitWhile, EmitWhileEnd,
        EmitDo, EmitDoEnd, EmitFor, EmitForEnd, RefuseLoop, EmitSwitch, RefuseSwitch, EmitCase,
        EmitSwitchEnd, EmitBreak, EmitContinue, RefuseJump, EmitLabel, EmitGoto, RefuseGoto,
        EmitReturn, EmitFunctionEnd, Emitting, Refusing
    <3>2. phase' # "parse"
      BY <2>4, <3>1 DEF Emit, EmitBlock, EmitBlockEnd, EmitDeclaration, RefuseDeclaration,
        EmitExpression, RefuseExpression, EmitIf, EmitElse, EmitIfEnd, EmitWhile, EmitWhileEnd,
        EmitDo, EmitDoEnd, EmitFor, EmitForEnd, RefuseLoop, EmitSwitch, RefuseSwitch, EmitCase,
        EmitSwitchEnd, EmitBreak, EmitContinue, RefuseJump, EmitLabel, EmitGoto, RefuseGoto,
        EmitReturn, EmitFunctionEnd, Emitting, Refusing, Refuse
    <3>3. PICK st : GenOK(st)  BY <3>1 DEF Bound
    <3>4. phase' = "emit" => GenOK(st)'  BY <2>4, <3>1, <3>3, EmitKeeps
    <3> QED BY <2>1, <3>2, <3>4 DEF Bound
  <2>5. CASE Run
    <3>1. phase = "run" /\ phase' \in {"run", "faulted", "returned"}
      BY <2>5 DEF Run, RunAlloc, RunSet, RunPromote, RunFree, RunTake, RunUpdate, RunSave, RunRestore,
        RunJump, RunReturn, Running, Advance, Fault
    <3> QED BY <2>1, <3>1 DEF Bound
  <2>6. CASE Done  BY <1>1, <2>6 DEF Done
  <2> QED BY <1>2, <2>2, <2>3, <2>4, <2>5, <2>6 DEF Next
<1> QED BY <1>1, <1>2

-----------------------------------------------------------------------------
(* The newest symbol of a name is the declaration that can be seen           *)

LEMMA Greatest ==
  ASSUME NEW n \in Nat, NEW T \in SUBSET (1..n), T # {}
  PROVE  \E x \in T : \A y \in T : y <= x
<1> DEFINE U == {n - x : x \in T}
<1>1. U \in SUBSET Nat /\ U # {}
  <2>1. \A x \in T : n - x \in Nat  OBVIOUS
  <2>2. PICK x \in T : TRUE  OBVIOUS
  <2>3. n - x \in U  OBVIOUS
  <2> QED BY <2>1, <2>3
<1> HIDE DEF U
<1>2. \E u \in U : \A v \in U : ~(<<v, u>> \in OpToRel(<, Nat))
  BY <1>1, WFMin, NatLessThanWellFounded, Zenon
<1>3. PICK u \in U : \A v \in U : ~(<<v, u>> \in OpToRel(<, Nat))  BY <1>2
<1>4. \A v \in U : ~(v < u)  BY <1>1, <1>3, Zenon DEF OpToRel
<1>5. PICK x \in T : u = n - x  BY <1>3 DEF U
<1>6. ASSUME NEW y \in T PROVE y <= x
  <2>1. n - y \in U  BY DEF U
  <2>2. ~(n - y < n - x)  BY <1>4, <1>5, <2>1
  <2> QED BY <2>2
<1> QED BY <1>6

Newest(S) == IF S = {} THEN 0 ELSE CHOOSE d \in S : \A e \in S : e <= d

LEMMA ScopePath ==
  ASSUME NEW d, d # 0, Declared(ast, d)
  PROVE  ScopeOf(d) = Path(ast, d)
BY DEF ScopeOf, Path, Declared, Declarations, Scoped, LoopKinds

LEMMA VisibleIsSeen ==
  ASSUME NEW st, GenOK(st), NEW n \in Nat, NEW x \in Variable, NEW d \in 1..n, n <= Len(ast)
  PROVE  Declares(d, x) /\ IsPrefixOf(ScopeOf(d), Path(ast, n)) <=>
           Seen(ast, d, n) /\ ast[d].name = x
<1>1. d \in 1..Len(ast) /\ d # 0 /\ d - 1 \in 0..Len(ast) /\ TreeOK(ast, st)
  BY DEF GenOK, TreeOK
<1>2. x # ""
  <2>1. "" \notin Names \cup ToSet(Parameters)  BY CapacityAssumption
  <2> QED BY <2>1 DEF Variable
<1>3. Suits(ast, Stack(st, d - 1), ast[d])  BY <1>1 DEF TreeOK, NodeOK
<1>4. Declares(d, x) <=> Declared(ast, d) /\ ast[d].name = x
  BY <1>2, <1>3 DEF Declares, Declared, Suits
<1> QED BY <1>1, <1>4, ScopePath DEF Seen

LEMMA Binding ==
  ASSUME NEW st, GenOK(st), phase = "emit"
  PROVE  BindsInnermost
<1> SUFFICES ASSUME at <= Len(ast), ast[at].kind \in {"update", "address"}
             PROVE  (IF FindSymbol(ast[at].name) = 0 THEN 0
                     ELSE symbols[FindSymbol(ast[at].name)].node)
                      = VisibleAt(at - 1, ast[at].within, ast[at].name)
  BY DEF BindsInnermost
<1>1. PICK x, n : x = ast[at].name /\ n = at - 1  OBVIOUS
<1>2. TreeOK(ast, st) /\ at \in 1..Len(ast) /\ n \in Nat /\ n <= Len(ast)
  BY <1>1 DEF GenOK, TreeOK
<1>3. Joins(ast, Stack(st, n), Path(ast, n), ast[at], at, st[at]) /\ Suits(ast, Stack(st, n), ast[at])
  BY <1>1, <1>2 DEF TreeOK, NodeOK
<1>4. x \in Variable  BY <1>1, <1>3 DEF Suits
<1>5. ast[at].within = Path(ast, n)
  <2>1. ast[at].kind \notin Ends \ {"endif"}  BY DEF Ends
  <2> QED BY <1>3, <2>1 DEF Joins
<1>6. Named(ast, n, symbols)  BY <1>1 DEF GenOK, Generates
<1> DEFINE k == Len(Parameters)
           L == Len(symbols)
           seen == {d \in 1..n : Seen(ast, d, n) /\ ast[d].name = x}
           found == {i \in 1..L : symbols[i].name = x}
<1>0. L \in Nat /\ k \in Nat /\ k <= L /\ DOMAIN symbols = 1..L
  <2>1. symbols \in Seq(SymbolType) /\ k \in 0..L  BY <1>6 DEF Named
  <2> QED BY <2>1
<1>7. /\ \A i \in 1..L : symbols[i].node \in 0..n
      /\ \A i \in 1..k : symbols[i].node = 0
      /\ \A i \in k + 1 .. L : /\ symbols[i].node \in 1..n /\ Seen(ast, symbols[i].node, n)
                               /\ symbols[i].name = ast[symbols[i].node].name
      /\ \A i, j \in k + 1 .. L : i < j => symbols[i].node < symbols[j].node
      /\ \A d \in 1..n : Seen(ast, d, n) => \E i \in k + 1 .. L : symbols[i].node = d
  BY <1>6 DEF Named
<1>8. seen = {d \in 1..n : Declares(d, x) /\ IsPrefixOf(ScopeOf(d), Path(ast, n))}
  BY <1>2, <1>4, VisibleIsSeen
<1>10. FindSymbol(x) = IF found = {} THEN 0 ELSE CHOOSE i \in found : \A j \in found : j <= i
  BY <1>0, <1>7 DEF FindSymbol
<1>11. seen \in SUBSET (1..n) /\ found \in SUBSET (1..L)  OBVIOUS
<1>12. /\ \A i \in found : i \in 1..L /\ symbols[i].name = x
       /\ \A d \in seen : d \in 1..n /\ Seen(ast, d, n) /\ ast[d].name = x
       /\ \A i \in 1..L : symbols[i].name = x => i \in found
       /\ \A d \in 1..n : Seen(ast, d, n) /\ ast[d].name = x => d \in seen
  OBVIOUS
<1> HIDE DEF k, L, seen, found
<1>9. VisibleAt(n, Path(ast, n), x) =
        IF seen = {} THEN 0 ELSE CHOOSE d \in seen : \A e \in seen : e <= d
  <2>1. VisibleAt(n, Path(ast, n), x) =
          Newest({d \in 1..n : Declares(d, x) /\ IsPrefixOf(ScopeOf(d), Path(ast, n))})
    BY DEF VisibleAt, Newest
  <2>2. VisibleAt(n, Path(ast, n), x) = Newest(seen)  BY <1>8, <2>1
  <2> QED BY <2>2 DEF Newest
<1>13. /\ \A i \in 1..L : i \in 1..k \/ i \in k + 1 .. L
       /\ \A i \in k + 1 .. L : i \in 1..L
  BY <1>0, <1>7
<1>14. \A i \in found : i \in k + 1 .. L => symbols[i].node \in seen  BY <1>0, <1>7, <1>12
<1>15. \A d \in seen : \E i \in k + 1 .. L : symbols[i].node = d /\ i \in found
  BY <1>0, <1>7, <1>12, <1>13
<1>16. CASE found = {}
  <2>1. seen = {}  BY <1>15, <1>16
  <2> QED BY <1>1, <1>5, <1>9, <1>10, <1>16, <2>1
<1>17. CASE found # {}
  <2>1. PICK i \in found : i = FindSymbol(x) /\ \A j \in found : j <= i
    <3>1. \E i \in found : \A j \in found : j <= i  BY <1>0, <1>7, <1>11, <1>17, Greatest
    <3> QED BY <1>10, <1>17, <3>1
  <2>2. i \in 1..L /\ i # 0  BY <1>0, <1>7, <1>12
  <2>3. CASE seen = {}
    <3>1. i \in 1..k  BY <1>13, <1>14, <2>2, <2>3
    <3>2. symbols[i].node = 0  BY <1>0, <1>7, <3>1
    <3> QED BY <1>1, <1>5, <1>9, <2>1, <2>2, <2>3, <3>2
  <2>4. CASE seen # {}
    <3>1. PICK d \in seen : d = VisibleAt(n, Path(ast, n), x) /\ \A e \in seen : e <= d
      <4>1. \E d \in seen : \A e \in seen : e <= d  BY <1>0, <1>2, <1>11, <2>4, Greatest
      <4> QED BY <1>9, <2>4, <4>1
    <3>2. PICK j \in k + 1 .. L : symbols[j].node = d /\ j \in found  BY <1>15
    <3>3. j <= i /\ i \in k + 1 .. L
      <4>1. j <= i  BY <2>1, <3>2
      <4> QED BY <1>0, <1>7, <2>2, <3>2, <4>1
    <3>4. symbols[i].node \in seen  BY <1>14, <3>3
    <3>5. symbols[i].node <= d /\ d <= symbols[i].node
      <4>1. CASE j = i
        <5>1. symbols[i].node = d /\ d \in 1..n  BY <1>12, <3>2, <4>1
        <5> QED BY <1>2, <5>1
      <4>2. CASE j # i
        <5>1. j < i  BY <1>0, <1>7, <2>2, <3>2, <3>3, <4>2
        <5>2. d < symbols[i].node  BY <1>0, <1>7, <3>2, <3>3, <5>1
        <5>3. symbols[i].node \in 1..n /\ d \in 1..n /\ symbols[i].node <= d
          BY <1>12, <3>1, <3>4
        <5> QED BY <1>2, <5>2, <5>3
      <4> QED BY <4>1, <4>2
    <3>6. symbols[i].node = d
      <4>1. symbols[i].node \in 1..n /\ d \in 1..n  BY <1>12, <3>4
      <4> QED BY <1>2, <3>5, <4>1
    <3> QED BY <1>1, <1>5, <2>1, <2>2, <3>1, <3>6
  <2> QED BY <2>3, <2>4
<1> QED BY <1>16, <1>17

(* A name means the declaration that C's scopes make visible, in every       *)
(* disciplined function, of any size and nesting (nc_find_symbol, and the    *)
(* list of symbols that nc_emit_block and the loops cut back).               *)
THEOREM NamesBindInnermost ==
  ASSUME Disciplined = 1
  PROVE  Spec => []BindsInnermost
<1>1. Bound => BindsInnermost
  <2>1. CASE phase = "emit"  BY <2>1, Binding DEF Bound
  <2>2. CASE phase # "emit"  BY <2>2 DEF BindsInnermost
  <2> QED BY <2>1, <2>2
<1> QED BY <1>1, BoundStarts, BoundKeeps, PTL DEF Spec

-----------------------------------------------------------------------------
(* Where the jumps land                                                      *)
(*                                                                           *)
(* In the middle of the emission an instruction's target is either final or  *)
(* still in one of the generator's lists.  Lands says the first: the target  *)
(* is that of the node the jump stands for, in terms of the stacks of open   *)
(* constructs.  Waiting says the second: the frame of an if, a loop or a     *)
(* switch remembers the instruction, or break_patches, continue_patches or   *)
(* goto_patches list it.  JumpOK, the invariant, says that every jump has    *)
(* landed or waits (Placed), that a list holds the jumps of the constructs   *)
(* that are open, each behind the mark of the construct it leaves (Context), *)
(* and what the frames hold (Frames).  Behind the last node nothing is open, *)
(* so nothing waits (AllLand), and what has landed is at the Destination     *)
(* that JumpsLand names (Arrives).                                           *)

(* The tree alone: where a construct ends, by the stacks.                    *)

LEMMA Least ==
  ASSUME NEW T \in SUBSET Nat, T # {}
  PROVE  \E x \in T : \A y \in T : x <= y
<1>1. \E x \in T : \A y \in T : ~(<<y, x>> \in OpToRel(<, Nat))
  BY WFMin, NatLessThanWellFounded, Zenon
<1>2. PICK x \in T : \A y \in T : ~(<<y, x>> \in OpToRel(<, Nat))  BY <1>1
<1>3. \A y \in T : ~(y < x)  BY <1>2, Zenon DEF OpToRel
<1>4. ASSUME NEW y \in T PROVE x <= y
  <2>1. y \in Nat /\ x \in Nat /\ ~(y < x)  BY <1>3
  <2> QED BY <2>1
<1> QED BY <1>4

Level(st, n) == Len(Stack(st, n))
Openers == Scoped \cup {"if"}

(* How many constructs are open behind a node, and which, by its kind.       *)
LEMMA LevelNext ==
  ASSUME NEW t, NEW st, TreeOK(t, st), NEW n \in 0..Len(t) - 1, NEW kind, kind = t[n + 1].kind
  PROVE  /\ n \in Nat /\ n + 1 \in 1..Len(t) /\ Level(st, n) \in Nat /\ Level(st, n + 1) \in Nat
         /\ kind \in Openers \/ kind = "else" \/ kind \in Ends \/ kind \in Leaves
         /\ kind \in Openers =>
              /\ Level(st, n + 1) = Level(st, n) + 1
              /\ Stack(st, n + 1)[Level(st, n + 1)] = n + 1
              /\ \A j \in 1..Level(st, n) : Stack(st, n + 1)[j] = Stack(st, n)[j]
         /\ kind = "else" =>
              /\ Level(st, n + 1) = Level(st, n) /\ Level(st, n) >= 1
              /\ t[Stack(st, n)[Level(st, n)]].kind = "if"
              /\ Stack(st, n + 1)[Level(st, n + 1)] = n + 1
              /\ \A j \in 1..Level(st, n) - 1 : Stack(st, n + 1)[j] = Stack(st, n)[j]
         /\ kind \in Ends =>
              /\ Level(st, n + 1) = Level(st, n) - 1 /\ Level(st, n) >= 1
              /\ t[Stack(st, n)[Level(st, n)]].kind \in Closes(kind)
              /\ \A j \in 1..Level(st, n) - 1 : Stack(st, n + 1)[j] = Stack(st, n)[j]
         /\ kind \in Leaves => Stack(st, n + 1) = Stack(st, n)
<1>1. n \in Nat /\ n + 1 \in 1..Len(t) /\ n \in 0..Len(t) /\ n + 1 \in 0..Len(t)
      /\ (n + 1) - 1 = n /\ n + 1 # 0
  BY DEF TreeOK
<1> DEFINE s == Stack(st, n)
           s2 == Stack(st, n + 1)
<1>2. s \in Seq(1..n) /\ s2 \in Seq(1..n + 1)  BY <1>1, TreeShape
<1>3. s \in Seq(Nat) /\ s2 \in Seq(Nat)
  <2>1. s2 \in Seq(Nat)
    <3> DEFINE S == 1..n + 1
    <3>1. s2 \in Seq(S) /\ \A x \in S : x \in Nat  BY <1>1, <1>2
    <3> HIDE DEF S, s2
    <3> QED BY <3>1
  <2>2. s \in Seq(Nat)
    <3> DEFINE S == 1..n
    <3>1. s \in Seq(S) /\ \A x \in S : x \in Nat  BY <1>1, <1>2
    <3> HIDE DEF S, s
    <3> QED BY <3>1
  <2> QED BY <2>1, <2>2
<1>4. kind \in Kinds
  <2>1. t \in Seq(NodeType)  BY DEF TreeOK
  <2>2. t[n + 1] \in NodeType  BY <1>1, <2>1
  <2> QED BY <2>2 DEF NodeType
<1>5. Joins(t, s, Path(t, n), t[n + 1], n + 1, s2)  BY <1>1 DEF TreeOK, NodeOK, Stack
<1>6. /\ kind \in Openers => s2 = Append(s, n + 1)
      /\ kind = "else" => s # <<>> /\ t[Last(s)].kind = "if" /\ s2 = Append(Front(s), n + 1)
      /\ kind \in Ends => s # <<>> /\ t[Last(s)].kind \in Closes(kind) /\ s2 = Front(s)
      /\ kind \in Leaves => s2 = s
  BY <1>5 DEF Joins, TopIn, Openers
<1> HIDE DEF s, s2
<1>7. ASSUME kind \in Openers
      PROVE  Len(s2) = Len(s) + 1 /\ s2[Len(s2)] = n + 1 /\ \A j \in 1..Len(s) : s2[j] = s[j]
  <2>1. s2 = Append(s, n + 1) /\ n + 1 \in Nat  BY <1>1, <1>6, <1>7
  <2>2. Len(s2) = Len(s) + 1 /\ s2[Len(s) + 1] = n + 1 /\ \A j \in 1..Len(s) : s2[j] = s[j]
    BY <1>3, <2>1, Pushed
  <2> QED BY <2>2
<1>8. ASSUME s # <<>>
      PROVE  /\ Front(s) \in Seq(Nat) /\ Len(Front(s)) = Len(s) - 1 /\ Len(s) >= 1
             /\ Last(s) = s[Len(s)] /\ \A j \in 1..Len(s) - 1 : Front(s)[j] = s[j]
  BY <1>3, <1>8, FrontOf
<1>9. ASSUME kind = "else"
      PROVE  /\ Len(s2) = Len(s) /\ Len(s) >= 1 /\ t[s[Len(s)]].kind = "if"
             /\ s2[Len(s2)] = n + 1 /\ \A j \in 1..Len(s) - 1 : s2[j] = s[j]
  <2>1. PICK f : f = Front(s)  OBVIOUS
  <2>2. f \in Seq(Nat) /\ s2 = Append(f, n + 1) /\ Len(f) = Len(s) - 1 /\ Len(s) >= 1
        /\ \A j \in 1..Len(s) - 1 : f[j] = s[j]
    BY <1>6, <1>8, <1>9, <2>1
  <2>3. Len(s2) = Len(f) + 1 /\ s2[Len(f) + 1] = n + 1 /\ \A j \in 1..Len(f) : s2[j] = f[j]
    BY <1>1, <2>2, Pushed
  <2>4. Len(s) \in Nat  BY <1>3
  <2> QED BY <1>6, <1>8, <1>9, <2>2, <2>3, <2>4
<1>10. Len(s) \in Nat /\ Len(s2) \in Nat  BY <1>3
<1>11. kind \in Openers \/ kind = "else" \/ kind \in Ends \/ kind \in Leaves
  BY <1>4 DEF Kinds, Openers, Scoped, Ends
<1>12. ASSUME kind \in Ends
      PROVE  /\ Len(s2) = Len(s) - 1 /\ Len(s) >= 1 /\ t[s[Len(s)]].kind \in Closes(kind)
             /\ \A j \in 1..Len(s) - 1 : s2[j] = s[j]
  BY <1>6, <1>8, <1>12
<1> QED BY <1>1, <1>6, <1>7, <1>9, <1>10, <1>11, <1>12 DEF Level, s, s2

(* The node m stands in the stack at its place since it was opened.          *)
Stands(st, m, j, n) ==
  /\ m \in 1..n /\ Level(st, m) = j
  /\ \A k \in m..n : Level(st, k) >= j /\ Stack(st, k)[j] = m

LEMMA StandsNext ==
  ASSUME NEW st, NEW n \in Nat, NEW m, NEW j, Stands(st, m, j, n),
         Level(st, n + 1) >= j, Stack(st, n + 1)[j] = m
  PROVE  Stands(st, m, j, n + 1)
<1>1. m \in 1..n + 1 /\ \A k \in m..n + 1 : k \in m..n \/ k = n + 1  BY DEF Stands
<1> QED BY <1>1 DEF Stands

LEMMA Standing ==
  ASSUME NEW t, NEW st, TreeOK(t, st), NEW n \in 0..Len(t), NEW j \in 1..Level(st, n)
  PROVE  Stands(st, Stack(st, n)[j], j, n)
<1> DEFINE P(k) == \A i \in 1..Level(st, k) : Stands(st, Stack(st, k)[i], i, k)
           U == {k \in 0..Len(t) : ~P(k)}
<1>0. Len(t) \in Nat /\ Len(t) >= 1  BY DEF TreeOK
<1>1. SUFFICES U = {}  OBVIOUS
<1>2. SUFFICES ASSUME U # {} PROVE FALSE  OBVIOUS
<1>3. U \in SUBSET Nat  OBVIOUS
<1>4. PICK k \in U : \A i \in U : k <= i  BY <1>2, <1>3, Least
<1>5. k \in 0..Len(t) /\ ~P(k)  BY <1>4
<1>6. k # 0
  <2>1. Level(st, 0) = 0  BY DEF Level, Stack
  <2>2. P(0)  BY <2>1
  <2> QED BY <1>5, <2>2
<1>7. PICK l \in Nat : l = k - 1  BY <1>5, <1>6
<1>8. l \in 0..Len(t) - 1 /\ l + 1 = k /\ l \in 0..Len(t)  BY <1>0, <1>5, <1>7
<1>9. P(l)
  <2>1. l \notin U  BY <1>4, <1>7, <1>8
  <2> QED BY <1>8, <2>1
<1>10. \A i \in 1..Level(st, l) : Stands(st, Stack(st, l)[i], i, l)  BY <1>9
<1>11. SUFFICES ASSUME NEW i \in 1..Level(st, l + 1)
                PROVE  Stands(st, Stack(st, l + 1)[i], i, l + 1)
  BY <1>5, <1>8
<1> HIDE DEF U, P
<1>12. PICK kind : kind = t[l + 1].kind  OBVIOUS
<1> DEFINE a == Level(st, l)
           b == Level(st, l + 1)
           s == Stack(st, l)
           s2 == Stack(st, l + 1)
<1>13. /\ a \in Nat /\ b \in Nat
       /\ kind \in Openers \/ kind = "else" \/ kind \in Ends \/ kind \in Leaves
       /\ kind \in Openers =>
              b = a + 1 /\ s2[b] = l + 1 /\ \A h \in 1..a : s2[h] = s[h]
       /\ kind = "else" =>
              b = a /\ a >= 1 /\ s2[b] = l + 1 /\ \A h \in 1..a - 1 : s2[h] = s[h]
       /\ kind \in Ends =>
              b = a - 1 /\ a >= 1 /\ \A h \in 1..a - 1 : s2[h] = s[h]
       /\ kind \in Leaves => s2 = s
  BY <1>8, <1>12, LevelNext
<1>14. ASSUME i \in 1..a, s2[i] = s[i], b >= i PROVE Stands(st, s2[i], i, l + 1)
  <2>1. Stands(st, s[i], i, l)  BY <1>10, <1>14
  <2> QED BY <1>14, <2>1, StandsNext
<1>15. ASSUME i = b, s2[i] = l + 1 PROVE Stands(st, s2[i], i, l + 1)
  <2>1. l + 1 \in 1..l + 1 /\ \A h \in l + 1 .. l + 1 : h = l + 1  OBVIOUS
  <2>2. Level(st, l + 1) = i /\ i >= i  BY <1>13, <1>15
  <2> QED BY <1>15, <2>1, <2>2 DEF Stands
<1>16. b \in Nat /\ i \in 1..b /\ b >= i  BY <1>13
<1> HIDE DEF a, b, s, s2
<1>17. CASE kind \in Openers
  <2>1. i \in 1..a \/ i = b  BY <1>13, <1>16, <1>17
  <2> QED BY <1>13, <1>14, <1>15, <1>16, <1>17, <2>1 DEF s2
<1>18. CASE kind = "else"
  <2>1. (i \in 1..a - 1 /\ i \in 1..a) \/ i = b  BY <1>13, <1>16, <1>18
  <2> QED BY <1>13, <1>14, <1>15, <1>16, <1>18, <2>1 DEF s2
<1>19. CASE kind \in Ends
  <2>1. i \in 1..a - 1 /\ i \in 1..a  BY <1>13, <1>16, <1>19
  <2> QED BY <1>13, <1>14, <1>16, <1>19, <2>1 DEF s2
<1>20. CASE kind \in Leaves
  <2>1. a = b  BY <1>13, <1>20 DEF a, b, s, s2, Level
  <2> QED BY <1>13, <1>14, <1>16, <1>20, <2>1 DEF s2
<1> QED BY <1>13, <1>17, <1>18, <1>19, <1>20

-----------------------------------------------------------------------------
Constructs == Openers \cup {"else"}

(* Node e is the first behind construct m with less open than behind m.      *)
Shuts(t, st, m, e) ==
  /\ m \in 1..Len(t) /\ e \in m + 1 .. Len(t)
  /\ Level(st, e) = Level(st, m) - 1
  /\ \A k \in m..e - 1 : Level(st, k) >= Level(st, m)

LEMMA LevelNat ==
  ASSUME NEW t, NEW st, TreeOK(t, st), NEW n \in 0..Len(t)
  PROVE  Level(st, n) \in Nat /\ Len(t) \in Nat /\ n \in Nat
<1>1. Stack(st, n) \in Seq(1..n)  BY TreeShape
<1>2. Len(t) \in Nat  BY DEF TreeOK
<1> QED BY <1>1, <1>2 DEF Level

LEMMA TopOf ==
  ASSUME NEW t, NEW st, TreeOK(t, st), NEW m \in 1..Len(t), t[m].kind \in Constructs
  PROVE  /\ Level(st, m) \in Nat /\ Level(st, m) >= 1 /\ Stack(st, m)[Level(st, m)] = m
         /\ t[m].kind \in Openers => Level(st, m - 1) = Level(st, m) - 1
<1>1. PICK n \in Nat : n = m - 1  OBVIOUS
<1>2. n \in 0..Len(t) - 1 /\ n + 1 = m  BY <1>1 DEF TreeOK
<1>3. PICK kind : kind = t[n + 1].kind  OBVIOUS
<1>4. /\ Level(st, n) \in Nat /\ Level(st, n + 1) \in Nat
      /\ kind \in Openers =>
           Level(st, n + 1) = Level(st, n) + 1 /\ Stack(st, n + 1)[Level(st, n + 1)] = n + 1
      /\ kind = "else" =>
           /\ Level(st, n + 1) = Level(st, n) /\ Level(st, n) >= 1
           /\ Stack(st, n + 1)[Level(st, n + 1)] = n + 1
  BY <1>2, <1>3, LevelNext
<1>5. kind \in Openers \/ kind = "else"  BY <1>2, <1>3 DEF Constructs
<1>6. kind \in Openers => Level(st, n) = Level(st, n + 1) - 1 /\ Level(st, n + 1) >= 1  BY <1>4
<1>7. Level(st, n + 1) >= 1 /\ Stack(st, n + 1)[Level(st, n + 1)] = n + 1
  BY <1>4, <1>5, <1>6
<1> QED BY <1>1, <1>2, <1>3, <1>4, <1>6, <1>7

(* In a program that is complete every construct ends.                       *)
LEMMA Shut ==
  ASSUME NEW t, NEW st, TreeOK(t, st), Level(st, Len(t)) = 0,
         NEW m \in 1..Len(t), t[m].kind \in Constructs
  PROVE  \E e \in m + 1 .. Len(t) : Shuts(t, st, m, e)
<1> DEFINE T == {k \in m + 1 .. Len(t) : Level(st, k) < Level(st, m)}
<1>1. Len(t) \in Nat /\ m \in Nat  BY DEF TreeOK
<1>2. Level(st, m) \in Nat /\ Level(st, m) >= 1  BY TopOf
<1>3. Len(t) # m  BY <1>2
<1>4. Len(t) \in T  BY <1>1, <1>2, <1>3
<1>5. T \in SUBSET Nat /\ T # {}  BY <1>1, <1>4
<1>6. PICK e \in T : \A k \in T : e <= k  BY <1>5, Least
<1>7. e \in m + 1 .. Len(t) /\ Level(st, e) < Level(st, m)  BY <1>6
<1>8. ASSUME NEW k \in m..e - 1 PROVE Level(st, k) >= Level(st, m)
  <2>1. k \in 0..Len(t) /\ (k = m \/ k \in m + 1 .. Len(t)) /\ ~(e <= k)  BY <1>1, <1>7
  <2>2. Level(st, k) \in Nat  BY <2>1, LevelNat
  <2>3. k = m \/ k \notin T  BY <1>6, <2>1
  <2> QED BY <1>2, <2>1, <2>2, <2>3
<1>9. PICK n \in Nat : n = e - 1  BY <1>1, <1>7
<1>10. n \in 0..Len(t) - 1 /\ n + 1 = e /\ n \in m..e - 1  BY <1>1, <1>7, <1>9
<1>11. Level(st, n + 1) >= Level(st, n) - 1
  <2>1. PICK kind : kind = t[n + 1].kind  OBVIOUS
  <2>2. /\ Level(st, n) \in Nat
        /\ kind \in Openers \/ kind = "else" \/ kind \in Ends \/ kind \in Leaves
        /\ kind \in Openers => Level(st, n + 1) = Level(st, n) + 1
        /\ kind = "else" => Level(st, n + 1) = Level(st, n)
        /\ kind \in Ends => Level(st, n + 1) = Level(st, n) - 1
        /\ kind \in Leaves => Stack(st, n + 1) = Stack(st, n)
    BY <1>10, <2>1, LevelNext
  <2> QED BY <2>2 DEF Level
<1>12. Level(st, e) = Level(st, m) - 1
  <2>1. e \in 0..Len(t) /\ n \in 0..Len(t)  BY <1>1, <1>7, <1>10
  <2>2. Level(st, e) \in Nat /\ Level(st, n) \in Nat  BY <2>1, LevelNat
  <2>3. Level(st, n) >= Level(st, m)  BY <1>8, <1>10
  <2> QED BY <1>2, <1>7, <1>10, <1>11, <2>2, <2>3
<1> QED BY <1>7, <1>8, <1>12 DEF Shuts

(* The end of a construct ends the one on the top of the stack.              *)
LEMMA EndShuts ==
  ASSUME NEW t, NEW st, TreeOK(t, st), NEW n \in 0..Len(t) - 1, t[n + 1].kind \in Ends,
         NEW m, m = Stack(st, n)[Level(st, n)]
  PROVE  /\ Shuts(t, st, m, n + 1) /\ m \in 1..n /\ Level(st, m) = Level(st, n)
         /\ t[m].kind \in Closes(t[n + 1].kind)
<1>1. n \in 0..Len(t) /\ Len(t) \in Nat /\ n \in Nat  BY DEF TreeOK
<1>2. PICK kind : kind = t[n + 1].kind  OBVIOUS
<1>3. /\ Level(st, n) \in Nat
      /\ kind \in Ends => /\ Level(st, n + 1) = Level(st, n) - 1 /\ Level(st, n) >= 1
                          /\ t[Stack(st, n)[Level(st, n)]].kind \in Closes(kind)
  BY <1>2, LevelNext
<1>4. Level(st, n) \in 1..Level(st, n)  BY <1>2, <1>3
<1>5. Stands(st, m, Level(st, n), n)  BY <1>1, <1>4, Standing
<1>6. m \in 1..n /\ Level(st, m) = Level(st, n) /\ \A k \in m..n : Level(st, k) >= Level(st, n)
  BY <1>5 DEF Stands
<1>7. (n + 1) - 1 = n /\ m \in 1..Len(t) /\ n + 1 \in m + 1 .. Len(t)  BY <1>1, <1>6
<1> QED BY <1>2, <1>3, <1>6, <1>7 DEF Shuts

(* The node an element of the stack was put there by.                        *)
LEMMA PutBy ==
  ASSUME NEW t, NEW st, TreeOK(t, st), NEW n \in 0..Len(t), NEW j \in 1..Level(st, n),
         NEW x, x = Stack(st, n)[j]
  PROVE  /\ x \in 1..n /\ x \in 1..Len(t) /\ Level(st, x) = j
         /\ \A k \in x..n : Level(st, k) >= j /\ Stack(st, k)[j] = x
         /\ t[x].kind \in Constructs
<1>1. Stands(st, x, j, n)  BY Standing
<1>2. /\ x \in 1..n /\ Level(st, x) = j
      /\ \A k \in x..n : Level(st, k) >= j /\ Stack(st, k)[j] = x
  BY <1>1 DEF Stands
<1>3. Len(t) \in Nat /\ n \in Nat /\ Level(st, n) \in Nat  BY LevelNat
<1>4. PICK l \in Nat : l = x - 1  BY <1>2
<1>5. l \in 0..Len(t) - 1 /\ l + 1 = x /\ x \in 1..Len(t) /\ l \in 0..Len(t) /\ x \in x..n
  BY <1>2, <1>3, <1>4
<1>6. PICK kind : kind = t[l + 1].kind  OBVIOUS
<1>7. /\ Level(st, l) \in Nat
      /\ kind \in Openers \/ kind = "else" \/ kind \in Ends \/ kind \in Leaves
      /\ kind \in Ends =>
           /\ Level(st, l + 1) = Level(st, l) - 1 /\ Level(st, l) >= 1
           /\ \A i \in 1..Level(st, l) - 1 : Stack(st, l + 1)[i] = Stack(st, l)[i]
      /\ kind \in Leaves => Stack(st, l + 1) = Stack(st, l)
  BY <1>5, <1>6, LevelNext
<1>8. Stack(st, x)[j] = x  BY <1>2, <1>5
<1>9. ASSUME j \in 1..Level(st, l), Stack(st, l)[j] = x PROVE FALSE
  <2>1. Stands(st, x, j, l)  BY <1>5, <1>9, Standing
  <2> QED BY <1>4, <1>2, <2>1 DEF Stands
<1>10. kind \notin Ends
  <2>1. SUFFICES ASSUME kind \in Ends PROVE FALSE  OBVIOUS
  <2>2. j \in 1..Level(st, l) - 1 /\ j \in 1..Level(st, l)  BY <1>2, <1>5, <1>7, <2>1
  <2> QED BY <1>5, <1>7, <1>8, <1>9, <2>1, <2>2
<1>11. kind \notin Leaves
  <2>1. SUFFICES ASSUME kind \in Leaves PROVE FALSE  OBVIOUS
  <2>2. j \in 1..Level(st, l)  BY <1>2, <1>5, <1>7, <2>1 DEF Level
  <2> QED BY <1>5, <1>7, <1>8, <1>9, <2>1, <2>2
<1>12. t[x].kind \in Constructs  BY <1>5, <1>6, <1>7, <1>10, <1>11 DEF Constructs
<1> QED BY <1>2, <1>5, <1>12

(* Until a construct ends what is open behind it stays, but that an else     *)
(* takes the place of its if.                                                *)
LEMMA Between ==
  ASSUME NEW t, NEW st, TreeOK(t, st), NEW m, NEW e, Shuts(t, st, m, e),
         t[m].kind \in Constructs, NEW p, p = Level(st, m)
  PROVE  /\ \A k \in m..e : \A j \in 1..p - 1 : Stack(st, k)[j] = Stack(st, m)[j]
         /\ \A k \in m..e - 1 :
              LET x == Stack(st, k)[p]
              IN  x = m \/ (t[m].kind = "if" /\ t[x].kind = "else" /\ x \in m + 1 .. k)
<1>1. /\ m \in 1..Len(t) /\ e \in m + 1 .. Len(t) /\ Level(st, e) = p - 1
      /\ \A k \in m..e - 1 : Level(st, k) >= p
  BY DEF Shuts
<1>2. Len(t) \in Nat /\ m \in Nat /\ e \in Nat /\ p \in Nat /\ p >= 1 /\ Stack(st, m)[p] = m
      /\ m \in 0..Len(t)
  <2>1. p \in Nat /\ p >= 1 /\ Stack(st, m)[p] = m  BY <1>1, TopOf
  <2>2. Len(t) \in Nat  BY DEF TreeOK
  <2> QED BY <1>1, <2>1, <2>2
<1>3. ASSUME NEW k \in m..e PROVE k \in 0..Len(t) /\ k \in Nat /\ Level(st, k) \in Nat
  <2>1. k \in 0..Len(t)  BY <1>1, <1>2
  <2> QED BY <2>1, LevelNat
<1>4. PICK l \in Nat : l = e - 1  BY <1>1, <1>2
<1>5. l \in m..e - 1 /\ l \in m..e /\ l + 1 = e /\ l \in 0..Len(t) - 1  BY <1>1, <1>2, <1>4
<1>6. ASSUME NEW j \in 1..p - 1 PROVE Stack(st, e)[j] = Stack(st, l)[j]
  <2>1. PICK kind : kind = t[l + 1].kind  OBVIOUS
  <2>2. /\ Level(st, l) \in Nat
        /\ kind \in Openers \/ kind = "else" \/ kind \in Ends \/ kind \in Leaves
        /\ kind \in Openers => Level(st, l + 1) = Level(st, l) + 1
        /\ kind = "else" => Level(st, l + 1) = Level(st, l)
        /\ kind \in Ends =>
             /\ Level(st, l + 1) = Level(st, l) - 1
             /\ \A i \in 1..Level(st, l) - 1 : Stack(st, l + 1)[i] = Stack(st, l)[i]
        /\ kind \in Leaves => Stack(st, l + 1) = Stack(st, l)
    BY <1>5, <2>1, LevelNext
  <2>3. Level(st, l + 1) < Level(st, l)  BY <1>1, <1>2, <1>5, <2>2
  <2>4. kind \in Ends
    <3>1. kind \notin Openers /\ kind # "else" /\ kind \notin Leaves
      BY <2>2, <2>3 DEF Level
    <3> QED BY <2>2, <3>1
  <2>5. j \in 1..Level(st, l) - 1  BY <1>1, <1>2, <1>5, <2>2, <2>4
  <2> QED BY <1>5, <2>2, <2>4, <2>5
<1>7. ASSUME NEW k \in m..e - 1, NEW j \in 1..p - 1 PROVE Stack(st, k)[j] = Stack(st, m)[j]
  <2>1. k \in m..e /\ k \in 0..Len(t) /\ Level(st, k) \in Nat /\ Level(st, k) >= p
    BY <1>1, <1>2, <1>3
  <2>2. j \in 1..Level(st, k)  BY <1>2, <2>1
  <2>3. PICK x : x = Stack(st, k)[j]  OBVIOUS
  <2>4. /\ x \in 1..k /\ Level(st, x) = j
        /\ \A i \in x..k : Level(st, i) >= j /\ Stack(st, i)[j] = x
    BY <2>1, <2>2, <2>3, PutBy
  <2>5. x <= m
    <3>1. SUFFICES ASSUME ~(x <= m) PROVE FALSE  OBVIOUS
    <3>2. x \in m..e - 1  BY <1>2, <2>1, <2>4, <3>1
    <3>3. Level(st, x) >= p  BY <1>1, <3>2
    <3> QED BY <1>2, <2>4, <3>3
  <2>6. m \in x..k  BY <1>2, <2>1, <2>4, <2>5
  <2> QED BY <2>3, <2>4, <2>6
<1>8. ASSUME NEW k \in m..e - 1, NEW x, x = Stack(st, k)[p], x # m
      PROVE  x \in m + 1 .. k /\ t[x].kind = "else" /\ t[m].kind = "if"
  <2>1. k \in m..e /\ k \in 0..Len(t) /\ Level(st, k) \in Nat /\ Level(st, k) >= p
    BY <1>1, <1>2, <1>3
  <2>2. p \in 1..Level(st, k)  BY <1>2, <2>1
  <2>3. /\ x \in 1..k /\ x \in 1..Len(t) /\ Level(st, x) = p
        /\ \A i \in x..k : Level(st, i) >= p /\ Stack(st, i)[p] = x
        /\ t[x].kind \in Constructs
    BY <1>8, <2>1, <2>2, PutBy
  <2>4. x > m
    <3>1. SUFFICES ASSUME ~(x > m) PROVE FALSE  OBVIOUS
    <3>2. m \in x..k  BY <1>2, <2>1, <2>3, <3>1
    <3> QED BY <1>2, <1>8, <2>3, <3>2
  <2>5. x \in m + 1 .. k /\ x - 1 \in m..e - 1  BY <1>2, <2>1, <2>3, <2>4
  <2>6. Level(st, x - 1) >= p  BY <1>1, <2>5
  <2>7. t[x].kind \notin Openers
    <3>1. SUFFICES ASSUME t[x].kind \in Openers PROVE FALSE  OBVIOUS
    <3>2. Level(st, x - 1) = p - 1  BY <2>3, <3>1, TopOf
    <3> QED BY <1>2, <2>6, <3>2
  <2>8. t[x].kind = "else"  BY <2>3, <2>7 DEF Constructs
  <2>9. PICK i \in Nat : i = x - 1  BY <2>3
  <2>10. i \in 0..Len(t) - 1 /\ i + 1 = x /\ i \in m..e - 1 /\ i \in 0..Len(t)
    BY <1>2, <2>3, <2>5, <2>9
  <2>11. Level(st, i) = p /\ t[Stack(st, i)[p]].kind = "if"
    <3>1. /\ Level(st, i + 1) = Level(st, i)
          /\ t[Stack(st, i)[Level(st, i)]].kind = "if"
      BY <2>8, <2>10, LevelNext
    <3> QED BY <2>3, <2>10, <3>1
  <2>12. PICK y : y = Stack(st, i)[p]  OBVIOUS
  <2>13. p \in 1..Level(st, i)  BY <1>2, <2>11
  <2>14. /\ y \in 1..i /\ y \in 1..Len(t) /\ Level(st, y) = p
         /\ \A h \in y..i : Level(st, h) >= p /\ Stack(st, h)[p] = y
    BY <2>10, <2>12, <2>13, PutBy
  <2>15. y = m
    <3>1. SUFFICES ASSUME y # m PROVE FALSE  OBVIOUS
    <3>2. CASE y < m
      <4>1. m \in y..i  BY <1>2, <2>10, <2>14, <3>2
      <4> QED BY <1>2, <2>14, <3>1, <4>1
    <3>3. CASE y > m
      <4>1. y - 1 \in m..e - 1  BY <1>2, <2>10, <2>14, <3>3
      <4>2. Level(st, y - 1) >= p  BY <1>1, <4>1
      <4>3. t[y].kind \in Constructs /\ t[y].kind \in Openers
        BY <2>11, <2>12 DEF Constructs, Openers
      <4>4. Level(st, y - 1) = p - 1  BY <2>14, <4>3, TopOf
      <4> QED BY <1>2, <4>2, <4>4
    <3> QED BY <1>2, <2>14, <3>1, <3>2, <3>3
  <2> QED BY <2>5, <2>8, <2>11, <2>12, <2>15
<1>9. \A k \in m..e : k = e \/ k \in m..e - 1  BY <1>2
<1> QED BY <1>5, <1>6, <1>7, <1>8, <1>9

-----------------------------------------------------------------------------
(* Counting instead of stacks: what EndOf does.                              *)
Ended == {"while", "do", "for", "switch", "if"}
Class(kind) == IF kind \in {"if", "else"} THEN {"if", "else"} ELSE {kind}
Tally(t, m, k, kind) == Cardinality({j \in m + 1 .. k : t[j].kind = kind})
Surplus(t, m, k, kind) == Tally(t, m, k, EndKind[kind]) - Tally(t, m, k, kind)
OpenOf(t, st, n, kind) == Count(t, Stack(st, n), Class(kind))

LEMMA ClassEnds ==
  ASSUME NEW kind \in Ended, NEW end \in Ends, NEW x \in Closes(end)
  PROVE  x \in Class(kind) <=> end = EndKind[kind]
<1>1. EndKind["while"] = "endwhile" /\ EndKind["do"] = "enddo" /\ EndKind["for"] = "endfor"
      /\ EndKind["switch"] = "endswitch" /\ EndKind["if"] = "endif"
  BY DEF EndKind
<1>2. CASE end \in {"endblock", "endcase"}
  <2>1. x \in {"block", "case", "default"}  BY <1>2 DEF Closes
  <2> QED BY <1>1, <1>2, <2>1 DEF Ended, Class
<1>3. CASE end = "endif"  BY <1>1, <1>3 DEF Ended, Class, Closes
<1>4. CASE end = "endwhile"  BY <1>1, <1>4 DEF Ended, Class, Closes
<1>5. CASE end = "enddo"  BY <1>1, <1>5 DEF Ended, Class, Closes
<1>6. CASE end = "endfor"  BY <1>1, <1>6 DEF Ended, Class, Closes
<1>7. CASE end = "endswitch"  BY <1>1, <1>7 DEF Ended, Class, Closes
<1> QED BY <1>2, <1>3, <1>4, <1>5, <1>6, <1>7 DEF Ends

LEMMA OpenNext ==
  ASSUME NEW t, NEW st, TreeOK(t, st), NEW n \in 0..Len(t) - 1, NEW kind \in Ended
  PROVE  /\ OpenOf(t, st, n, kind) \in Nat
         /\ OpenOf(t, st, n + 1, kind) =
              OpenOf(t, st, n, kind) + (IF t[n + 1].kind = kind THEN 1 ELSE 0)
                                     - (IF t[n + 1].kind = EndKind[kind] THEN 1 ELSE 0)
<1> DEFINE s == Stack(st, n)
           s2 == Stack(st, n + 1)
           K == Class(kind)
<1>1. PICK e : e = t[n + 1].kind  OBVIOUS
<1>2. /\ n \in Nat /\ s \in Seq(1..n)
      /\ e \in Openers => Grows(s2, s, n + 1)
      /\ e = "else" => s # <<>> /\ Grows(s2, Front(s), n + 1)
      /\ e \in Ends => s # <<>> /\ s2 = Front(s) /\ t[Last(s)].kind \in Closes(e)
      /\ e \in Leaves => s2 = s
  <2>1. PICK z, z2 : z = Stack(st, n) /\ z2 = Stack(st, n + 1)  OBVIOUS
  <2>2. /\ n \in Nat /\ z \in Seq(1..n)
        /\ e \in Scoped \cup {"if"} => Grows(z2, z, n + 1)
        /\ e = "else" => z # <<>> /\ Grows(z2, Front(z), n + 1)
        /\ e \in Ends => z # <<>> /\ z2 = Front(z) /\ t[Last(z)].kind \in Closes(e)
        /\ e \in Leaves => z2 = z
    BY <1>1, <2>1, StackNext
  <2> QED BY <2>1, <2>2 DEF Openers
<1>3. /\ e \in Openers \/ e = "else" \/ e \in Ends \/ e \in Leaves
      /\ e = "else" => t[s[Len(s)]].kind = "if"
  <2>1. /\ e \in Openers \/ e = "else" \/ e \in Ends \/ e \in Leaves
        /\ e = "else" => t[Stack(st, n)[Level(st, n)]].kind = "if"
    BY <1>1, LevelNext, ZenonT(60)
  <2> QED BY <2>1 DEF Level
<1>4. s \in Seq(Nat)
  <2> DEFINE S == 1..n
  <2>1. s \in Seq(S) /\ \A x \in S : x \in Nat  BY <1>2
  <2> HIDE DEF S, s
  <2> QED BY <2>1
<1>5. EndKind[kind] \in Ends /\ kind \in Openers
  BY DEF EndKind, Ended, Ends, Openers, Scoped, LoopKinds
<1>6. Count(t, s, K) \in Nat  BY <1>4, CountHolding
<1> HIDE DEF s, s2, K
<1>7. CASE e \in Openers
  <2>1. e \notin Ends  BY <1>7 DEF Openers, Scoped, LoopKinds, Ends
  <2>2. e \in K <=> e = kind  BY <1>7 DEF K, Class, Ended, Openers, Scoped, LoopKinds
  <2>3. NatGrows(s2, s, n + 1)  BY <1>2, <1>4, <1>7 DEF NatGrows
  <2>4. Count(t, s2, K) = Count(t, s, K) + (IF t[n + 1].kind \in K THEN 1 ELSE 0)
    BY <2>3, NatGrowsTo
  <2> QED BY <1>1, <1>5, <1>6, <2>1, <2>2, <2>4 DEF OpenOf, s, s2, K
<1>8. ASSUME s # <<>>
      PROVE  /\ Front(s) \in Seq(Nat) /\ Last(s) = s[Len(s)]
             /\ Count(t, Front(s), K) \in Nat
             /\ Count(t, s, K) = Count(t, Front(s), K) + (IF t[Last(s)].kind \in K THEN 1 ELSE 0)
  <2>1. Front(s) \in Seq(Nat) /\ Last(s) = s[Len(s)]  BY <1>4, <1>8, FrontOf
  <2>2. /\ Count(t, Front(s), K) \in Nat
        /\ Count(t, s, K) = Count(t, Front(s), K) + (IF t[Last(s)].kind \in K THEN 1 ELSE 0)
    BY <1>4, <1>8, CountPop
  <2> QED BY <2>1, <2>2
<1>9. CASE e = "else"
  <2>1. e \notin Ends /\ e # kind  BY <1>9 DEF Ends, Ended
  <2>2. e \in K <=> "if" \in K  BY <1>9 DEF K, Class
  <2>3. PICK f : f = Front(s)  OBVIOUS
  <2>4. NatGrows(s2, f, n + 1)  BY <1>2, <1>8, <1>9, <2>3 DEF NatGrows
  <2>5. Count(t, s2, K) = Count(t, f, K) + (IF t[n + 1].kind \in K THEN 1 ELSE 0)
    BY <2>4, NatGrowsTo
  <2>6. Count(t, s, K) = Count(t, f, K) + (IF "if" \in K THEN 1 ELSE 0)
        /\ Count(t, f, K) \in Nat
    BY <1>2, <1>3, <1>8, <1>9, <2>3
  <2> QED BY <1>1, <1>5, <1>6, <2>1, <2>2, <2>5, <2>6 DEF OpenOf, s, s2, K
<1>10. CASE e \in Ends
  <2>1. e # kind  BY <1>10 DEF Ends, Ended
  <2>2. t[Last(s)].kind \in K <=> e = EndKind[kind]  BY <1>2, <1>10, ClassEnds DEF K
  <2>3. Count(t, s, K) = Count(t, s2, K) + (IF t[Last(s)].kind \in K THEN 1 ELSE 0)
        /\ Count(t, s2, K) \in Nat
    BY <1>2, <1>8, <1>10
  <2>4. Count(t, s2, K) = Count(t, s, K) - (IF e = EndKind[kind] THEN 1 ELSE 0)
    BY <2>2, <2>3
  <2> QED BY <1>1, <1>6, <2>1, <2>4 DEF OpenOf, s, s2, K
<1>11. CASE e \in Leaves
  <2>1. e \notin Ends /\ e \notin Openers
    BY <1>11 DEF Leaves, Declarations, Ends, Openers, Scoped, LoopKinds
  <2> QED BY <1>1, <1>2, <1>5, <1>6, <1>11, <2>1 DEF OpenOf, s, s2, K
<1> QED BY <1>3, <1>7, <1>9, <1>10, <1>11

LEMMA TallyNext ==
  ASSUME NEW t, NEW m \in Nat, NEW k \in Nat, m <= k, NEW kind
  PROVE  /\ Tally(t, m, m, kind) = 0 /\ Tally(t, m, k, kind) \in Nat
         /\ Tally(t, m, k + 1, kind) = Tally(t, m, k, kind) + (IF t[k + 1].kind = kind THEN 1 ELSE 0)
<1> DEFINE A == {j \in m + 1 .. k : t[j].kind = kind}
           B == {j \in m + 1 .. k + 1 : t[j].kind = kind}
<1>1. {j \in m + 1 .. m : t[j].kind = kind} = {}  OBVIOUS
<1>2. IsFiniteSet(A) /\ Cardinality(A) \in Nat
  <2>1. IsFiniteSet(m + 1 .. k)  BY FS_Interval
  <2>2. IsFiniteSet(A)  BY <2>1, FS_Subset
  <2> QED BY <2>2, FS_CardinalityType
<1>3. k + 1 \notin A  OBVIOUS
<1>4. B = IF t[k + 1].kind = kind THEN A \cup {k + 1} ELSE A  OBVIOUS
<1>5. Cardinality({}) = 0  BY FS_EmptySet
<1> HIDE DEF A, B
<1>6. Cardinality(A \cup {k + 1}) = Cardinality(A) + 1  BY <1>2, <1>3, FS_AddElement
<1>7. Cardinality(B) = Cardinality(A) + (IF t[k + 1].kind = kind THEN 1 ELSE 0)
  BY <1>2, <1>4, <1>6
<1> QED BY <1>1, <1>2, <1>5, <1>7 DEF Tally, A, B

(* The surplus of ends is what is open less than before.                     *)
LEMMA SurplusIs ==
  ASSUME NEW t, NEW st, TreeOK(t, st), NEW m \in 0..Len(t), NEW kind \in Ended,
         NEW k \in m..Len(t)
  PROVE  Surplus(t, m, k, kind) = OpenOf(t, st, m, kind) - OpenOf(t, st, k, kind)
<1> DEFINE P(j) == Surplus(t, m, j, kind) = OpenOf(t, st, m, kind) - OpenOf(t, st, j, kind)
           U == {j \in m..Len(t) : ~P(j)}
<1>0. Len(t) \in Nat /\ m \in Nat  BY DEF TreeOK
<1>1. SUFFICES ASSUME U # {} PROVE FALSE  OBVIOUS
<1>2. U \in SUBSET Nat  BY <1>0
<1>3. PICK j \in U : \A i \in U : j <= i  BY <1>1, <1>2, Least
<1>4. j \in m..Len(t) /\ ~P(j)  BY <1>3
<1>5. ASSUME NEW i \in 0..Len(t) PROVE OpenOf(t, st, i, kind) \in Nat
  <2>1. Stack(st, i) \in Seq(1..i)  BY TreeShape
  <2>2. Stack(st, i) \in Seq(Nat)
    <3> DEFINE S == 1..i
               s == Stack(st, i)
    <3>1. s \in Seq(S) /\ \A x \in S : x \in Nat  BY <2>1
    <3> HIDE DEF S, s
    <3>2. s \in Seq(Nat)  BY <3>1
    <3> QED BY <3>2 DEF s
  <2> QED BY <2>2, CountHolding DEF OpenOf
<1>6. j # m
  <2>1. Tally(t, m, m, kind) = 0 /\ Tally(t, m, m, EndKind[kind]) = 0
    <3>1. m <= m  BY <1>0
    <3> QED BY <1>0, <3>1, TallyNext
  <2>2. OpenOf(t, st, m, kind) \in Nat  BY <1>5
  <2>3. Surplus(t, m, m, kind) = OpenOf(t, st, m, kind) - OpenOf(t, st, m, kind)
    BY <2>1, <2>2 DEF Surplus
  <2> QED BY <1>4, <2>3
<1>7. PICK i \in Nat : i = j - 1  BY <1>0, <1>4, <1>6
<1>8. i \in 0..Len(t) - 1 /\ i + 1 = j /\ i \in m..Len(t) /\ m <= i /\ ~(j <= i)
  BY <1>0, <1>4, <1>6, <1>7
<1>9. P(i)  BY <1>3, <1>8
<1> DEFINE e == t[i + 1].kind
           a == IF e = kind THEN 1 ELSE 0
           b == IF e = EndKind[kind] THEN 1 ELSE 0
<1>10. /\ Tally(t, m, i, kind) \in Nat /\ Tally(t, m, i, EndKind[kind]) \in Nat
       /\ Tally(t, m, i + 1, kind) = Tally(t, m, i, kind) + a
       /\ Tally(t, m, i + 1, EndKind[kind]) = Tally(t, m, i, EndKind[kind]) + b
  <2>1. /\ Tally(t, m, i, kind) \in Nat
        /\ Tally(t, m, i + 1, kind) = Tally(t, m, i, kind) + (IF t[i + 1].kind = kind THEN 1 ELSE 0)
    BY <1>0, <1>8, TallyNext
  <2>2. PICK end : end = EndKind[kind]  OBVIOUS
  <2>3. /\ Tally(t, m, i, end) \in Nat
        /\ Tally(t, m, i + 1, end) = Tally(t, m, i, end) + (IF t[i + 1].kind = end THEN 1 ELSE 0)
    BY <1>0, <1>8, TallyNext
  <2> QED BY <2>1, <2>2, <2>3
<1>11. /\ OpenOf(t, st, i, kind) \in Nat
       /\ OpenOf(t, st, i + 1, kind) = OpenOf(t, st, i, kind) + a - b
  BY <1>8, OpenNext
<1>12. a \in 0..1 /\ b \in 0..1 /\ OpenOf(t, st, m, kind) \in Nat  BY <1>5
<1> HIDE DEF a, b, e, U
<1>13. Surplus(t, m, i + 1, kind) = OpenOf(t, st, m, kind) - OpenOf(t, st, i + 1, kind)
  <2>1. PICK x \in Nat, y \in Nat, u \in Nat, v \in Nat :
          x = Tally(t, m, i, kind) /\ y = Tally(t, m, i, EndKind[kind])
            /\ u = OpenOf(t, st, m, kind) /\ v = OpenOf(t, st, i, kind)
    BY <1>10, <1>11, <1>12
  <2>2. y - x = u - v  BY <1>9, <2>1 DEF Surplus
  <2>3. (y + b) - (x + a) = u - (v + a - b)  BY <1>12, <2>1, <2>2, SMTT(30)
  <2> QED BY <1>10, <1>11, <2>1, <2>3 DEF Surplus
<1> QED BY <1>4, <1>8, <1>13

LEMMA NatStack ==
  ASSUME NEW t, NEW st, TreeOK(t, st), NEW n \in 0..Len(t)
  PROVE  Stack(st, n) \in Seq(Nat) /\ DOMAIN Stack(st, n) = 1..Level(st, n) /\ Level(st, n) \in Nat
<1> DEFINE S == 1..n
           s == Stack(st, n)
<1>1. s \in Seq(S) /\ \A x \in S : x \in Nat  BY TreeShape
<1> HIDE DEF S, s
<1>2. s \in Seq(Nat)  BY <1>1
<1>3. DOMAIN s = 1..Len(s) /\ Len(s) \in Nat  BY <1>2
<1> QED BY <1>2, <1>3 DEF s, Level

(* A construct's own kind is open until the construct ends, and one less     *)
(* then.                                                                     *)
LEMMA OpenTill ==
  ASSUME NEW t, NEW st, TreeOK(t, st), NEW m, NEW e, Shuts(t, st, m, e), NEW kind \in Ended,
         t[m].kind \in Class(kind)
  PROVE  /\ \A k \in m..e - 1 : OpenOf(t, st, k, kind) >= OpenOf(t, st, m, kind)
         /\ OpenOf(t, st, e, kind) = OpenOf(t, st, m, kind) - 1
         /\ OpenOf(t, st, m, kind) \in Nat
<1> DEFINE p == Level(st, m)
           K == Class(kind)
           On(k) == {j \in 1..Level(st, k) : t[Stack(st, k)[j]].kind \in K}
<1>1. /\ m \in 1..Len(t) /\ e \in m + 1 .. Len(t) /\ Level(st, e) = p - 1
      /\ \A k \in m..e - 1 : Level(st, k) >= p
  BY DEF Shuts
<1>2. t[m].kind \in Constructs
  BY DEF Class, Ended, Constructs, Openers, Scoped, LoopKinds
<1>3. p \in Nat /\ p >= 1 /\ Stack(st, m)[p] = m  BY <1>1, <1>2, TopOf
<1>4. /\ \A k \in m..e : \A j \in 1..p - 1 : Stack(st, k)[j] = Stack(st, m)[j]
      /\ \A k \in m..e - 1 :
           \/ Stack(st, k)[p] = m
           \/ t[m].kind = "if" /\ t[Stack(st, k)[p]].kind = "else"
  BY <1>2, Between
<1>5. Len(t) \in Nat /\ m \in Nat /\ e \in Nat  BY <1>1 DEF TreeOK
<1>6. ASSUME NEW k \in m..e
      PROVE  /\ OpenOf(t, st, k, kind) = Cardinality(On(k)) /\ IsFiniteSet(On(k))
             /\ Level(st, k) \in Nat /\ Cardinality(On(k)) \in Nat
  <2>1. k \in 0..Len(t)  BY <1>1, <1>5
  <2>2. DOMAIN Stack(st, k) = 1..Level(st, k) /\ Level(st, k) \in Nat  BY <2>1, NatStack
  <2>3. OpenOf(t, st, k, kind) = Cardinality(On(k))  BY <2>2 DEF OpenOf, Count
  <2>4. IsFiniteSet(1..Level(st, k))  BY <2>2, FS_Interval
  <2>5. IsFiniteSet(On(k))  BY <2>4, FS_Subset
  <2> QED BY <2>2, <2>3, <2>5, FS_CardinalityType
<1>7. m \in m..e /\ e \in m..e  BY <1>1, <1>5
<1>8. ASSUME NEW k \in m..e - 1 PROVE Cardinality(On(m)) <= Cardinality(On(k))
  <2>1. k \in m..e  BY <1>5
  <2>2. Level(st, k) >= p /\ Level(st, k) \in Nat  BY <1>1, <1>6, <2>1
  <2>3. ASSUME NEW j \in On(m) PROVE j \in On(k)
    <3>1. j \in 1..p /\ t[Stack(st, m)[j]].kind \in K  OBVIOUS
    <3>2. j \in 1..Level(st, k)  BY <1>3, <2>2, <3>1
    <3>3. CASE j = p
      <4>1. \/ Stack(st, k)[p] = m \/ (t[m].kind = "if" /\ t[Stack(st, k)[p]].kind = "else")
        BY <1>4
      <4>2. t[m].kind = "if" => "else" \in K  BY DEF Class
      <4>3. t[Stack(st, k)[p]].kind \in K  BY <4>1, <4>2
      <4> QED BY <3>2, <3>3, <4>3
    <3>4. CASE j # p
      <4>1. j \in 1..p - 1  BY <1>3, <3>1, <3>4
      <4>2. Stack(st, k)[j] = Stack(st, m)[j]  BY <1>4, <2>1, <4>1
      <4> QED BY <3>1, <3>2, <4>2
    <3> QED BY <3>3, <3>4
  <2>4. IsFiniteSet(On(k))  BY <1>6, <2>1
  <2> HIDE DEF On
  <2>5. On(m) \subseteq On(k)  BY <2>3
  <2> QED BY <2>4, <2>5, FS_Subset
<1>9. Cardinality(On(m)) = Cardinality(On(e)) + 1
  <2>1. p \notin On(e)  BY <1>1, <1>3
  <2>2. On(m) = On(e) \cup {p}
    <3>1. ASSUME NEW j \in 1..p - 1 PROVE Stack(st, e)[j] = Stack(st, m)[j]  BY <1>4, <1>7
    <3>2. p \in On(m)  BY <1>3
    <3>3. \A j \in 1..p : j = p \/ j \in 1..p - 1  BY <1>3
    <3>4. \A j \in 1..p - 1 : j \in 1..p  BY <1>3
    <3>5. ASSUME NEW j \in On(m) PROVE j \in On(e) \cup {p}
      <4>1. j \in 1..p /\ t[Stack(st, m)[j]].kind \in K  OBVIOUS
      <4> QED BY <1>1, <3>1, <3>3, <4>1
    <3>6. ASSUME NEW j \in On(e) PROVE j \in On(m)
      <4>1. j \in 1..p - 1 /\ t[Stack(st, e)[j]].kind \in K  BY <1>1
      <4>2. t[Stack(st, m)[j]].kind \in K /\ j \in 1..p  BY <3>1, <3>4, <4>1
      <4> QED BY <4>2
    <3> HIDE DEF On
    <3> QED BY <3>2, <3>5, <3>6
  <2>3. IsFiniteSet(On(e))  BY <1>6, <1>7
  <2> HIDE DEF On
  <2> QED BY <2>1, <2>2, <2>3, FS_AddElement
<1> HIDE DEF On
<1>10. \A k \in m..e - 1 : k \in m..e  BY <1>5
<1> QED BY <1>6, <1>7, <1>8, <1>9, <1>10

-----------------------------------------------------------------------------
(* What the reference definitions of the finished code are, by the stacks.   *)

LEMMA ShutsOnce ==
  ASSUME NEW t, NEW st, NEW m, NEW e, NEW f, TreeOK(t, st), t[m].kind \in Constructs,
         Shuts(t, st, m, e), Shuts(t, st, m, f)
  PROVE  e = f
<1>1. /\ m \in 1..Len(t) /\ e \in m + 1 .. Len(t) /\ f \in m + 1 .. Len(t)
      /\ Level(st, e) = Level(st, m) - 1 /\ Level(st, f) = Level(st, m) - 1
      /\ \A k \in m..e - 1 : Level(st, k) >= Level(st, m)
      /\ \A k \in m..f - 1 : Level(st, k) >= Level(st, m)
  BY DEF Shuts
<1>2. Level(st, m) \in Nat /\ Len(t) \in Nat
  <2>1. Level(st, m) \in Nat  BY <1>1, TopOf
  <2> QED BY <2>1 DEF TreeOK
<1>3. ~(e < f)
  <2>1. SUFFICES ASSUME e < f PROVE FALSE  OBVIOUS
  <2>2. e \in m..f - 1  BY <1>1, <1>2, <2>1
  <2> QED BY <1>1, <1>2, <2>2
<1>4. ~(f < e)
  <2>1. SUFFICES ASSUME f < e PROVE FALSE  OBVIOUS
  <2>2. f \in m..e - 1  BY <1>1, <1>2, <2>1
  <2> QED BY <1>1, <1>2, <2>2
<1> QED BY <1>1, <1>2, <1>3, <1>4

LEMMA EndIs ==
  ASSUME NEW st, TreeOK(ast, st), NEW m, NEW e, Shuts(ast, st, m, e),
         ast[m].kind \in Ended \cup {"else"}
  PROVE  EndOf(m) = e
<1>1. PICK kind : kind = IF ast[m].kind = "else" THEN "if" ELSE ast[m].kind  OBVIOUS
<1>2. kind \in Ended /\ ast[m].kind \in Class(kind)  BY <1>1 DEF Ended, Class
<1>3. m \in 1..Len(ast) /\ e \in m + 1 .. Len(ast) /\ Len(ast) \in Nat  BY DEF Shuts, TreeOK
<1>4. EndOf(m) = CHOOSE k \in m + 1 .. Len(ast) :
                   Surplus(ast, m, k, kind) = 1 /\ \A j \in m + 1 .. k - 1 : Surplus(ast, m, j, kind) # 1
  BY <1>1 DEF EndOf, Surplus, Tally
<1>5. /\ \A k \in m..e - 1 : OpenOf(ast, st, k, kind) >= OpenOf(ast, st, m, kind)
      /\ OpenOf(ast, st, e, kind) = OpenOf(ast, st, m, kind) - 1
      /\ OpenOf(ast, st, m, kind) \in Nat
  BY <1>2, OpenTill
<1>6. ASSUME NEW k \in m..Len(ast)
      PROVE  /\ Surplus(ast, m, k, kind) = OpenOf(ast, st, m, kind) - OpenOf(ast, st, k, kind)
             /\ OpenOf(ast, st, k, kind) \in Nat
  <2>1. m \in 0..Len(ast) /\ k \in 0..Len(ast)  BY <1>3
  <2>2. Stack(st, k) \in Seq(Nat)  BY <2>1, NatStack
  <2> QED BY <1>2, <2>1, <2>2, SurplusIs, CountHolding DEF OpenOf
<1>7. Surplus(ast, m, e, kind) = 1
  <2>1. e \in m..Len(ast)  BY <1>3
  <2> QED BY <1>5, <1>6, <2>1
<1>8. ASSUME NEW j \in m + 1 .. e - 1 PROVE Surplus(ast, m, j, kind) # 1
  <2>1. j \in m..Len(ast) /\ j \in m..e - 1  BY <1>3
  <2> QED BY <1>5, <1>6, <2>1
<1>9. ASSUME NEW k \in m + 1 .. Len(ast), Surplus(ast, m, k, kind) = 1,
             \A j \in m + 1 .. k - 1 : Surplus(ast, m, j, kind) # 1
      PROVE  k = e
  <2>1. ~(k < e)
    <3>1. k < e => k \in m + 1 .. e - 1  BY <1>3
    <3> QED BY <1>8, <1>9, <3>1
  <2>2. ~(e < k)
    <3>1. e < k => e \in m + 1 .. k - 1  BY <1>3
    <3> QED BY <1>7, <1>9, <3>1
  <2> QED BY <1>3, <2>1, <2>2
<1> QED BY <1>3, <1>4, <1>7, <1>8, <1>9

Complete(st) == TreeOK(ast, st) /\ Level(st, Len(ast)) = 0

LEMMA EndShut ==
  ASSUME NEW st, Complete(st), NEW m \in 1..Len(ast), ast[m].kind \in Ended \cup {"else"}
  PROVE  Shuts(ast, st, m, EndOf(m))
<1>1. ast[m].kind \in Constructs  BY DEF Ended, Constructs, Openers, Scoped, LoopKinds
<1>2. PICK e : Shuts(ast, st, m, e)  BY <1>1, Shut DEF Complete
<1> QED BY <1>2, EndIs DEF Complete

(* The else that takes the place of an if.                                   *)
Takes(t, st, m, k) ==
  /\ k \in 1..Len(t) /\ t[k].kind = "else" /\ Stack(st, k - 1)[Level(st, k - 1)] = m

LEMMA TakesOver ==
  ASSUME NEW t, NEW st, TreeOK(t, st), NEW m, NEW k, Takes(t, st, m, k)
  PROVE  /\ m \in 1..k - 1 /\ m \in 1..Len(t) /\ t[m].kind = "if" /\ Level(st, k) = Level(st, m)
         /\ Level(st, k) \in Nat /\ Level(st, k) >= 1 /\ Stack(st, k)[Level(st, k)] = k
         /\ \A i \in m..k - 1 : Level(st, i) >= Level(st, m) /\ Stack(st, i)[Level(st, m)] = m
<1>1. k \in 1..Len(t) /\ t[k].kind = "else" /\ Len(t) \in Nat  BY DEF Takes, TreeOK
<1>2. PICK n \in Nat : n = k - 1  BY <1>1
<1>3. n \in 0..Len(t) - 1 /\ n + 1 = k /\ n \in 0..Len(t)  BY <1>1, <1>2
<1>4. /\ Level(st, n) \in Nat /\ Level(st, n + 1) = Level(st, n) /\ Level(st, n) >= 1
      /\ t[Stack(st, n)[Level(st, n)]].kind = "if"
      /\ Stack(st, n + 1)[Level(st, n + 1)] = n + 1
  BY <1>1, <1>3, LevelNext
<1>5. m = Stack(st, n)[Level(st, n)] /\ Level(st, n) \in 1..Level(st, n)
  BY <1>2, <1>4 DEF Takes
<1>6. /\ m \in 1..n /\ m \in 1..Len(t) /\ Level(st, m) = Level(st, n)
      /\ \A i \in m..n : Level(st, i) >= Level(st, n) /\ Stack(st, i)[Level(st, n)] = m
  BY <1>3, <1>5, PutBy
<1> QED BY <1>2, <1>3, <1>4, <1>5, <1>6

LEMMA TakesOnce ==
  ASSUME NEW t, NEW st, TreeOK(t, st), NEW m, NEW k, Takes(t, st, m, k), NEW l, Takes(t, st, m, l)
  PROVE  ~(k < l)
<1>1. SUFFICES ASSUME k < l PROVE FALSE  OBVIOUS
<1>2. /\ m \in 1..k - 1 /\ Level(st, k) = Level(st, m) /\ Stack(st, k)[Level(st, k)] = k
  BY TakesOver
<1>3. \A i \in m..l - 1 : Stack(st, i)[Level(st, m)] = m  BY TakesOver
<1>4. k \in 1..Len(t) /\ l \in 1..Len(t) /\ Len(t) \in Nat  BY DEF Takes, TreeOK
<1>5. k \in m..l - 1 /\ k # m  BY <1>1, <1>2, <1>4
<1> QED BY <1>2, <1>3, <1>5

(* An else ends where its if does.                                           *)
LEMMA TakesEnd ==
  ASSUME NEW t, NEW st, TreeOK(t, st), NEW m, NEW k, Takes(t, st, m, k), NEW e, Shuts(t, st, m, e)
  PROVE  k \in m + 1 .. e - 1 /\ Shuts(t, st, k, e)
<1>1. /\ m \in 1..k - 1 /\ Level(st, k) = Level(st, m) /\ Level(st, m) \in Nat
      /\ \A i \in m..k - 1 : Level(st, i) >= Level(st, m)
  BY TakesOver
<1>2. /\ m \in 1..Len(t) /\ e \in m + 1 .. Len(t) /\ Level(st, e) = Level(st, m) - 1
      /\ \A i \in m..e - 1 : Level(st, i) >= Level(st, m)
  BY DEF Shuts
<1>3. k \in 1..Len(t) /\ Len(t) \in Nat  BY DEF Takes, TreeOK
<1>4. ~(e <= k)
  <2>1. SUFFICES ASSUME e <= k PROVE FALSE  OBVIOUS
  <2>2. e = k \/ e \in m..k - 1  BY <1>1, <1>2, <1>3, <2>1
  <2>3. Level(st, e) >= Level(st, m)  BY <1>1, <2>2
  <2> QED BY <1>1, <1>2, <2>3
<1>5. k \in m + 1 .. e - 1 /\ e \in k + 1 .. Len(t)  BY <1>1, <1>2, <1>3, <1>4
<1>6. \A i \in k..e - 1 : i \in m..e - 1  BY <1>1, <1>3
<1> QED BY <1>1, <1>2, <1>3, <1>5, <1>6 DEF Shuts

LEMMA ElseIs ==
  ASSUME NEW st, Complete(st), NEW m \in 1..Len(ast), ast[m].kind = "if", NEW k
  PROVE  k \in ElseOf(m) <=> Takes(ast, st, m, k)
<1>1. PICK e : e = EndOf(m)  OBVIOUS
<1>2. TreeOK(ast, st) /\ Len(ast) \in Nat  BY DEF Complete, TreeOK
<1>3. Shuts(ast, st, m, e)  BY <1>1, EndShut DEF Ended
<1>4. e \in m + 1 .. Len(ast) /\ Level(st, e) = Level(st, m) - 1  BY <1>3 DEF Shuts
<1>5. k \in ElseOf(m) <=> k \in m + 1 .. e /\ ast[k].kind = "else" /\ EndOf(k) = e
  BY <1>1 DEF ElseOf
<1>6. ASSUME k \in m + 1 .. e, ast[k].kind = "else", EndOf(k) = e PROVE Takes(ast, st, m, k)
  <2>1. k \in 1..Len(ast)  BY <1>2, <1>4, <1>6
  <2>2. Shuts(ast, st, k, e)  BY <1>6, <2>1, EndShut
  <2>3. e \in k + 1 .. Len(ast) /\ Level(st, e) = Level(st, k) - 1  BY <2>2 DEF Shuts
  <2>4. ast[m].kind \in Constructs /\ ast[k].kind \in Constructs
    BY <1>6 DEF Constructs, Openers
  <2>5. Level(st, m) \in Nat /\ Level(st, k) \in Nat  BY <1>2, <2>1, <2>4, TopOf
  <2>6. PICK n \in Nat : n = k - 1  BY <2>1
  <2>7. n \in 0..Len(ast) - 1 /\ n + 1 = k /\ n \in m..e - 1  BY <1>2, <1>6, <2>1, <2>3, <2>6
  <2>8. Level(st, n + 1) = Level(st, n) /\ ast[Stack(st, n)[Level(st, n)]].kind = "if"
    BY <1>2, <1>6, <2>7, LevelNext, ZenonT(60)
  <2>9. Level(st, n) = Level(st, m)  BY <1>4, <2>3, <2>5, <2>7, <2>8
  <2>10. \/ Stack(st, n)[Level(st, m)] = m
         \/ ast[Stack(st, n)[Level(st, m)]].kind = "else"
    BY <1>2, <1>3, <2>4, <2>7, Between
  <2>11. Stack(st, n)[Level(st, n)] = m  BY <2>8, <2>9, <2>10
  <2> QED BY <1>6, <2>1, <2>6, <2>11 DEF Takes
<1>7. ASSUME Takes(ast, st, m, k) PROVE k \in m + 1 .. e /\ ast[k].kind = "else" /\ EndOf(k) = e
  <2>1. k \in m + 1 .. e - 1 /\ Shuts(ast, st, k, e)  BY <1>2, <1>3, <1>7, TakesEnd
  <2>2. ast[k].kind = "else"  BY <1>7 DEF Takes
  <2>3. EndOf(k) = e  BY <1>2, <2>1, <2>2, EndIs
  <2> QED BY <1>4, <2>1, <2>2, <2>3
<1> QED BY <1>5, <1>6, <1>7

(* The if that an endif finds open has no else.                              *)
LEMMA NotTaken ==
  ASSUME NEW t, NEW st, TreeOK(t, st), NEW n \in 0..Len(t) - 1, t[n + 1].kind \in Ends,
         NEW m, m = Stack(st, n)[Level(st, n)], NEW k
  PROVE  ~Takes(t, st, m, k)
<1>1. SUFFICES ASSUME Takes(t, st, m, k) PROVE FALSE  OBVIOUS
<1>2. Shuts(t, st, m, n + 1) /\ Level(st, m) = Level(st, n)  BY EndShuts
<1>3. k \in m + 1 .. (n + 1) - 1 /\ m \in 1..k - 1  BY <1>1, <1>2, TakesEnd, TakesOver
<1>4. Level(st, k) = Level(st, m) /\ Stack(st, k)[Level(st, k)] = k  BY <1>1, TakesOver
<1>5. n \in 0..Len(t) /\ n \in Nat /\ Len(t) \in Nat  BY DEF TreeOK
<1>6. Level(st, n) \in Nat /\ Level(st, n) >= 1
  <2>1. t[n + 1].kind \in Ends => Level(st, n) >= 1 /\ Level(st, n) \in Nat  BY LevelNext
  <2> QED BY <2>1
<1>7. Level(st, n) \in 1..Level(st, n)  BY <1>6
<1>8. \A i \in m..n : Stack(st, i)[Level(st, n)] = m  BY <1>5, <1>7, PutBy
<1>9. k \in m..n /\ k # m  BY <1>3, <1>5
<1> QED BY <1>2, <1>4, <1>8, <1>9

(* An end closes one construct of its kind.                                  *)
LEMMA OpenerBefore ==
  ASSUME NEW t, NEW st, TreeOK(t, st), NEW m, NEW n, NEW e, Shuts(t, st, m, e), Shuts(t, st, n, e),
         t[m].kind \in Openers, t[n].kind \in Openers
  PROVE  ~(n < m)
<1>1. SUFFICES ASSUME n < m PROVE FALSE  OBVIOUS
<1>2. /\ m \in 1..Len(t) /\ n \in 1..Len(t) /\ e \in m + 1 .. Len(t) /\ e \in n + 1 .. Len(t)
      /\ Level(st, e) = Level(st, m) - 1 /\ Level(st, e) = Level(st, n) - 1
      /\ \A k \in n..e - 1 : Level(st, k) >= Level(st, n)
  BY DEF Shuts
<1>3. Level(st, m) \in Nat /\ Level(st, n) \in Nat /\ Level(st, m - 1) = Level(st, m) - 1
  BY <1>2, TopOf DEF Constructs
<1>4. m - 1 \in n..e - 1  BY <1>1, <1>2
<1> QED BY <1>2, <1>3, <1>4

LEMMA OpenerIs ==
  ASSUME NEW st, Complete(st), NEW m, NEW e, Shuts(ast, st, m, e), NEW kind \in Ended,
         ast[m].kind = kind
  PROVE  OpenerOf(e, kind) = m
<1>1. TreeOK(ast, st) /\ Len(ast) \in Nat  BY DEF Complete, TreeOK
<1>2. m \in 1..Len(ast) /\ e \in m + 1 .. Len(ast) /\ EndOf(m) = e
  BY <1>1, EndIs DEF Shuts
<1>3. m \in 1..e - 1  BY <1>1, <1>2
<1>4. kind \in Openers  BY DEF Ended, Openers, Scoped, LoopKinds
<1>5. ASSUME NEW n \in 1..e - 1, ast[n].kind = kind, EndOf(n) = e PROVE n = m
  <2>1. n \in 1..Len(ast)  BY <1>1, <1>2
  <2>2. Shuts(ast, st, n, e)  BY <1>5, <2>1, EndShut
  <2>3. ~(n < m) /\ ~(m < n)  BY <1>1, <1>4, <1>5, <2>2, OpenerBefore
  <2> QED BY <1>2, <2>1, <2>3
<1> QED BY <1>2, <1>3, <1>5 DEF OpenerOf

-----------------------------------------------------------------------------
(* The case and default nodes of a switch.                                   *)
CaseKinds == {"case", "default"}
CaseIn(t, st, m, k) ==
  /\ k \in 1..Len(t) /\ t[k].kind \in CaseKinds
  /\ Stack(st, k - 1) # <<>> /\ Last(Stack(st, k - 1)) = m

LEMMA CaseWithin ==
  ASSUME NEW t, NEW st, TreeOK(t, st), NEW m \in 1..Len(t), t[m].kind = "switch",
         NEW k \in 1..Len(t), t[k].kind \in CaseKinds
  PROVE  /\ t[k].within = Append(t[m].within, m) <=> CaseIn(t, st, m, k)
         /\ CaseIn(t, st, m, k) => m < k
<1>1. Len(t) \in Nat  BY DEF TreeOK
<1>2. PICK n \in Nat : n = k - 1  OBVIOUS
<1>3. n \in 0..Len(t) /\ n + 1 = k /\ (n + 1) - 1 = n /\ m \in 0..Len(t)  BY <1>1, <1>2
<1> DEFINE s == Stack(st, n)
           q == Path(t, n)
           r == Path(t, m)
           A == 1..n
           B == 1..m
<1>4. /\ s \in Seq(A) /\ Rising(s) /\ q \in Seq(A) /\ Rising(q)
      /\ ToSet(q) = {x \in ToSet(s) : t[x].kind \in Scoped}
  BY <1>3, TreeShape
<1>5. r \in Seq(B) /\ Rising(r)  BY <1>3, TreeShape
<1>6. r = Append(t[m].within, m)
  <2>1. m # 0 /\ "switch" \in Scoped  BY DEF Scoped
  <2> QED BY <2>1 DEF Path
<1>7. /\ Joins(t, s, q, t[k], k, st[k]) /\ Suits(t, s, t[k])
      /\ t[m] \in NodeType
  <2>1. NodeOK(t, st, k) /\ t \in Seq(NodeType)  BY DEF TreeOK
  <2> QED BY <1>2, <2>1 DEF NodeOK
<1>8. t[k].within = q /\ TopIn(t, s, {"switch"})
  <2>1. t[k].kind \notin Ends \ {"endif"}  BY DEF Ends, CaseKinds
  <2> QED BY <1>7, <2>1 DEF Joins, Suits, CaseKinds
<1>9. s # <<>> /\ q # <<>> /\ Last(q) = Last(s)
  <2>1. TopIn(t, s, Scoped) /\ s # <<>>  BY <1>8 DEF TopIn, Scoped
  <2> HIDE DEF s, q
  <2> QED BY <1>4, <2>1, LastOfBoth DEF A
<1>10. CaseIn(t, st, m, k) <=> Last(s) = m  BY <1>2, <1>9 DEF CaseIn
<1>11. t[m].within \in Seq(Nat) /\ m \in Nat  BY <1>7 DEF NodeType
<1>12. /\ Len(r) = Len(t[m].within) + 1 /\ r[Len(r)] = m /\ r # <<>> /\ Last(r) = m
       /\ Len(t[m].within) \in Nat
  <2>1. PICK w \in Seq(Nat) : w = t[m].within  BY <1>11
  <2>2. Len(Append(w, m)) = Len(w) + 1 /\ Append(w, m)[Len(w) + 1] = m /\ Append(w, m) # <<>>
        /\ Last(Append(w, m)) = m /\ Len(w) \in Nat
    BY <1>11, Pushed, SMTT(30)
  <2> HIDE DEF r
  <2> QED BY <1>6, <2>1, <2>2
<1>13. Len(q) \in Nat /\ Len(q) >= 1 /\ q[Len(q)] = Last(q) /\ DOMAIN q = 1..Len(q)
       /\ Last(q) \in A
  <2> HIDE DEF q, A
  <2> QED BY <1>4, <1>9, FrontOf
<1>14. ASSUME Last(s) = m PROVE m < k /\ q = r
  <2>1. m \in 1..n  BY <1>9, <1>13, <1>14 DEF A
  <2>2. n \in 1..Len(t) /\ m \in 1..n  BY <1>3, <2>1
  <2>3. Lasts(t, m, n)  BY <2>2 DEF TreeOK
  <2>4. \A x \in ToSet(q) : x <= Last(q)
    <3> HIDE DEF q, A
    <3> QED BY <1>2, <1>4, <1>9, RisingFront DEF A
  <2>5. \A j \in DOMAIN q : q[j] <= m  BY <1>9, <1>14, <2>4 DEF ToSet
  <2>6. \A j \in DOMAIN q : j \in DOMAIN r /\ r[j] = q[j]  BY <2>3, <2>5 DEF Lasts
  <2>7. DOMAIN r = 1..Len(r) /\ Len(r) \in Nat /\ r \in Seq(B)  BY <1>5
  <2>8. Len(q) \in 1..Len(r) /\ r[Len(q)] = m
    <3>1. Len(q) \in DOMAIN q  BY <1>13
    <3> QED BY <1>9, <1>13, <1>14, <2>6, <2>7, <3>1
  <2>9. Len(q) = Len(r)
    <3>1. SUFFICES ASSUME Len(q) # Len(r) PROVE FALSE  OBVIOUS
    <3>2. Len(q) < Len(r) /\ Len(r) \in 1..Len(r)
      <4>1. PICK a : a = Len(q)  OBVIOUS
      <4>2. PICK b : b = Len(r)  OBVIOUS
      <4>3. b \in Nat /\ a \in 1..b /\ a # b  BY <2>7, <2>8, <3>1, <4>1, <4>2
      <4>4. a < b /\ b \in 1..b  BY <4>3
      <4> QED BY <4>1, <4>2, <4>4
    <3>3. r[Len(q)] < r[Len(r)]  BY <1>5, <2>7, <2>8, <3>2 DEF Rising
    <3> QED BY <1>12, <2>8, <3>3
  <2>10. q = r
    <3>1. q \in Seq(Nat) /\ r \in Seq(Nat)
      <4>1. \A x \in A : x \in Nat  OBVIOUS
      <4>2. \A x \in B : x \in Nat  OBVIOUS
      <4> HIDE DEF q, r, A, B
      <4> QED BY <1>4, <1>5, <4>1, <4>2
    <3>2. \A i \in 1..Len(q) : q[i] = r[i]  BY <1>13, <2>6
    <3> HIDE DEF q, r
    <3> QED BY <2>9, <3>1, <3>2, SeqEqual
  <2> QED BY <1>3, <2>1, <2>10
<1>15. ASSUME q = r PROVE Last(s) = m  BY <1>9, <1>12, <1>15
<1> HIDE DEF q, r, s
<1> QED BY <1>6, <1>8, <1>10, <1>14, <1>15

LEMMA CaseInside ==
  ASSUME NEW t, NEW st, TreeOK(t, st), NEW m, NEW k, CaseIn(t, st, m, k), NEW e, Shuts(t, st, m, e)
  PROVE  k \in m + 1 .. e - 1
<1>1. k \in 1..Len(t) /\ Len(t) \in Nat /\ Stack(st, k - 1) # <<>> /\ m = Last(Stack(st, k - 1))
  BY DEF CaseIn, TreeOK
<1>2. PICK n \in Nat : n = k - 1  BY <1>1
<1>3. n \in 0..Len(t) /\ n + 1 = k  BY <1>1, <1>2
<1>4. Stack(st, n) \in Seq(Nat) /\ Level(st, n) \in Nat  BY <1>3, NatStack
<1>5. m = Stack(st, n)[Level(st, n)] /\ Level(st, n) \in 1..Level(st, n)
  <2>1. PICK s \in Seq(Nat) : s = Stack(st, n)  BY <1>4
  <2>2. Last(s) = s[Len(s)] /\ Len(s) \in Nat /\ Len(s) >= 1  BY <1>1, <1>2, <2>1, FrontOf
  <2> QED BY <1>1, <1>2, <2>1, <2>2 DEF Level
<1>6. /\ m \in 1..n /\ Level(st, m) = Level(st, n)
      /\ \A i \in m..n : Level(st, i) >= Level(st, n)
  BY <1>3, <1>5, PutBy
<1>7. e \in m + 1 .. Len(t) /\ Level(st, e) = Level(st, m) - 1  BY DEF Shuts
<1>8. ~(e <= n)
  <2>1. SUFFICES ASSUME e <= n PROVE FALSE  OBVIOUS
  <2>2. e \in m..n  BY <1>2, <1>6, <1>7, <2>1
  <2>3. Level(st, e) >= Level(st, n)  BY <1>6, <2>2
  <2> QED BY <1>4, <1>6, <1>7, <2>3
<1>9. PICK l \in Nat : l = n + 1  BY <1>2
<1>10. t[l].kind \notin Ends /\ l = k
  BY <1>3, <1>9 DEF CaseIn, CaseKinds, Ends
<1>11. e # k
  <2>1. SUFFICES ASSUME e = k PROVE FALSE  OBVIOUS
  <2>2. n \in 0..Len(t) - 1  BY <1>1, <1>2
  <2>3. t[n + 1].kind \in Openers
    BY <1>3 DEF CaseIn, CaseKinds, Openers, Scoped
  <2>4. Level(st, n + 1) = Level(st, n) + 1  BY <2>2, <2>3, LevelNext
  <2> QED BY <1>3, <1>4, <1>6, <1>7, <2>1, <2>4
<1> QED BY <1>1, <1>2, <1>6, <1>7, <1>8, <1>11

LEMMA CasesAre ==
  ASSUME NEW st, Complete(st), NEW m \in 1..Len(ast), ast[m].kind = "switch", NEW k
  PROVE  k \in CasesOf(m) <=> CaseIn(ast, st, m, k)
<1>1. PICK e : e = EndOf(m)  OBVIOUS
<1>2. TreeOK(ast, st) /\ Len(ast) \in Nat  BY DEF Complete, TreeOK
<1>3. Shuts(ast, st, m, e)  BY <1>1, EndShut DEF Ended
<1>4. e \in m + 1 .. Len(ast)  BY <1>3 DEF Shuts
<1>5. k \in CasesOf(m) <=> /\ k \in m..e /\ ast[k].kind \in CaseKinds
                           /\ ast[k].within = Append(ast[m].within, m)
  BY <1>1 DEF CasesOf, CaseKinds
<1>6. ASSUME k \in m..e, ast[k].kind \in CaseKinds, ast[k].within = Append(ast[m].within, m)
      PROVE  CaseIn(ast, st, m, k)
  <2>1. k \in 1..Len(ast)  BY <1>2, <1>4, <1>6
  <2> QED BY <1>2, <1>6, <2>1, CaseWithin
<1>7. ASSUME CaseIn(ast, st, m, k)
      PROVE  k \in m..e /\ ast[k].kind \in CaseKinds /\ ast[k].within = Append(ast[m].within, m)
  <2>1. k \in m + 1 .. e - 1  BY <1>2, <1>3, <1>7, CaseInside
  <2>2. k \in 1..Len(ast) /\ ast[k].kind \in CaseKinds  BY <1>7 DEF CaseIn
  <2>3. k \in m..e  BY <1>2, <1>4, <2>1
  <2> QED BY <1>2, <1>7, <2>2, <2>3, CaseWithin
<1> QED BY <1>5, <1>6, <1>7

(* The innermost construct of some kinds around node n.                      *)
Inner(t, st, n, K, m) ==
  /\ m \in ToSet(Stack(st, n - 1)) /\ t[m].kind \in K
  /\ \A y \in ToSet(Stack(st, n - 1)) : t[y].kind \in K => y <= m

LEMMA InnermostIs ==
  ASSUME NEW st, TreeOK(ast, st), NEW n \in 1..Len(ast), ast[n].kind \in Leaves,
         NEW K \in SUBSET Scoped, NEW m, Inner(ast, st, n, K, m)
  PROVE  Innermost(n, K) = m
<1>1. Len(ast) \in Nat  BY DEF TreeOK
<1>2. PICK l \in Nat : l = n - 1  OBVIOUS
<1>3. l \in 0..Len(ast) /\ l + 1 = n  BY <1>1, <1>2
<1> DEFINE s == Stack(st, l)
           q == Path(ast, l)
           A == 1..l
<1>4. /\ s \in Seq(A) /\ q \in Seq(A) /\ Rising(q)
      /\ ToSet(q) = {x \in ToSet(s) : ast[x].kind \in Scoped}
  BY <1>3, TreeShape
<1>5. ast[n].within = q
  <2>1. NodeOK(ast, st, n)  BY DEF TreeOK
  <2>2. ast[n].kind \notin Ends \ {"endif"}  BY DEF Ends, Leaves, Declarations
  <2> QED BY <1>2, <2>1, <2>2 DEF NodeOK, Joins
<1>6. m \in ToSet(s) /\ ast[m].kind \in K /\ \A y \in ToSet(s) : ast[y].kind \in K => y <= m
  BY <1>2 DEF Inner
<1>7. DOMAIN q = 1..Len(q) /\ Len(q) \in Nat /\ \A i \in 1..Len(q) : q[i] \in A
  <2> HIDE DEF q, A
  <2> QED BY <1>4
<1>8. \A i \in 1..Len(q) : q[i] \in Nat  BY <1>2, <1>7
<1> HIDE DEF s, q, A
<1>9. m \in ToSet(q)  BY <1>4, <1>6
<1>10. PICK k \in 1..Len(q) : q[k] = m  BY <1>7, <1>9 DEF ToSet
<1>11. \A i \in 1..Len(q) : ast[q[i]].kind \in K => q[i] <= m
  <2>1. \A i \in 1..Len(q) : q[i] \in ToSet(s)  BY <1>4, <1>7 DEF ToSet
  <2> QED BY <1>6, <2>1
<1>12. \A i, j \in 1..Len(q) : i < j => q[i] < q[j]  BY <1>4, <1>7 DEF Rising
<1>13. \A j \in k + 1 .. Len(q) : ast[q[j]].kind \notin K
  <2>1. SUFFICES ASSUME NEW j \in k + 1 .. Len(q), ast[q[j]].kind \in K PROVE FALSE  OBVIOUS
  <2>2. j \in 1..Len(q) /\ k < j  BY <1>7, <1>10
  <2>3. q[k] < q[j] /\ q[j] <= m  BY <1>10, <1>11, <1>12, <2>1, <2>2
  <2> QED BY <1>8, <1>10, <2>2, <2>3
<1>14. ASSUME NEW i \in 1..Len(q), ast[q[i]].kind \in K,
              \A j \in i + 1 .. Len(q) : ast[q[j]].kind \notin K
       PROVE  i = k
  <2>1. ~(i < k)
    <3>1. i < k => k \in i + 1 .. Len(q)  BY <1>7, <1>10
    <3> QED BY <1>6, <1>10, <1>14, <3>1
  <2>2. ~(k < i)
    <3>1. k < i => i \in k + 1 .. Len(q)  BY <1>7, <1>10
    <3> QED BY <1>13, <1>14, <3>1
  <2> QED BY <1>7, <1>10, <2>1, <2>2
<1>15. PICK h : h = CHOOSE i \in DOMAIN q :
                      /\ ast[q[i]].kind \in K
                      /\ \A j \in i + 1 .. Len(q) : ast[q[j]].kind \notin K
  OBVIOUS
<1>16. h = k  BY <1>6, <1>7, <1>10, <1>13, <1>14, <1>15
<1> QED BY <1>5, <1>10, <1>15, <1>16 DEF Innermost

LEMMA InnerOnce ==
  ASSUME NEW t, NEW st, TreeOK(t, st), NEW n \in 1..Len(t), NEW K, NEW m, NEW x,
         Inner(t, st, n, K, m), Inner(t, st, n, K, x)
  PROVE  m = x
<1>1. PICK l \in Nat : l = n - 1  OBVIOUS
<1>2. l \in 0..Len(t)  BY <1>1 DEF TreeOK
<1>3. Stack(st, l) \in Seq(Nat)  BY <1>2, NatStack
<1>4. ToSet(Stack(st, l)) \subseteq Nat
  <2> DEFINE s == Stack(st, l)
  <2>1. \A i \in DOMAIN s : s[i] \in Nat  BY <1>3
  <2> QED BY <2>1 DEF ToSet
<1>5. m \in Nat /\ x \in Nat /\ m <= x /\ x <= m  BY <1>1, <1>4 DEF Inner
<1> QED BY <1>5

-----------------------------------------------------------------------------
(* Code: where a node begins, and what more code leaves as it was.           *)

Coded(c, n) == c \in Seq(Instruction) /\ \A i \in 1..Len(c) : c[i].node \in 1..n
CodeAt(c, k) == 1 + Cardinality({i \in DOMAIN c : c[i].node < k})

(* Node n + 1 adds to the code c; of what is there only targets may change.  *)
Follows(c, c2, n) ==
  /\ c2 \in Seq(Instruction) /\ Len(c) <= Len(c2)
  /\ \A i \in 1..Len(c) : c2[i].op = c[i].op /\ c2[i].node = c[i].node
  /\ \A i \in Len(c) + 1 .. Len(c2) : c2[i].node = n + 1

LEMMA CodeLength ==
  ASSUME NEW c, NEW n \in Nat, Coded(c, n), NEW k
  PROVE  /\ Len(c) \in Nat /\ DOMAIN c = 1..Len(c)
         /\ CodeAt(c, k) \in Nat /\ CodeAt(c, k) >= 1
<1> DEFINE A == {i \in 1..Len(c) : c[i].node < k}
<1>1. c \in Seq(Instruction)  BY DEF Coded
<1>2. Len(c) \in Nat /\ DOMAIN c = 1..Len(c)  BY <1>1
<1>3. IsFiniteSet(A)
  <2>1. IsFiniteSet(1..Len(c))  BY <1>2, FS_Interval
  <2> QED BY <2>1, FS_Subset
<1>4. Cardinality(A) \in Nat  BY <1>3, FS_CardinalityType
<1>5. CodeAt(c, k) = 1 + Cardinality(A)  BY <1>2 DEF CodeAt
<1> HIDE DEF A
<1>6. CodeAt(c, k) \in Nat /\ CodeAt(c, k) >= 1  BY <1>4, <1>5
<1> QED BY <1>2, <1>6

LEMMA CodeAtEnd ==
  ASSUME NEW c, NEW n \in Nat, Coded(c, n)
  PROVE  CodeAt(c, n + 1) = Len(c) + 1
<1> DEFINE A == {i \in DOMAIN c : c[i].node < n + 1}
<1>1. Len(c) \in Nat /\ DOMAIN c = 1..Len(c)  BY CodeLength
<1>2. \A i \in 1..Len(c) : c[i].node < n + 1  BY DEF Coded
<1>3. A = 1..Len(c)  BY <1>1, <1>2
<1>4. Cardinality(1..Len(c)) = Len(c)
  <2>1. PICK l \in Nat : l = Len(c)  BY <1>1
  <2>2. Cardinality(1..l) = IF 1 > l THEN 0 ELSE l - 1 + 1  BY FS_Interval
  <2> QED BY <2>1, <2>2, SMTT(30)
<1>5. CodeAt(c, n + 1) = 1 + Cardinality(A)  BY DEF CodeAt
<1> HIDE DEF A
<1> QED BY <1>1, <1>3, <1>4, <1>5

LEMMA CodeAtSame ==
  ASSUME NEW c, NEW n \in Nat, Coded(c, n), NEW c2, Follows(c, c2, n)
  PROVE  Coded(c2, n + 1) /\ \A k \in 0..n + 1 : CodeAt(c2, k) = CodeAt(c, k)
<1>1. /\ Len(c) \in Nat /\ DOMAIN c = 1..Len(c)
      /\ \A i \in 1..Len(c) : c[i].node \in 1..n
  BY CodeLength DEF Coded
<1>2. /\ c2 \in Seq(Instruction) /\ Len(c) <= Len(c2)
      /\ \A i \in 1..Len(c) : c2[i].op = c[i].op /\ c2[i].node = c[i].node
      /\ \A i \in Len(c) + 1 .. Len(c2) : c2[i].node = n + 1
  BY DEF Follows
<1>3. Len(c2) \in Nat /\ DOMAIN c2 = 1..Len(c2)  BY <1>2
<1>4. \A i \in 1..Len(c2) : i \in 1..Len(c) \/ i \in Len(c) + 1 .. Len(c2)  BY <1>1, <1>2, <1>3
<1>5. Coded(c2, n + 1)
  <2>1. SUFFICES ASSUME NEW i \in 1..Len(c2) PROVE c2[i].node \in 1..n + 1  BY <1>2 DEF Coded
  <2> QED BY <1>1, <1>2, <1>4
<1>6. ASSUME NEW k \in 0..n + 1 PROVE CodeAt(c2, k) = CodeAt(c, k)
  <2> DEFINE A == {i \in DOMAIN c : c[i].node < k}
             B == {i \in DOMAIN c2 : c2[i].node < k}
  <2>1. ASSUME NEW i \in B PROVE i \in A
    <3>1. ~(n + 1 < k)  OBVIOUS
    <3> QED BY <1>1, <1>2, <1>3, <1>4, <2>1, <3>1
  <2>2. ASSUME NEW i \in A PROVE i \in B  BY <1>1, <1>2, <1>3, <2>2
  <2>3. A = B  BY <2>1, <2>2
  <2> QED BY <2>3 DEF CodeAt
<1> QED BY <1>5, <1>6

-----------------------------------------------------------------------------
(* Where a jump goes: the code of a node, or behind the loop that node ends, *)
(* to the test of a loop, or over the next instruction.                      *)
Valued(c, n, i, how, k, v) ==
  /\ how = "at" => k \in 1..n + 1 /\ v = CodeAt(c, k)
  /\ how = "test" => k \in 1..n /\ v = CodeAt(c, k + 1) - 1
  /\ how = "behind" => /\ k \in 1..n
                       /\ \E b \in 1..Len(c) : c[b].node = k /\ c[b].op = "jump" /\ v = b + 1
  /\ how = "over" => v = i + 2

Branches(t, st, m) == {k \in 1..Len(t) : CaseIn(t, st, m, k) /\ t[k].kind = "case"}
Default(t, st, m, k) == CaseIn(t, st, m, k) /\ t[k].kind = "default"

(* What C says of the jump that stands for node x, the rank-th of the node.  *)
AimsInside(t, st, x, how, k) ==
  \/ /\ t[x].kind = "break"
     /\ \E m : /\ Inner(t, st, x, Breakable, m) /\ Shuts(t, st, m, k)
               /\ how = IF t[m].kind = "switch" THEN "at" ELSE "behind"
  \/ /\ t[x].kind = "continue" /\ how = "at"
     /\ \E m : /\ Inner(t, st, x, LoopKinds, m)
               /\ IF t[m].kind = "while" THEN k = m ELSE Shuts(t, st, m, k)
AimsStraight(t, x, how, k) ==
  \/ /\ t[x].kind = "goto" /\ how = "at"
     /\ k \in 1..Len(t) /\ t[k].kind = "label" /\ t[k].name = t[x].name
  \/ t[x].kind \in {"update", "address"} /\ how = "at" /\ k = x + 1
AimsLoop(t, st, x, op, how, k) ==
  \/ t[x].kind \in {"while", "for"} /\ how = "behind" /\ Shuts(t, st, x, k)
  \/ t[x].kind = "endwhile" /\ how = "at" /\ Shuts(t, st, k, x) /\ t[k].kind = "while"
  \/ /\ t[x].kind = "endfor" /\ Shuts(t, st, k, x) /\ t[k].kind = "for"
     /\ how = IF t[k].how = "none" THEN "at" ELSE "test"
  \/ t[x].kind = "enddo" /\ op = "jump" /\ how = "at" /\ Shuts(t, st, k, x) /\ t[k].kind = "do"
  \/ t[x].kind = "enddo" /\ op = "branch" /\ how = "over"
AimsIf(t, st, x, how, k) ==
  \/ t[x].kind = "else" /\ how = "at" /\ Shuts(t, st, x, k)
  \/ t[x].kind = "if" /\ how = "at" /\ Takes(t, st, x, k - 1)
  \/ t[x].kind = "if" /\ how = "at" /\ Shuts(t, st, x, k) /\ \A l : ~Takes(t, st, x, l)
AimsSwitch(t, st, x, op, rank, how, k) ==
  \/ /\ t[x].kind = "switch" /\ op = "branch" /\ how = "at"
     /\ k \in Branches(t, st, x) /\ Cardinality({j \in Branches(t, st, x) : j < k}) = rank
  \/ t[x].kind = "switch" /\ op = "jump" /\ how = "at" /\ Default(t, st, x, k)
  \/ /\ t[x].kind = "switch" /\ op = "jump" /\ how = "at" /\ Shuts(t, st, x, k)
     /\ \A l : ~Default(t, st, x, l)
Aims(t, st, x, op, rank, how, k) ==
  \/ AimsInside(t, st, x, how, k) \/ AimsStraight(t, x, how, k) \/ AimsLoop(t, st, x, op, how, k)
  \/ AimsIf(t, st, x, how, k) \/ AimsSwitch(t, st, x, op, rank, how, k)

Rank(c, i) == i - CodeAt(c, c[i].node)
Lands(t, st, c, n, i) ==
  \E how, k : /\ Aims(t, st, c[i].node, c[i].op, Rank(c, i), how, k)
              /\ k \in 1..Len(t) + 1 /\ Valued(c, n, i, how, k, c[i].to)

(* What has its target keeps it.                                             *)
LEMMA ValuedOn ==
  ASSUME NEW c, NEW n \in Nat, Coded(c, n), NEW c2, Follows(c, c2, n),
         NEW i, NEW how, NEW k, NEW v, Valued(c, n, i, how, k, v)
  PROVE  Valued(c2, n + 1, i, how, k, v)
<1>1. \A j \in 0..n + 1 : CodeAt(c2, j) = CodeAt(c, j)  BY CodeAtSame
<1>2. CASE how = "at"  BY <1>1, <1>2 DEF Valued
<1>3. CASE how = "test"
  <2>1. k \in 1..n /\ v = CodeAt(c, k + 1) - 1  BY <1>3 DEF Valued
  <2>2. k + 1 \in 0..n + 1 /\ k \in 1..n + 1  BY <2>1
  <2> QED BY <1>1, <1>3, <2>1, <2>2 DEF Valued
<1>4. CASE how = "behind"
  <2>1. k \in 1..n  BY <1>4 DEF Valued
  <2>2. PICK b \in 1..Len(c) : c[b].node = k /\ c[b].op = "jump" /\ v = b + 1
    BY <1>4 DEF Valued
  <2>3. Len(c) \in Nat /\ Len(c2) \in Nat /\ Len(c) <= Len(c2)
    BY CodeLength DEF Follows
  <2>4. b \in 1..Len(c2) /\ c2[b].node = k /\ c2[b].op = "jump"  BY <2>2, <2>3 DEF Follows
  <2>5. k \in 1..n + 1  BY <2>1
  <2> QED BY <1>4, <2>2, <2>4, <2>5 DEF Valued
<1>5. CASE how = "over"  BY <1>5 DEF Valued
<1>6. CASE how \notin {"at", "test", "behind", "over"}  BY <1>6 DEF Valued
<1> QED BY <1>2, <1>3, <1>4, <1>5, <1>6

LEMMA RankOn ==
  ASSUME NEW c, NEW n \in Nat, Coded(c, n), NEW c2, Follows(c, c2, n), NEW i \in 1..Len(c)
  PROVE  c2[i].node = c[i].node /\ c2[i].op = c[i].op /\ Rank(c2, i) = Rank(c, i)
<1>1. c2[i].node = c[i].node /\ c2[i].op = c[i].op /\ c[i].node \in 1..n
  BY DEF Follows, Coded
<1>2. c[i].node \in 0..n + 1  BY <1>1
<1>3. CodeAt(c2, c[i].node) = CodeAt(c, c[i].node)  BY <1>2, CodeAtSame
<1> QED BY <1>1, <1>3 DEF Rank

LEMMA LandsOn ==
  ASSUME NEW t, NEW st, NEW c, NEW n \in Nat, Coded(c, n), NEW c2, Follows(c, c2, n),
         NEW i \in 1..Len(c), Lands(t, st, c, n, i), c2[i].to = c[i].to
  PROVE  Lands(t, st, c2, n + 1, i)
<1>1. PICK how, k : /\ Aims(t, st, c[i].node, c[i].op, Rank(c, i), how, k)
                    /\ k \in 1..Len(t) + 1 /\ Valued(c, n, i, how, k, c[i].to)
  BY DEF Lands
<1>2. Valued(c2, n + 1, i, how, k, c[i].to)  BY <1>1, ValuedOn
<1>3. c2[i].node = c[i].node /\ c2[i].op = c[i].op /\ Rank(c2, i) = Rank(c, i)  BY RankOn
<1> QED BY <1>1, <1>2, <1>3 DEF Lands

-----------------------------------------------------------------------------
(* At the end of the function, what has landed is at its destination.        *)

OneDefault(t) ==
  \A k, l \in 1..Len(t) :
    t[k].kind = "default" /\ t[l].kind = "default" /\ t[k].within = t[l].within => k = l
OneLabel(t) ==
  \A k, l \in 1..Len(t) :
    t[k].kind = "label" /\ t[l].kind = "label" /\ t[k].name = t[l].name => k = l
OneBack(t, c) ==
  \A a, b \in 1..Len(c) :
    (/\ c[a].op = "jump" /\ c[b].op = "jump" /\ c[a].node = c[b].node
     /\ t[c[a].node].kind \in {"endwhile", "enddo", "endfor"}) => a = b

Generated(st) ==
  /\ Complete(st) /\ Coded(code, Len(ast))
  /\ OneDefault(ast) /\ OneLabel(ast) /\ OneBack(ast, code)

(* What C says of a jump, kind by kind.                                      *)
LEMMA DestinationInside ==
  ASSUME NEW i, NEW x, x = code[i].node
  PROVE  /\ ast[x].kind = "break" => Destination(i) = ExitOf(Innermost(x, LoopKinds \cup {"switch"}))
         /\ ast[x].kind = "continue" => Destination(i) = AgainOf(Innermost(x, LoopKinds))
         /\ ast[x].kind = "goto" =>
              Destination(i) = CodeOf(CHOOSE k \in LabelNodes(ast[x].name) : TRUE)
         /\ ast[x].kind \in {"update", "address"} => Destination(i) = CodeOf(x + 1)
<1>1. ASSUME ast[x].kind = "break"
      PROVE  Destination(i) = ExitOf(Innermost(x, LoopKinds \cup {"switch"}))
  BY <1>1 DEF Destination
<1>2. ASSUME ast[x].kind = "continue" PROVE Destination(i) = AgainOf(Innermost(x, LoopKinds))
  BY <1>2 DEF Destination
<1>3. ASSUME ast[x].kind = "goto"
      PROVE  Destination(i) = CodeOf(CHOOSE k \in LabelNodes(ast[x].name) : TRUE)
  BY <1>3 DEF Destination
<1>4. ASSUME ast[x].kind \in {"update", "address"} PROVE Destination(i) = CodeOf(x + 1)
  BY <1>4 DEF Destination
<1> QED BY <1>1, <1>2, <1>3, <1>4

LEMMA DestinationLoop ==
  ASSUME NEW i, NEW x, x = code[i].node
  PROVE  /\ ast[x].kind \in {"while", "for"} => Destination(i) = ExitOf(x)
         /\ ast[x].kind = "endwhile" => Destination(i) = TestOf(OpenerOf(x, "while"))
         /\ ast[x].kind = "endfor" => Destination(i) = TestOf(OpenerOf(x, "for"))
         /\ ast[x].kind = "enddo" =>
              Destination(i) = IF code[i].op = "jump" THEN CodeOf(OpenerOf(x, "do")) ELSE i + 2
<1>1. ASSUME ast[x].kind \in {"while", "for"} PROVE Destination(i) = ExitOf(x)
  BY <1>1 DEF Destination
<1>2. ASSUME ast[x].kind = "endwhile" PROVE Destination(i) = TestOf(OpenerOf(x, "while"))
  BY <1>2 DEF Destination
<1>3. ASSUME ast[x].kind = "endfor" PROVE Destination(i) = TestOf(OpenerOf(x, "for"))
  BY <1>3 DEF Destination
<1>4. ASSUME ast[x].kind = "enddo"
      PROVE  Destination(i) = IF code[i].op = "jump" THEN CodeOf(OpenerOf(x, "do")) ELSE i + 2
  BY <1>4 DEF Destination
<1> QED BY <1>1, <1>2, <1>3, <1>4

CaseNodes(x) == {k \in CasesOf(x) : ast[k].kind = "case"}
RankedAs(S, r) == CHOOSE a \in S : Cardinality({j \in S : j < a}) = r
OneOf(S, T) == CHOOSE a \in S : a \notin T

LEMMA DestinationIf ==
  ASSUME NEW i, NEW x, x = code[i].node
  PROVE  /\ ast[x].kind = "else" => Destination(i) = CodeOf(EndOf(x))
         /\ ast[x].kind = "if" =>
              Destination(i) = CodeOf(IF ElseOf(x) = {} THEN EndOf(x)
                                      ELSE 1 + CHOOSE k \in ElseOf(x) : TRUE)
<1>1. ASSUME ast[x].kind = "else" PROVE Destination(i) = CodeOf(EndOf(x))
  BY <1>1 DEF Destination
<1>2. ASSUME ast[x].kind = "if"
      PROVE  Destination(i) = CodeOf(IF ElseOf(x) = {} THEN EndOf(x)
                                     ELSE 1 + CHOOSE k \in ElseOf(x) : TRUE)
  BY <1>2 DEF Destination
<1> QED BY <1>1, <1>2

LEMMA DestinationSwitch ==
  ASSUME NEW i, NEW x, x = code[i].node, ast[x].kind = "switch",
         NEW r, r = i - CodeOf(x), NEW cases, cases = CaseNodes(x)
  PROVE  /\ code[i].op = "branch" => Destination(i) = CodeOf(RankedAs(cases, r))
         /\ code[i].op # "branch" /\ cases # CasesOf(x) =>
              Destination(i) = CodeOf(OneOf(CasesOf(x), cases))
         /\ code[i].op # "branch" /\ cases = CasesOf(x) => Destination(i) = ExitOf(x)
<1>1. Destination(i) =
        IF code[i].op = "branch"
        THEN CodeOf(RankedAs(cases, i - CodeOf(x)))
        ELSE IF cases # CasesOf(x) THEN CodeOf(OneOf(CasesOf(x), cases))
        ELSE ExitOf(x)
  BY DEF Destination, RankedAs, OneOf, CaseNodes
<1> QED BY <1>1

LEMMA CodeOfIs ==
  ASSUME NEW k
  PROVE  CodeOf(k) = CodeAt(code, k)
  BY DEF CodeOf, CodeAt

(* What shuts a construct is the end of its kind.                            *)
LEMMA ShutBy ==
  ASSUME NEW t, NEW st, TreeOK(t, st), NEW m, NEW e, Shuts(t, st, m, e),
         t[m].kind \in Constructs \ {"if"}
  PROVE  t[e].kind \in Ends /\ t[m].kind \in Closes(t[e].kind)
<1>1. m \in 1..Len(t) /\ e \in m + 1 .. Len(t) /\ Len(t) \in Nat  BY DEF Shuts, TreeOK
<1>2. PICK l \in Nat : l = e - 1  BY <1>1
<1>3. l \in 0..Len(t) - 1 /\ l + 1 = e /\ l \in m..e - 1 /\ l \in 0..Len(t) /\ m \in 0..Len(t)
  BY <1>1, <1>2
<1>4. Level(st, l + 1) = Level(st, m) - 1 /\ Level(st, l) >= Level(st, m)
  BY <1>3 DEF Shuts
<1>5. PICK kind : kind = t[l + 1].kind  OBVIOUS
<1>6. /\ Level(st, l) \in Nat
      /\ kind \in Openers \/ kind = "else" \/ kind \in Ends \/ kind \in Leaves
      /\ kind \in Openers => Level(st, l + 1) = Level(st, l) + 1
      /\ kind = "else" => Level(st, l + 1) = Level(st, l)
      /\ kind \in Ends => /\ Level(st, l + 1) = Level(st, l) - 1
                          /\ t[Stack(st, l)[Level(st, l)]].kind \in Closes(kind)
      /\ kind \in Leaves => Stack(st, l + 1) = Stack(st, l)
  BY <1>3, <1>5, LevelNext
<1>7. Stack(st, l + 1) = Stack(st, l) => Level(st, l + 1) = Level(st, l)  BY DEF Level
<1>8. Level(st, m) \in Nat  BY <1>3, LevelNat
<1>9. kind \in Ends  BY <1>4, <1>6, <1>7, <1>8
<1>10. Level(st, l) = Level(st, m)  BY <1>4, <1>6, <1>8, <1>9
<1>11. PICK p : p = Level(st, m)  OBVIOUS
<1>12. \A k \in m..e - 1 :
         LET x == Stack(st, k)[p]
         IN  x = m \/ (t[m].kind = "if" /\ t[x].kind = "else" /\ x \in m + 1 .. k)
  BY <1>11, Between
<1>13. Stack(st, l)[Level(st, l)] = m  BY <1>3, <1>10, <1>11, <1>12
<1> QED BY <1>3, <1>5, <1>6, <1>9, <1>13

LEMMA ExitIs ==
  ASSUME NEW st, Generated(st), NEW m, NEW e, Shuts(ast, st, m, e), ast[m].kind \in Breakable,
         NEW i, NEW v, NEW how,
         how = (IF ast[m].kind = "switch" THEN "at" ELSE "behind"),
         Valued(code, Len(ast), i, how, e, v)
  PROVE  v = ExitOf(m)
<1>1. EndOf(m) = e
  <2>1. ast[m].kind \in Ended \cup {"else"}  BY DEF Breakable, LoopKinds, Ended
  <2> QED BY <2>1, EndIs DEF Generated, Complete
<1>2. CASE ast[m].kind = "switch"
  <2>1. v = CodeAt(code, e)  BY <1>2 DEF Valued
  <2> QED BY <1>1, <1>2, <2>1, CodeOfIs DEF ExitOf
<1>3. CASE ast[m].kind # "switch"
  <2>1. PICK b \in 1..Len(code) : code[b].node = e /\ code[b].op = "jump" /\ v = b + 1
    BY <1>3 DEF Valued
  <2>2. DOMAIN code = 1..Len(code)
    <3>1. code \in Seq(Instruction)  BY DEF Generated, Coded
    <3> QED BY <3>1
  <2>3. ast[e].kind \in {"endwhile", "enddo", "endfor"}
    <3>1. ast[m].kind \in Constructs \ {"if"}
      BY DEF Breakable, LoopKinds, Constructs, Openers, Scoped
    <3>2. ast[e].kind \in Ends /\ ast[m].kind \in Closes(ast[e].kind)
      BY <3>1, ShutBy DEF Generated, Complete
    <3>3. ast[m].kind \in {"while", "do", "for"}  BY <1>3 DEF Breakable, LoopKinds
    <3> QED BY <3>2, <3>3 DEF Closes, Ends
  <2>4. Backward(e) = b
    <3>1. \A a \in DOMAIN code : code[a].node = e /\ code[a].op = "jump" => a = b
      BY <2>1, <2>2, <2>3 DEF Generated, OneBack
    <3> QED BY <2>1, <2>2, <3>1 DEF Backward
  <2> QED BY <1>1, <1>3, <2>1, <2>4 DEF ExitOf
<1> QED BY <1>2, <1>3

-----------------------------------------------------------------------------
LEMMA AtIs ==
  ASSUME NEW n, NEW i, NEW how, NEW k, NEW v, Valued(code, n, i, how, k, v), how = "at"
  PROVE  v = CodeOf(k)
  BY CodeOfIs DEF Valued

LEMMA ArrivesInside ==
  ASSUME NEW st, Generated(st), NEW i, NEW x \in 1..Len(ast), x = code[i].node, NEW how, NEW k,
         NEW v, AimsInside(ast, st, x, how, k), Valued(code, Len(ast), i, how, k, v)
  PROVE  v = Destination(i)
<1>1. TreeOK(ast, st)  BY DEF Generated, Complete
<1>2. LoopKinds \in SUBSET Scoped /\ Breakable \in SUBSET Scoped
      /\ Breakable = LoopKinds \cup {"switch"}
  BY DEF Breakable, Scoped, LoopKinds
<1>3. CASE ast[x].kind = "break"
  <2>1. PICK m : /\ Inner(ast, st, x, Breakable, m) /\ Shuts(ast, st, m, k)
                 /\ how = IF ast[m].kind = "switch" THEN "at" ELSE "behind"
    BY <1>3 DEF AimsInside
  <2>2. ast[x].kind \in Leaves  BY <1>3 DEF Leaves
  <2>3. Innermost(x, Breakable) = m  BY <1>1, <1>2, <2>1, <2>2, InnermostIs
  <2>4. ast[m].kind \in Breakable  BY <2>1 DEF Inner
  <2>5. v = ExitOf(m)  BY <2>1, <2>4, ExitIs
  <2>6. Destination(i) = ExitOf(Innermost(x, LoopKinds \cup {"switch"}))
    BY <1>3, DestinationInside
  <2> QED BY <1>2, <2>3, <2>5, <2>6
<1>4. CASE ast[x].kind = "continue"
  <2>1. PICK m : /\ Inner(ast, st, x, LoopKinds, m)
                 /\ IF ast[m].kind = "while" THEN k = m ELSE Shuts(ast, st, m, k)
    BY <1>4 DEF AimsInside
  <2>2. ast[x].kind \in Leaves  BY <1>4 DEF Leaves
  <2>3. Innermost(x, LoopKinds) = m  BY <1>1, <1>2, <2>1, <2>2, InnermostIs
  <2>4. ast[m].kind \in LoopKinds  BY <2>1 DEF Inner
  <2>5. v = CodeOf(k)
    <3>1. how = "at"  BY <1>4 DEF AimsInside
    <3> QED BY <3>1, AtIs
  <2>6. ast[m].kind # "while" => EndOf(m) = k
    <3>1. ast[m].kind \in Ended \cup {"else"}  BY <2>4 DEF LoopKinds, Ended
    <3> QED BY <1>1, <2>1, <3>1, EndIs
  <2>7. v = AgainOf(m)  BY <2>1, <2>5, <2>6 DEF AgainOf
  <2>8. Destination(i) = AgainOf(Innermost(x, LoopKinds))  BY <1>4, DestinationInside
  <2> QED BY <2>3, <2>7, <2>8
<1> QED BY <1>3, <1>4 DEF AimsInside

LEMMA ArrivesStraight ==
  ASSUME NEW st, Generated(st), NEW i, NEW x \in 1..Len(ast), x = code[i].node, NEW how, NEW k,
         NEW v, AimsStraight(ast, x, how, k), Valued(code, Len(ast), i, how, k, v)
  PROVE  v = Destination(i)
<1>1. v = CodeOf(k)
  <2>1. how = "at"  BY DEF AimsStraight
  <2> QED BY <2>1, AtIs
<1>2. CASE ast[x].kind = "goto"
  <2>1. k \in 1..Len(ast) /\ ast[k].kind = "label" /\ ast[k].name = ast[x].name
    BY <1>2 DEF AimsStraight
  <2>2. PICK l : l = CHOOSE j \in LabelNodes(ast[x].name) : TRUE  OBVIOUS
  <2>3. DOMAIN ast = 1..Len(ast)
    <3>1. ast \in Seq(NodeType)  BY DEF Generated, Complete, TreeOK
    <3> QED BY <3>1
  <2>4. k \in LabelNodes(ast[x].name)  BY <2>1, <2>3 DEF LabelNodes
  <2>5. l \in LabelNodes(ast[x].name)  BY <2>2, <2>4
  <2>6. l = k  BY <2>1, <2>3, <2>5 DEF LabelNodes, Generated, OneLabel
  <2>7. Destination(i) = CodeOf(CHOOSE j \in LabelNodes(ast[x].name) : TRUE)
    BY <1>2, DestinationInside
  <2> QED BY <1>1, <2>2, <2>6, <2>7
<1>3. CASE ast[x].kind \in {"update", "address"}
  <2>1. k = x + 1  BY <1>3 DEF AimsStraight
  <2>2. Destination(i) = CodeOf(x + 1)  BY <1>3, DestinationInside
  <2> QED BY <1>1, <2>1, <2>2
<1> QED BY <1>2, <1>3 DEF AimsStraight

LEMMA ArrivesLoop ==
  ASSUME NEW st, Generated(st), NEW i, NEW x \in 1..Len(ast), x = code[i].node, NEW how, NEW k,
         NEW v, AimsLoop(ast, st, x, code[i].op, how, k), Valued(code, Len(ast), i, how, k, v)
  PROVE  v = Destination(i)
<1>1. TreeOK(ast, st) /\ Complete(st)  BY DEF Generated, Complete
<1>2. ASSUME NEW kind \in {"while", "do", "for"}, ast[k].kind = kind, Shuts(ast, st, k, x)
      PROVE  OpenerOf(x, kind) = k
  <2>1. kind \in Ended  BY DEF Ended
  <2> QED BY <1>1, <1>2, <2>1, OpenerIs
<1>3. CASE ast[x].kind \in {"while", "for"}
  <2>1. how = "behind" /\ Shuts(ast, st, x, k)  BY <1>3 DEF AimsLoop
  <2>2. ast[x].kind \in Breakable /\ how = IF ast[x].kind = "switch" THEN "at" ELSE "behind"
    BY <1>3, <2>1 DEF Breakable, LoopKinds
  <2>3. v = ExitOf(x)  BY <2>1, <2>2, ExitIs
  <2>4. Destination(i) = ExitOf(x)  BY <1>3, DestinationLoop
  <2> QED BY <2>3, <2>4
<1>4. CASE ast[x].kind = "endwhile"
  <2>1. how = "at" /\ Shuts(ast, st, k, x) /\ ast[k].kind = "while"  BY <1>4 DEF AimsLoop
  <2>2. v = CodeOf(k)  BY <2>1, AtIs
  <2>3. OpenerOf(x, "while") = k  BY <1>2, <2>1
  <2>4. TestOf(k) = CodeOf(k)  BY <2>1 DEF TestOf
  <2>5. Destination(i) = TestOf(OpenerOf(x, "while"))  BY <1>4, DestinationLoop
  <2> QED BY <2>2, <2>3, <2>4, <2>5
<1>5. CASE ast[x].kind = "endfor"
  <2>1. /\ Shuts(ast, st, k, x) /\ ast[k].kind = "for"
        /\ how = IF ast[k].how = "none" THEN "at" ELSE "test"
    BY <1>5 DEF AimsLoop
  <2>2. v = TestOf(k)
    <3>1. CASE ast[k].how = "none"
      <4>1. v = CodeOf(k)  BY <2>1, <3>1, AtIs
      <4> QED BY <3>1, <4>1 DEF TestOf
    <3>2. CASE ast[k].how # "none"
      <4>1. v = CodeAt(code, k + 1) - 1  BY <2>1, <3>2 DEF Valued
      <4>2. CodeOf(k + 1) = CodeAt(code, k + 1)  BY CodeOfIs
      <4> QED BY <2>1, <3>2, <4>1, <4>2 DEF TestOf
    <3> QED BY <3>1, <3>2
  <2>3. OpenerOf(x, "for") = k  BY <1>2, <2>1
  <2>4. Destination(i) = TestOf(OpenerOf(x, "for"))  BY <1>5, DestinationLoop
  <2> QED BY <2>2, <2>3, <2>4
<1>6. CASE ast[x].kind = "enddo"
  <2>1. Destination(i) = IF code[i].op = "jump" THEN CodeOf(OpenerOf(x, "do")) ELSE i + 2
    BY <1>6, DestinationLoop
  <2>2. CASE code[i].op = "jump"
    <3>1. how = "at" /\ Shuts(ast, st, k, x) /\ ast[k].kind = "do"  BY <1>6, <2>2 DEF AimsLoop
    <3>2. v = CodeOf(k)  BY <3>1, AtIs
    <3>3. OpenerOf(x, "do") = k  BY <1>2, <3>1
    <3> QED BY <2>1, <2>2, <3>2, <3>3
  <2>3. CASE code[i].op # "jump"
    <3>1. how = "over"  BY <1>6, <2>3 DEF AimsLoop
    <3>2. v = i + 2  BY <3>1 DEF Valued
    <3> QED BY <2>1, <2>3, <3>2
  <2> QED BY <2>2, <2>3
<1> QED BY <1>3, <1>4, <1>5, <1>6 DEF AimsLoop

LEMMA ArrivesIf ==
  ASSUME NEW st, Generated(st), NEW i, NEW x \in 1..Len(ast), x = code[i].node, NEW how,
         NEW k \in Nat, NEW v, AimsIf(ast, st, x, how, k), Valued(code, Len(ast), i, how, k, v)
  PROVE  v = Destination(i)
<1>1. TreeOK(ast, st) /\ Complete(st)  BY DEF Generated, Complete
<1>2. v = CodeOf(k)
  <2>1. how = "at"  BY DEF AimsIf
  <2> QED BY <2>1, AtIs
<1>3. CASE ast[x].kind = "else"
  <2>1. Shuts(ast, st, x, k)  BY <1>3 DEF AimsIf
  <2>2. EndOf(x) = k  BY <1>1, <1>3, <2>1, EndIs
  <2>3. Destination(i) = CodeOf(EndOf(x))  BY <1>3, DestinationIf
  <2> QED BY <1>2, <2>2, <2>3
<1>4. CASE ast[x].kind = "if"
  <2>1. Destination(i) = CodeOf(IF ElseOf(x) = {} THEN EndOf(x)
                                ELSE 1 + CHOOSE l \in ElseOf(x) : TRUE)
    BY <1>4, DestinationIf
  <2>2. \A l : l \in ElseOf(x) <=> Takes(ast, st, x, l)  BY <1>1, <1>4, ElseIs
  <2>3. CASE \E l : Takes(ast, st, x, l)
    <3>1. Takes(ast, st, x, k - 1)  BY <1>4, <2>3 DEF AimsIf
    <3>2. PICK l : l = CHOOSE j \in ElseOf(x) : TRUE  OBVIOUS
    <3>3. ElseOf(x) # {} /\ Takes(ast, st, x, l)  BY <2>2, <3>1, <3>2
    <3>4. l \in Nat /\ k - 1 \in Nat  BY <3>1, <3>3 DEF Takes
    <3>5. ~(l < k - 1) /\ ~(k - 1 < l)  BY <1>1, <3>1, <3>3, TakesOnce
    <3>6. 1 + l = k  BY <3>4, <3>5
    <3> QED BY <1>2, <2>1, <3>2, <3>3, <3>6
  <2>4. CASE \A l : ~Takes(ast, st, x, l)
    <3>1. Shuts(ast, st, x, k)  BY <1>4, <2>4 DEF AimsIf
    <3>2. ast[x].kind \in Ended  BY <1>4 DEF Ended
    <3>3. EndOf(x) = k  BY <1>1, <3>1, <3>2, EndIs
    <3>4. ElseOf(x) = {}  BY <2>2, <2>4
    <3> QED BY <1>2, <2>1, <3>3, <3>4
  <2> QED BY <2>3, <2>4
<1> QED BY <1>3, <1>4 DEF AimsIf

-----------------------------------------------------------------------------
(* The members of a set of nodes by their rank.                              *)
RankIn(S, k) == Cardinality({j \in S : j < k})

LEMMA RankNext ==
  ASSUME NEW N \in Nat, NEW S \in SUBSET (1..N), NEW k \in Nat
  PROVE  /\ RankIn(S, k) \in Nat
         /\ RankIn(S, k + 1) = RankIn(S, k) + (IF k \in S THEN 1 ELSE 0)
<1> DEFINE A == {j \in S : j < k}
           B == {j \in S : j < k + 1}
<1>0. \A j \in S : j \in Nat  OBVIOUS
<1>1. IsFiniteSet(A)
  <2>1. IsFiniteSet(1..N)  BY FS_Interval
  <2>2. A \in SUBSET (1..N)  OBVIOUS
  <2> QED BY <2>1, <2>2, FS_Subset
<1>2. Cardinality(A) \in Nat  BY <1>1, FS_CardinalityType
<1>3. k \in S => B = A \cup {k} /\ k \notin A
  <2>1. ASSUME k \in S, NEW j \in B PROVE j \in A \cup {k}  BY <1>0, <2>1
  <2>2. ASSUME k \in S, NEW j \in A PROVE j \in B  BY <1>0, <2>2
  <2>3. k \in S => k \in B /\ k \notin A  BY <1>0
  <2> HIDE DEF A, B
  <2> QED BY <2>1, <2>2, <2>3
<1>4. k \notin S => B = A
  <2>1. ASSUME k \notin S, NEW j \in B PROVE j \in A  BY <1>0, <2>1
  <2>2. ASSUME NEW j \in A PROVE j \in B  BY <1>0, <2>2
  <2> QED BY <2>1, <2>2
<1>5. k \in S => Cardinality(B) = Cardinality(A) + 1
  <2>1. k \notin A => Cardinality(A \cup {k}) = Cardinality(A) + 1
    <3> HIDE DEF A
    <3> QED BY <1>1, FS_AddElement
  <2> QED BY <1>3, <2>1
<1>6. RankIn(S, k) = Cardinality(A) /\ RankIn(S, k + 1) = Cardinality(B)  BY DEF RankIn
<1> HIDE DEF A, B
<1> QED BY <1>2, <1>4, <1>5, <1>6

LEMMA RankEnds ==
  ASSUME NEW N \in Nat, NEW S \in SUBSET (1..N)
  PROVE  RankIn(S, 0) = 0 /\ RankIn(S, N + 1) = Cardinality(S) /\ Cardinality(S) \in Nat
<1>0. \A j \in S : j \in Nat /\ j < N + 1  OBVIOUS
<1>1. {j \in S : j < 0} = {}
  <2>1. ASSUME NEW j \in S PROVE ~(j < 0)  BY <1>0
  <2> QED BY <2>1
<1>2. {j \in S : j < N + 1} = S  BY <1>0
<1>3. Cardinality(S) \in Nat
  <2>1. IsFiniteSet(1..N)  BY FS_Interval
  <2>2. IsFiniteSet(S)  BY <2>1, FS_Subset
  <2> QED BY <2>2, FS_CardinalityType
<1> QED BY <1>1, <1>2, <1>3, FS_EmptySet DEF RankIn

LEMMA RankExists ==
  ASSUME NEW N \in Nat, NEW S \in SUBSET (1..N), NEW r \in Nat, r < Cardinality(S)
  PROVE  \E k \in S : RankIn(S, k) = r
<1> DEFINE T == {k \in Nat : RankIn(S, k) > r}
<1>1. N + 1 \in T  BY RankEnds
<1>2. PICK x \in T : \A y \in T : x <= y
  <2>1. T \in SUBSET Nat /\ T # {}  BY <1>1
  <2> HIDE DEF T
  <2> QED BY <2>1, Least
<1>3. x # 0  BY RankEnds
<1>4. PICK k \in Nat : k + 1 = x  BY <1>3
<1>5. k \notin T
  <2>1. SUFFICES ASSUME k \in T PROVE FALSE  OBVIOUS
  <2>2. x <= k  BY <1>2, <2>1
  <2> QED BY <1>4, <2>2
<1>6. /\ RankIn(S, k) \in Nat
      /\ RankIn(S, k + 1) = RankIn(S, k) + (IF k \in S THEN 1 ELSE 0)
  BY RankNext
<1>7. RankIn(S, k + 1) > r /\ ~(RankIn(S, k) > r)  BY <1>4, <1>5
<1>8. k \in S /\ RankIn(S, k) = r  BY <1>6, <1>7
<1> QED BY <1>8

LEMMA RankRises ==
  ASSUME NEW N \in Nat, NEW S \in SUBSET (1..N), NEW k \in S, NEW l \in S, k < l
  PROVE  RankIn(S, k) < RankIn(S, l)
<1> DEFINE A == {j \in S : j < k + 1}
           B == {j \in S : j < l}
<1>1. IsFiniteSet(B)
  <2>1. IsFiniteSet(1..N)  BY FS_Interval
  <2>2. B \in SUBSET (1..N)  OBVIOUS
  <2> QED BY <2>1, <2>2, FS_Subset
<1>0. \A j \in S : j \in Nat  OBVIOUS
<1>2. A \in SUBSET B
  <2>1. ASSUME NEW j \in A PROVE j \in B  BY <1>0, <2>1
  <2> QED BY <2>1
<1>3. IsFiniteSet(A) /\ Cardinality(A) <= Cardinality(B)
  <2> HIDE DEF A, B
  <2> QED BY <1>1, <1>2, FS_Subset
<1>4. Cardinality(A) \in Nat /\ Cardinality(B) \in Nat  BY <1>1, <1>3, FS_CardinalityType
<1>5. RankIn(S, k + 1) = Cardinality(A) /\ RankIn(S, l) = Cardinality(B)  BY DEF RankIn
<1>6. k \in Nat  OBVIOUS
<1>7. RankIn(S, k) \in Nat /\ RankIn(S, k + 1) = RankIn(S, k) + 1  BY <1>6, RankNext
<1> HIDE DEF A, B
<1> QED BY <1>3, <1>4, <1>5, <1>7

LEMMA RankOnce ==
  ASSUME NEW N \in Nat, NEW S \in SUBSET (1..N), NEW k \in S, NEW l \in S,
         RankIn(S, k) = RankIn(S, l)
  PROVE  k = l
<1>1. k \in Nat /\ l \in Nat  OBVIOUS
<1>2. RankIn(S, k) \in Nat /\ RankIn(S, l) \in Nat  BY <1>1, RankNext
<1>3. ~(k < l)
  <2>1. k < l => RankIn(S, k) < RankIn(S, l)  BY RankRises
  <2> QED BY <1>2, <2>1
<1>4. ~(l < k)
  <2>1. l < k => RankIn(S, l) < RankIn(S, k)  BY RankRises
  <2> QED BY <1>2, <2>1
<1> QED BY <1>1, <1>3, <1>4

LEMMA ArrivesSwitch ==
  ASSUME NEW st, Generated(st), NEW i, NEW x \in 1..Len(ast), x = code[i].node, NEW how, NEW k,
         NEW v, AimsSwitch(ast, st, x, code[i].op, Rank(code, i), how, k),
         Valued(code, Len(ast), i, how, k, v)
  PROVE  v = Destination(i)
<1>1. TreeOK(ast, st) /\ Complete(st) /\ Len(ast) \in Nat  BY DEF Generated, Complete, TreeOK
<1>2. ast[x].kind = "switch" /\ how = "at"  BY DEF AimsSwitch
<1>3. v = CodeOf(k)  BY <1>2, AtIs
<1>4. PICK cases : cases = CaseNodes(x)  OBVIOUS
<1>20. PICK r : r = i - CodeOf(x)  OBVIOUS
<1>5. /\ code[i].op = "branch" => Destination(i) = CodeOf(RankedAs(cases, r))
      /\ code[i].op # "branch" /\ cases # CasesOf(x) =>
           Destination(i) = CodeOf(OneOf(CasesOf(x), cases))
      /\ code[i].op # "branch" /\ cases = CasesOf(x) => Destination(i) = ExitOf(x)
  BY <1>2, <1>4, <1>20, DestinationSwitch
<1>6. \A l : l \in CasesOf(x) <=> CaseIn(ast, st, x, l)  BY <1>1, <1>2, CasesAre
<1>7. cases = Branches(ast, st, x)
  <2>1. \A l : l \in cases <=> CaseIn(ast, st, x, l) /\ ast[l].kind = "case"  BY <1>4, <1>6 DEF CaseNodes
  <2>2. \A l : l \in Branches(ast, st, x) <=> CaseIn(ast, st, x, l) /\ ast[l].kind = "case"
    BY DEF Branches, CaseIn
  <2> QED BY <2>1, <2>2
<1>8. \A l : (l \in CasesOf(x) /\ l \notin cases) <=> Default(ast, st, x, l)
  BY <1>4, <1>6 DEF Default, CaseIn, CaseKinds, CaseNodes
<1>9. CASE code[i].op = "branch"
  <2>1. k \in cases /\ Cardinality({j \in cases : j < k}) = Rank(code, i)
    BY <1>2, <1>7, <1>9 DEF AimsSwitch
  <2>2. Rank(code, i) = r  BY <1>20, CodeOfIs DEF Rank
  <2>3. PICK l : l = RankedAs(cases, r)
    OBVIOUS
  <2>4. l \in cases /\ Cardinality({j \in cases : j < l}) = r
    BY <2>1, <2>2, <2>3 DEF RankedAs
  <2>5. RankIn(cases, l) = RankIn(cases, k)  BY <2>1, <2>2, <2>4 DEF RankIn
  <2>6. cases \in SUBSET (1..Len(ast))  BY <1>7 DEF Branches
  <2>7. l = k  BY <1>1, <2>1, <2>4, <2>5, <2>6, RankOnce
  <2> QED BY <1>3, <1>5, <1>9, <2>3, <2>7
<1>10. CASE code[i].op # "branch" /\ \E l : Default(ast, st, x, l)
  <2>1. Default(ast, st, x, k)  BY <1>2, <1>10 DEF AimsSwitch
  <2>2. PICK l : l = OneOf(CasesOf(x), cases)  OBVIOUS
  <2>3. Default(ast, st, x, l) /\ cases # CasesOf(x)  BY <1>8, <2>1, <2>2, SMTT(30) DEF OneOf
  <2>4. k = l
    <3>1. ASSUME NEW j, Default(ast, st, x, j)
          PROVE  j \in 1..Len(ast) /\ ast[j].kind = "default" /\ ast[j].within = Append(ast[x].within, x)
      <4>1. CaseIn(ast, st, x, j) /\ ast[j].kind = "default" /\ j \in 1..Len(ast)
            /\ ast[j].kind \in CaseKinds
        BY <3>1 DEF Default, CaseIn
      <4>2. ast[j].within = Append(ast[x].within, x)  BY <1>1, <1>2, <4>1, CaseWithin
      <4> QED BY <4>1, <4>2
    <3>2. OneDefault(ast)  BY DEF Generated
    <3>3. /\ k \in 1..Len(ast) /\ ast[k].kind = "default" /\ ast[k].within = Append(ast[x].within, x)
          /\ l \in 1..Len(ast) /\ ast[l].kind = "default" /\ ast[l].within = Append(ast[x].within, x)
      BY <2>1, <2>3, <3>1
    <3> QED BY <3>2, <3>3 DEF OneDefault
  <2> QED BY <1>3, <1>5, <1>10, <2>2, <2>3, <2>4
<1>11. CASE code[i].op # "branch" /\ \A l : ~Default(ast, st, x, l)
  <2>1. Shuts(ast, st, x, k)  BY <1>2, <1>11 DEF AimsSwitch
  <2>2. cases = CasesOf(x)
    <3>1. \A l \in CasesOf(x) : l \in cases  BY <1>8, <1>11
    <3> QED BY <1>4, <3>1 DEF CaseNodes
  <2>3. v = ExitOf(x)
    <3>1. ast[x].kind \in Breakable  BY <1>2 DEF Breakable
    <3> QED BY <1>2, <2>1, <3>1, ExitIs
  <2> QED BY <1>5, <1>11, <2>2, <2>3
<1> QED BY <1>9, <1>10, <1>11

(* What has landed when all is emitted is where C says.                      *)
LEMMA Arrives ==
  ASSUME NEW st, Generated(st), NEW i \in 1..Len(code), Lands(ast, st, code, Len(ast), i)
  PROVE  code[i].to = Destination(i)
<1>1. PICK x : x = code[i].node  OBVIOUS
<1>2. PICK how, k : /\ Aims(ast, st, x, code[i].op, Rank(code, i), how, k)
                    /\ k \in 1..Len(ast) + 1 /\ Valued(code, Len(ast), i, how, k, code[i].to)
  BY <1>1 DEF Lands
<1>3. x \in 1..Len(ast)  BY <1>1 DEF Generated, Coded
<1>4. k \in Nat
  <2>1. Len(ast) \in Nat  BY DEF Generated, Complete, TreeOK
  <2> QED BY <1>2, <2>1
<1>5. \/ AimsInside(ast, st, x, how, k) \/ AimsStraight(ast, x, how, k)
      \/ AimsLoop(ast, st, x, code[i].op, how, k) \/ AimsIf(ast, st, x, how, k)
      \/ AimsSwitch(ast, st, x, code[i].op, Rank(code, i), how, k)
  BY <1>2 DEF Aims
<1> QED
  BY <1>1, <1>2, <1>3, <1>4, <1>5, ArrivesInside, ArrivesStraight, ArrivesLoop, ArrivesIf,
     ArrivesSwitch

-----------------------------------------------------------------------------
(* The open constructs of some kinds, as a set.                              *)
On(t, st, n, K) == {x \in ToSet(Stack(st, n)) : t[x].kind \in K}

LEMMA OnNext ==
  ASSUME NEW t, NEW st, TreeOK(t, st), NEW n \in 0..Len(t) - 1, NEW kind, kind = t[n + 1].kind,
         NEW K \in {Breakable, LoopKinds}
  PROVE  /\ n \in Nat /\ \A x \in ToSet(Stack(st, n)) : x \in 1..n
         /\ kind \in K => On(t, st, n + 1, K) = On(t, st, n, K) \cup {n + 1}
         /\ kind \notin K /\ (kind \in Ends => Closes(kind) \cap K = {}) =>
              On(t, st, n + 1, K) = On(t, st, n, K)
         /\ kind \in Ends =>
              \E top : /\ top = Stack(st, n)[Level(st, n)] /\ t[top].kind \in Closes(kind)
                       /\ top \in ToSet(Stack(st, n)) /\ Shuts(t, st, top, n + 1)
                       /\ \A x \in ToSet(Stack(st, n)) : x <= top
                       /\ On(t, st, n + 1, K) = On(t, st, n, K) \ {top}
<1> DEFINE s == Stack(st, n)
           s2 == Stack(st, n + 1)
<1>1. /\ n \in Nat /\ s \in Seq(1..n) /\ Rising(s)
      /\ kind \in Scoped \cup {"if"} => Grows(s2, s, n + 1)
      /\ kind = "else" => s # <<>> /\ Grows(s2, Front(s), n + 1)
      /\ kind \in Ends => s # <<>> /\ s2 = Front(s) /\ t[Last(s)].kind \in Closes(kind)
      /\ kind \in Leaves => s2 = s
  BY StackNext
<1>2. kind \in Openers \/ kind = "else" \/ kind \in Ends \/ kind \in Leaves
  BY LevelNext
<1>3. /\ K \cap Leaves = {} /\ K \cap Ends = {} /\ "if" \notin K /\ "else" \notin K
      /\ K \subseteq Openers /\ Openers = Scoped \cup {"if"}
      /\ Leaves \cap Ends = {} /\ Openers \cap Ends = {}
  BY DEF Breakable, LoopKinds, Leaves, Ends, Openers, Scoped, Declarations
<1>4. \A x \in ToSet(s) : x \in 1..n
  <2>1. \A j \in DOMAIN s : s[j] \in 1..n  BY <1>1
  <2> QED BY <2>1 DEF ToSet
<1>5. s # <<>> => /\ Last(s) \in ToSet(s) /\ ToSet(Front(s)) = ToSet(s) \ {Last(s)}
                  /\ Front(s) \in Seq(1..n) /\ Rising(Front(s))
                  /\ \A x \in ToSet(s) : x <= Last(s)
  <2> HIDE DEF s
  <2> QED BY <1>1, RisingFront
<1>6. \A q \in Seq(1..n) : Rising(q) /\ Grows(s2, q, n + 1) => ToSet(s2) = ToSet(q) \cup {n + 1}
  BY <1>1, RisingPush DEF Grows
<1>7. CASE kind \in Openers
  <2>1. ToSet(s2) = ToSet(s) \cup {n + 1}
    <3> HIDE DEF s, s2
    <3> QED BY <1>1, <1>3, <1>6, <1>7
  <2> HIDE DEF s, s2
  <2> QED BY <1>1, <1>3, <1>4, <1>7, <2>1 DEF On, s, s2
<1>8. CASE kind = "else"
  <2>1. t[Last(s)].kind = "if"
    <3>0. n + 1 \in 1..Len(t) /\ (n + 1) - 1 = n /\ n + 1 # 0  BY <1>1 DEF TreeOK
    <3>1. Joins(t, s, Path(t, n), t[n + 1], n + 1, st[n + 1])
      <4>1. NodeOK(t, st, n + 1)  BY <3>0 DEF TreeOK
      <4> QED BY <3>0, <4>1 DEF NodeOK
    <3> HIDE DEF s
    <3> QED BY <1>8, <3>1 DEF Joins, TopIn
  <2>2. ToSet(s2) = (ToSet(s) \ {Last(s)}) \cup {n + 1}
    <3> HIDE DEF s, s2
    <3> QED BY <1>1, <1>5, <1>6, <1>8
  <2>3. \A x : x \in On(t, st, n + 1, K) <=> x \in ToSet(s2) /\ t[x].kind \in K  BY DEF On
  <2>4. \A x : x \in On(t, st, n, K) <=> x \in ToSet(s) /\ t[x].kind \in K  BY DEF On
  <2>5. \A x : x \in On(t, st, n + 1, K) <=> x \in On(t, st, n, K)
    <3> HIDE DEF s, s2
    <3> QED BY <1>3, <1>8, <2>1, <2>2, <2>3, <2>4
  <2>6. On(t, st, n + 1, K) = On(t, st, n, K)  BY <2>5 DEF On
  <2> HIDE DEF s, s2
  <2> QED BY <1>1, <1>3, <1>4, <1>8, <2>6 DEF Ends, s
<1>9. CASE kind \in Leaves
  <2>1. On(t, st, n + 1, K) = On(t, st, n, K)  BY <1>1, <1>9 DEF On
  <2> HIDE DEF s, s2
  <2> QED BY <1>1, <1>3, <1>4, <1>9, <2>1 DEF s
<1>10. CASE kind \in Ends
  <2>1. s # <<>> /\ s2 = Front(s) /\ t[Last(s)].kind \in Closes(kind)  BY <1>1, <1>10
  <2>2. Last(s) = Stack(st, n)[Level(st, n)]  BY DEF Last, Level
  <2>3. Shuts(t, st, Last(s), n + 1)
    <3>1. PICK m : m = Stack(st, n)[Level(st, n)]  OBVIOUS
    <3>2. Shuts(t, st, m, n + 1)  BY <1>10, <3>1, EndShuts
    <3> QED BY <2>2, <3>1, <3>2
  <2>4. On(t, st, n + 1, K) = On(t, st, n, K) \ {Last(s)}
    <3>1. ToSet(s2) = ToSet(s) \ {Last(s)}  BY <1>5, <2>1
    <3> HIDE DEF s, s2
    <3> QED BY <3>1 DEF On, s, s2
  <2>5. Closes(kind) \cap K = {} => On(t, st, n, K) \ {Last(s)} = On(t, st, n, K)
    <3>1. Closes(kind) \cap K = {} => Last(s) \notin On(t, st, n, K)  BY <2>1 DEF On
    <3> QED BY <3>1
  <2>6. kind \notin K  BY <1>3, <1>10
  <2>7. /\ t[Last(s)].kind \in Closes(kind) /\ Last(s) \in ToSet(s)
        /\ \A x \in ToSet(s) : x <= Last(s)
    BY <1>5, <2>1
  <2>8. n \in Nat /\ \A x \in ToSet(s) : x \in 1..n  BY <1>1, <1>4
  <2>9. kind \notin K /\ (kind \in Ends => Closes(kind) \cap K = {}) =>
          On(t, st, n + 1, K) = On(t, st, n, K)
    BY <1>10, <2>4, <2>5
  <2> HIDE DEF s2
  <2> QED BY <2>2, <2>3, <2>4, <2>6, <2>7, <2>8, <2>9
<1> QED BY <1>2, <1>7, <1>8, <1>9, <1>10

-----------------------------------------------------------------------------
(* The contexts of break and continue: S are the open constructs of the      *)
(* kinds K, outermost first in bs; what the list holds behind the mark of a  *)
(* context leaves that construct or one inside it.                           *)
ContextType == [patches : Nat, kept : Nat]
Held(t, st, c, K, kind, S, ctx, bs, i, k) ==
  /\ i \in 1..Len(c) /\ c[i].op = "jump" /\ t[c[i].node].kind = kind
  /\ \E m \in S : /\ Inner(t, st, c[i].node, K, m)
                  /\ \A b \in 1..Len(bs) : k > ctx[b].patches <=> m >= bs[b]
Opening(n, S, ctx, bs) ==
  bs \in Seq(1..n) /\ Len(bs) = Len(ctx) /\ Rising(bs) /\ ToSet(bs) = S
Marks(ctx, list) ==
  /\ ctx \in Seq(ContextType) /\ list \in Seq(Nat)
  /\ \A b \in 1..Len(ctx) : ctx[b].patches <= Len(list)
  /\ \A a, b \in 1..Len(ctx) : a <= b => ctx[a].patches <= ctx[b].patches
Contexts(t, st, n, S, c, K, kind, ctx, list) ==
  /\ Marks(ctx, list)
  /\ \E bs : /\ Opening(n, S, ctx, bs)
             /\ \A k \in 1..Len(list) : Held(t, st, c, K, kind, S, ctx, bs, list[k], k)

LEMMA HeldOn ==
  ASSUME NEW t, NEW st, NEW c, NEW n \in Nat, Coded(c, n), NEW c2, Follows(c, c2, n),
         NEW i \in 1..Len(c)
  PROVE  i \in 1..Len(c2) /\ c2[i].op = c[i].op /\ c2[i].node = c[i].node
<1>1. Len(c) \in Nat  BY CodeLength
<1>2. Len(c2) \in Nat /\ Len(c) <= Len(c2)  BY DEF Follows
<1> QED BY <1>1, <1>2 DEF Follows

LEMMA OpeningOn ==
  ASSUME NEW n \in Nat, NEW S, NEW ctx, NEW bs, Opening(n, S, ctx, bs)
  PROVE  Opening(n + 1, S, ctx, bs)
<1>1. bs \in Seq(1..n)  BY DEF Opening
<1>2. 1..n \subseteq 1..n + 1  OBVIOUS
<1>3. bs \in Seq(1..n + 1)  BY <1>1, <1>2
<1> QED BY <1>3 DEF Opening

LEMMA ContextsKeep ==
  ASSUME NEW t, NEW st, NEW n \in Nat, NEW S, NEW c, Coded(c, n), NEW c2, Follows(c, c2, n),
         NEW K, NEW kind, NEW ctx, NEW list, Contexts(t, st, n, S, c, K, kind, ctx, list)
  PROVE  Contexts(t, st, n + 1, S, c2, K, kind, ctx, list)
<1>1. PICK bs : /\ Opening(n, S, ctx, bs)
                /\ \A k \in 1..Len(list) : Held(t, st, c, K, kind, S, ctx, bs, list[k], k)
  BY DEF Contexts
<1>2. Opening(n + 1, S, ctx, bs)  BY <1>1, OpeningOn
<1>3. ASSUME NEW k \in 1..Len(list) PROVE Held(t, st, c2, K, kind, S, ctx, bs, list[k], k)
  <2>1. PICK i : i = list[k]  OBVIOUS
  <2>2. Held(t, st, c, K, kind, S, ctx, bs, i, k)  BY <1>1, <2>1
  <2>3. i \in 1..Len(c)  BY <2>2 DEF Held
  <2>4. i \in 1..Len(c2) /\ c2[i].op = c[i].op /\ c2[i].node = c[i].node  BY <2>3, HeldOn
  <2> QED BY <2>1, <2>2, <2>4 DEF Held
<1> QED BY <1>2, <1>3 DEF Contexts

LEMMA ContextsOpen ==
  ASSUME NEW t, NEW st, NEW n \in Nat, NEW S, NEW c, Coded(c, n), NEW c2, Follows(c, c2, n),
         NEW K, NEW kind, NEW ctx, NEW list, Contexts(t, st, n, S, c, K, kind, ctx, list),
         NEW f \in ContextType, f.patches = Len(list), NEW ctx2, Grows(ctx2, ctx, f)
  PROVE  Contexts(t, st, n + 1, S \cup {n + 1}, c2, K, kind, ctx2, list)
<1>1. /\ ctx \in Seq(ContextType) /\ list \in Seq(Nat) /\ Len(list) \in Nat
      /\ \A b \in 1..Len(ctx) : ctx[b].patches <= Len(list)
      /\ \A a, b \in 1..Len(ctx) : a <= b => ctx[a].patches <= ctx[b].patches
  BY DEF Contexts, Marks
<1>2. PICK bs : /\ Opening(n, S, ctx, bs)
                /\ \A k \in 1..Len(list) : Held(t, st, c, K, kind, S, ctx, bs, list[k], k)
  BY DEF Contexts
<1>3. bs \in Seq(1..n) /\ Len(bs) = Len(ctx) /\ Rising(bs) /\ ToSet(bs) = S  BY <1>2 DEF Opening
<1>4. PICK a : Grows(a, bs, n + 1)  BY DEF Grows
<1>5. a \in Seq(1..n + 1) /\ Rising(a) /\ ToSet(a) = S \cup {n + 1}
  BY <1>3, <1>4, RisingPush DEF Grows
<1>6. bs \in Seq(1..n + 1) /\ n + 1 \in 1..n + 1
  <2>1. 1..n \subseteq 1..n + 1  OBVIOUS
  <2> QED BY <1>3, <2>1
<1>7. Len(a) = Len(bs) + 1 /\ Len(bs) \in Nat /\ a[Len(bs) + 1] = n + 1
      /\ \A b \in 1..Len(bs) : a[b] = bs[b]
  <2> DEFINE N == 1..n + 1
  <2>1. bs \in Seq(N) /\ n + 1 \in N  BY <1>6
  <2> HIDE DEF N
  <2> QED BY <1>4, <2>1, GrowsTo
<1>8. ctx2 \in Seq(ContextType) /\ Len(ctx2) = Len(ctx) + 1 /\ ctx2[Len(ctx) + 1] = f
      /\ \A b \in 1..Len(ctx) : ctx2[b] = ctx[b]
  <2>1. PICK T : T = ContextType  OBVIOUS
  <2>2. ctx \in Seq(T) /\ f \in T  BY <1>1, <2>1
  <2> QED BY <2>1, <2>2, GrowsTo
<1>9. Opening(n + 1, S \cup {n + 1}, ctx2, a)  BY <1>3, <1>5, <1>7, <1>8 DEF Opening
<1>10. ASSUME NEW k \in 1..Len(list)
       PROVE  Held(t, st, c2, K, kind, S \cup {n + 1}, ctx2, a, list[k], k)
  <2>1. PICK i : i = list[k]  OBVIOUS
  <2>2. Held(t, st, c, K, kind, S, ctx, bs, i, k)  BY <1>2, <2>1
  <2>3. i \in 1..Len(c)  BY <2>2 DEF Held
  <2>4. i \in 1..Len(c2) /\ c2[i].op = c[i].op /\ c2[i].node = c[i].node  BY <2>3, HeldOn
  <2>5. PICK m \in S : /\ Inner(t, st, c[i].node, K, m)
                       /\ \A b \in 1..Len(bs) : k > ctx[b].patches <=> m >= bs[b]
    BY <2>2 DEF Held
  <2>6. m \in 1..n
    <3>1. \A j \in DOMAIN bs : bs[j] \in 1..n  BY <1>3
    <3> QED BY <1>3, <3>1 DEF ToSet
  <2>7. \A b \in 1..Len(a) : k > ctx2[b].patches <=> m >= a[b]
    <3>1. ~(k > f.patches) /\ ~(m >= n + 1)  BY <1>1, <2>6
    <3>2. \A b \in 1..Len(a) : b \in 1..Len(bs) \/ b = Len(bs) + 1  BY <1>7
    <3> QED BY <1>3, <1>7, <1>8, <2>5, <3>1, <3>2
  <2> QED BY <2>1, <2>2, <2>4, <2>5, <2>7 DEF Held
<1>11. Marks(ctx2, list)
  <2>1. PICK p \in Nat : p = Len(ctx)  BY <1>3, <1>7
  <2>2. \A b \in 1..p + 1 : b \in 1..p \/ b = p + 1  BY <2>1
  <2>3. \A b \in 1..p : ctx[b].patches \in Nat
    <3>1. \A b \in 1..p : ctx[b] \in ContextType  BY <1>1, <2>1
    <3> QED BY <3>1 DEF ContextType
  <2>4. \A b \in 1..p + 1 : ctx2[b].patches <= Len(list)  BY <1>1, <1>8, <2>1, <2>2
  <2>5. ASSUME NEW d \in 1..p + 1, NEW b \in 1..p + 1, d <= b
        PROVE  ctx2[d].patches <= ctx2[b].patches
    <3>1. CASE b = p + 1  BY <1>8, <2>1, <2>4, <3>1
    <3>2. CASE b # p + 1
      <4>1. d \in 1..p /\ b \in 1..p  BY <2>5, <3>2
      <4> QED BY <1>1, <1>8, <2>1, <2>5, <4>1
    <3> QED BY <3>1, <3>2
  <2> QED BY <1>1, <1>8, <2>1, <2>4, <2>5 DEF Marks
<1> QED BY <1>9, <1>10, <1>11 DEF Contexts

LEMMA ContextsAdd ==
  ASSUME NEW t, NEW st, NEW n \in Nat, NEW K, NEW S, S = On(t, st, n, K), S # {},
         NEW c, Coded(c, n), NEW c2, Follows(c, c2, n),
         NEW kind, NEW ctx, NEW list, Contexts(t, st, n, S, c, K, kind, ctx, list),
         t[n + 1].kind = kind, NEW i \in 1..Len(c2), c2[i].op = "jump", c2[i].node = n + 1,
         NEW list2, Grows(list2, list, i)
  PROVE  Contexts(t, st, n + 1, S, c2, K, kind, ctx, list2)
<1>1. /\ ctx \in Seq(ContextType) /\ list \in Seq(Nat) /\ Len(list) \in Nat
      /\ \A b \in 1..Len(ctx) : ctx[b].patches <= Len(list)
      /\ \A a, b \in 1..Len(ctx) : a <= b => ctx[a].patches <= ctx[b].patches
  BY DEF Contexts, Marks
<1>2. PICK bs : /\ Opening(n, S, ctx, bs)
                /\ \A k \in 1..Len(list) : Held(t, st, c, K, kind, S, ctx, bs, list[k], k)
  BY DEF Contexts
<1>3. bs \in Seq(1..n) /\ Len(bs) = Len(ctx) /\ Rising(bs) /\ ToSet(bs) = S  BY <1>2 DEF Opening
<1>4. i \in Nat
  <2>1. Len(c2) \in Nat  BY DEF Follows
  <2> QED BY <2>1
<1>5. list2 \in Seq(Nat) /\ Len(list2) = Len(list) + 1 /\ list2[Len(list) + 1] = i
      /\ \A k \in 1..Len(list) : list2[k] = list[k]
  <2> DEFINE N == Nat
  <2>1. list \in Seq(N) /\ i \in N  BY <1>1, <1>4
  <2> HIDE DEF N
  <2>2. list2 \in Seq(N) /\ Len(list2) = Len(list) + 1 /\ list2[Len(list) + 1] = i
      /\ \A k \in 1..Len(list) : list2[k] = list[k]
    BY <2>1, GrowsTo
  <2> QED BY <2>2 DEF N
<1>6. bs # <<>>
  <2>1. bs = <<>> => ToSet(bs) = {}  BY DEF ToSet
  <2> QED BY <1>3, <2>1
<1>7. PICK m : m = Last(bs)  OBVIOUS
<1>8. m \in S /\ \A y \in S : y <= m  BY <1>3, <1>6, <1>7, RisingFront
<1>9. Inner(t, st, n + 1, K, m)
  <2>1. (n + 1) - 1 = n  OBVIOUS
  <2> QED BY <1>8, <2>1 DEF Inner, On
<1>10. Opening(n + 1, S, ctx, bs)  BY <1>2, OpeningOn
<1>11. ASSUME NEW k \in 1..Len(list2) PROVE Held(t, st, c2, K, kind, S, ctx, bs, list2[k], k)
  <2>1. CASE k \in 1..Len(list)
    <3>1. PICK j : j = list[k]  OBVIOUS
    <3>2. Held(t, st, c, K, kind, S, ctx, bs, j, k)  BY <1>2, <2>1, <3>1
    <3>3. j \in 1..Len(c)  BY <3>2 DEF Held
    <3>4. j \in 1..Len(c2) /\ c2[j].op = c[j].op /\ c2[j].node = c[j].node  BY <3>3, HeldOn
    <3> QED BY <1>5, <2>1, <3>1, <3>2, <3>4 DEF Held
  <2>2. CASE k = Len(list) + 1
    <3>1. ASSUME NEW b \in 1..Len(bs) PROVE k > ctx[b].patches /\ m >= bs[b]
      <4>1. bs[b] \in S /\ bs[b] \in 1..n
        <5>1. b \in DOMAIN bs  BY <1>3
        <5> QED BY <1>3, <5>1 DEF ToSet
      <4>2. m \in 1..n
        <5>1. \A j \in DOMAIN bs : bs[j] \in 1..n  BY <1>3
        <5> QED BY <1>3, <1>8, <5>1 DEF ToSet
      <4>3. m >= bs[b]  BY <1>8, <4>1, <4>2
      <4>4. ctx[b].patches <= Len(list) /\ ctx[b].patches \in Nat
        <5>1. b \in 1..Len(ctx)  BY <1>3
        <5>2. ctx[b] \in ContextType  BY <1>1, <5>1
        <5> QED BY <1>1, <5>1, <5>2 DEF ContextType
      <4> QED BY <1>1, <2>2, <4>3, <4>4
    <3>2. \A b \in 1..Len(bs) : k > ctx[b].patches <=> m >= bs[b]  BY <3>1
    <3>3. t[c2[i].node].kind = kind /\ Inner(t, st, c2[i].node, K, m)  BY <1>9
    <3>4. list2[k] = i  BY <1>5, <2>2
    <3>5. Held(t, st, c2, K, kind, S, ctx, bs, i, k)  BY <1>8, <3>2, <3>3 DEF Held
    <3> QED BY <3>4, <3>5
  <2>3. k \in 1..Len(list) \/ k = Len(list) + 1  BY <1>1, <1>5
  <2> QED BY <2>1, <2>2, <2>3
<1>12. Marks(ctx, list2)
  <2>1. ASSUME NEW b \in 1..Len(ctx) PROVE ctx[b].patches <= Len(list2)
    <3>1. ctx[b] \in ContextType  BY <1>1
    <3>2. ctx[b].patches <= Len(list) /\ ctx[b].patches \in Nat  BY <1>1, <3>1 DEF ContextType
    <3> QED BY <1>1, <1>5, <3>2
  <2> QED BY <1>1, <1>5, <2>1 DEF Marks
<1> QED BY <1>10, <1>11, <1>12 DEF Contexts

(* The innermost construct ends: what the list holds behind p leaves it.     *)
Leavers(t, st, c, K, kind, list, p, top) ==
  /\ p \in 0..Len(list) /\ Len(list) \in Nat /\ list \in Seq(Nat)
  /\ \A k \in 1..Len(list) :
       /\ list[k] \in 1..Len(c) /\ c[list[k]].op = "jump" /\ t[c[list[k]].node].kind = kind
       /\ k > p => Inner(t, st, c[list[k]].node, K, top)

LEMMA ContextsTop ==
  ASSUME NEW t, NEW st, NEW n \in Nat, NEW K, NEW S, S = On(t, st, n, K), NEW c,
         NEW kind, NEW ctx, NEW list, Contexts(t, st, n, S, c, K, kind, ctx, list),
         NEW top \in S, \A x \in S : x <= top
  PROVE  Leavers(t, st, c, K, kind, list, Last(ctx).patches, top)
<1>1. /\ ctx \in Seq(ContextType) /\ list \in Seq(Nat) /\ Len(list) \in Nat
      /\ \A b \in 1..Len(ctx) : ctx[b].patches <= Len(list)
  BY DEF Contexts, Marks
<1>2. PICK bs : /\ Opening(n, S, ctx, bs)
                /\ \A k \in 1..Len(list) : Held(t, st, c, K, kind, S, ctx, bs, list[k], k)
  BY DEF Contexts
<1>3. bs \in Seq(1..n) /\ Len(bs) = Len(ctx) /\ Rising(bs) /\ ToSet(bs) = S  BY <1>2 DEF Opening
<1>4. bs # <<>>
  <2>1. bs = <<>> => ToSet(bs) = {}  BY DEF ToSet
  <2> QED BY <1>3, <2>1
<1>5. Last(bs) \in S /\ \A y \in S : y <= Last(bs)  BY <1>3, <1>4, RisingFront
<1>6. \A y \in S : y \in 1..n
  <2>1. \A j \in DOMAIN bs : bs[j] \in 1..n  BY <1>3
  <2> QED BY <1>3, <2>1 DEF ToSet
<1>7. Last(bs) = top
  <2>1. Last(bs) <= top /\ top <= Last(bs)  BY <1>5
  <2>2. Last(bs) \in Nat /\ top \in Nat  BY <1>5, <1>6
  <2> QED BY <2>1, <2>2
<1>8. Len(bs) \in Nat /\ Len(bs) >= 1 /\ Last(bs) = bs[Len(bs)]
  <2>1. PICK N : N = 1..n  OBVIOUS
  <2>2. bs \in Seq(N)  BY <1>3, <2>1
  <2> QED BY <1>4, <2>2, FrontOf
<1>9. ctx # <<>> /\ Last(ctx) = ctx[Len(ctx)] /\ Last(ctx) \in ContextType
  <2>1. ctx # <<>>  BY <1>3, <1>8
  <2> QED BY <1>1, <2>1, FrontOf
<1>10. Last(ctx).patches \in 0..Len(list)
  <2>1. ctx[Len(ctx)].patches <= Len(list)  BY <1>1, <1>3, <1>8
  <2> QED BY <1>1, <1>9, <2>1 DEF ContextType
<1>11. ASSUME NEW k \in 1..Len(list)
       PROVE  /\ list[k] \in 1..Len(c) /\ c[list[k]].op = "jump" /\ t[c[list[k]].node].kind = kind
              /\ k > Last(ctx).patches => Inner(t, st, c[list[k]].node, K, top)
  <2>1. PICK i : i = list[k]  OBVIOUS
  <2>2. Held(t, st, c, K, kind, S, ctx, bs, i, k)  BY <1>2, <2>1
  <2>3. PICK m \in S : /\ Inner(t, st, c[i].node, K, m)
                       /\ \A b \in 1..Len(bs) : k > ctx[b].patches <=> m >= bs[b]
    BY <2>2 DEF Held
  <2>4. k > Last(ctx).patches => m >= top  BY <1>3, <1>7, <1>8, <1>9, <2>3
  <2>5. m <= top /\ m \in Nat /\ top \in Nat  BY <1>6
  <2>6. k > Last(ctx).patches => m = top  BY <2>4, <2>5
  <2> QED BY <2>1, <2>2, <2>3, <2>6 DEF Held
<1> QED BY <1>1, <1>9, <1>10, <1>11 DEF Leavers

LEMMA ContextsClose ==
  ASSUME NEW t, NEW st, NEW n \in Nat, NEW K, NEW S, S = On(t, st, n, K),
         NEW c, Coded(c, n), NEW c2, Follows(c, c2, n),
         NEW kind, NEW ctx, NEW list, Contexts(t, st, n, S, c, K, kind, ctx, list),
         NEW top \in S, \A x \in S : x <= top
  PROVE  Contexts(t, st, n + 1, S \ {top}, c2, K, kind, Front(ctx),
                  SubSeq(list, 1, Last(ctx).patches))
<1>1. /\ ctx \in Seq(ContextType) /\ list \in Seq(Nat) /\ Len(list) \in Nat
      /\ \A b \in 1..Len(ctx) : ctx[b].patches <= Len(list)
      /\ \A a, b \in 1..Len(ctx) : a <= b => ctx[a].patches <= ctx[b].patches
  BY DEF Contexts, Marks
<1>2. PICK bs : /\ Opening(n, S, ctx, bs)
                /\ \A k \in 1..Len(list) : Held(t, st, c, K, kind, S, ctx, bs, list[k], k)
  BY DEF Contexts
<1>3. bs \in Seq(1..n) /\ Len(bs) = Len(ctx) /\ Rising(bs) /\ ToSet(bs) = S  BY <1>2 DEF Opening
<1>4. bs # <<>>
  <2>1. bs = <<>> => ToSet(bs) = {}  BY DEF ToSet
  <2> QED BY <1>3, <2>1
<1>5. /\ Last(bs) \in S /\ \A y \in S : y <= Last(bs)
      /\ Front(bs) \in Seq(1..n) /\ Rising(Front(bs)) /\ ToSet(Front(bs)) = S \ {Last(bs)}
  BY <1>3, <1>4, RisingFront
<1>6. \A y \in S : y \in 1..n
  <2>1. \A j \in DOMAIN bs : bs[j] \in 1..n  BY <1>3
  <2> QED BY <1>3, <2>1 DEF ToSet
<1>7. Last(bs) = top
  <2>1. Last(bs) <= top /\ top <= Last(bs)  BY <1>5
  <2>2. Last(bs) \in Nat /\ top \in Nat  BY <1>5, <1>6
  <2> QED BY <2>1, <2>2
<1>8. /\ Len(bs) \in Nat /\ Len(bs) >= 1 /\ Last(bs) = bs[Len(bs)]
      /\ Len(Front(bs)) = Len(bs) - 1 /\ \A b \in 1..Len(bs) - 1 : Front(bs)[b] = bs[b]
  <2>1. PICK N : N = 1..n  OBVIOUS
  <2>2. bs \in Seq(N)  BY <1>3, <2>1
  <2> QED BY <1>4, <2>2, FrontOf
<1>9. /\ Last(ctx) = ctx[Len(ctx)] /\ Last(ctx) \in ContextType /\ Front(ctx) \in Seq(ContextType)
      /\ Len(Front(ctx)) = Len(ctx) - 1 /\ \A b \in 1..Len(ctx) - 1 : Front(ctx)[b] = ctx[b]
  <2>1. ctx # <<>>  BY <1>3, <1>8
  <2> QED BY <1>1, <2>1, FrontOf
<1>10. PICK p : p = Last(ctx).patches  OBVIOUS
<1>11. p \in 0..Len(list) /\ p = ctx[Len(ctx)].patches
  <2>1. ctx[Len(ctx)].patches <= Len(list)  BY <1>1, <1>3, <1>8
  <2> QED BY <1>1, <1>9, <1>10, <2>1 DEF ContextType
<1>12. PICK list2 : list2 = SubSeq(list, 1, p)  OBVIOUS
<1>13. list2 \in Seq(Nat) /\ Len(list2) = p /\ \A k \in 1..p : list2[k] = list[k]
  <2> DEFINE N == Nat
  <2>1. list \in Seq(N)  BY <1>1
  <2> HIDE DEF N
  <2>2. list2 \in Seq(N) /\ Len(list2) = p /\ \A k \in 1..p : list2[k] = list[k]
    BY <1>11, <1>12, <2>1, Cut
  <2> QED BY <2>2 DEF N
<1>14. PICK l \in Nat : l = Len(bs) - 1  BY <1>8
<1>15. Len(Front(ctx)) = l /\ Len(Front(bs)) = l /\ Len(bs) = l + 1 /\ Len(ctx) = l + 1
  BY <1>3, <1>8, <1>9, <1>14
<1>16. Marks(Front(ctx), list2)
  <2>1. \A b \in 1..l : b \in 1..l + 1 /\ Front(ctx)[b] = ctx[b] /\ b <= l + 1
    BY <1>9, <1>14, <1>15
  <2>2. l + 1 \in 1..l + 1  BY <1>14
  <2>3. \A b \in 1..l : Front(ctx)[b].patches <= Len(list2)
    BY <1>1, <1>11, <1>13, <1>15, <2>1, <2>2
  <2>4. \A a, b \in 1..l : a <= b => Front(ctx)[a].patches <= Front(ctx)[b].patches
    BY <1>1, <1>15, <2>1
  <2> QED BY <1>9, <1>13, <1>15, <2>3, <2>4 DEF Marks
<1>17. Opening(n + 1, S \ {top}, Front(ctx), Front(bs))
  <2>1. Opening(n, S \ {top}, Front(ctx), Front(bs))  BY <1>5, <1>7, <1>15 DEF Opening
  <2> QED BY <2>1, OpeningOn
<1>18. ASSUME NEW k \in 1..Len(list2)
       PROVE  Held(t, st, c2, K, kind, S \ {top}, Front(ctx), Front(bs), list2[k], k)
  <2>1. PICK i : i = list[k]  OBVIOUS
  <2>2. k \in 1..Len(list) /\ list2[k] = i /\ ~(k > p)
    <3>1. k \in 1..p /\ list2[k] = list[k]  BY <1>13
    <3>2. PICK q \in Nat : q = Len(list)  BY <1>1
    <3>3. p \in 0..q  BY <1>11, <3>2
    <3>4. k \in 1..q /\ ~(k > p)  BY <3>1, <3>3
    <3> QED BY <2>1, <3>1, <3>2, <3>4
  <2>3. Held(t, st, c, K, kind, S, ctx, bs, i, k)  BY <1>2, <2>1, <2>2
  <2>4. i \in 1..Len(c)  BY <2>3 DEF Held
  <2>5. i \in 1..Len(c2) /\ c2[i].op = c[i].op /\ c2[i].node = c[i].node  BY <2>4, HeldOn
  <2>6. PICK m \in S : /\ Inner(t, st, c[i].node, K, m)
                       /\ \A b \in 1..Len(bs) : k > ctx[b].patches <=> m >= bs[b]
    BY <2>3 DEF Held
  <2>7. m # top
    <3>1. ~(m >= bs[l + 1])
      <4>1. l + 1 \in 1..Len(bs)  BY <1>14, <1>15
      <4> QED BY <1>11, <1>15, <2>2, <2>6, <4>1
    <3> QED BY <1>6, <1>7, <1>8, <1>15, <3>1
  <2>8. \A b \in 1..Len(Front(bs)) : k > Front(ctx)[b].patches <=> m >= Front(bs)[b]
    <3>1. \A b \in 1..l : b \in 1..Len(bs) /\ Front(ctx)[b] = ctx[b] /\ Front(bs)[b] = bs[b]
      BY <1>8, <1>9, <1>14, <1>15
    <3> QED BY <1>15, <2>6, <3>1
  <2> QED BY <2>2, <2>3, <2>5, <2>6, <2>7, <2>8 DEF Held
<1> QED BY <1>10, <1>12, <1>16, <1>17, <1>18 DEF Contexts

-----------------------------------------------------------------------------
(* The frames: what the generator remembers of each construct that is open.  *)
FrameType == [kept : Nat, start : Nat, patch : Nat, cases : SUBSET Nat]

Testing(t, m) == t[m].kind = "for" /\ t[m].how # "none"
Starts(t, c, m, f) ==
  /\ t[m].kind \in {"while", "do"} \/ (t[m].kind = "for" /\ t[m].how = "none") =>
       f.start = CodeAt(c, m)
  /\ Testing(t, m) => f.start = CodeAt(c, m + 1) - 1
Leaving(t, c, m, f) ==
  /\ t[m].kind \in {"if", "else", "while"} \/ Testing(t, m) =>
       f.patch \in 1..Len(c) /\ c[f.patch].node = m
  /\ t[m].kind \in {"block", "case", "default", "do"} => f.patch = 0
  /\ t[m].kind = "for" /\ t[m].how = "none" => f.patch = 0
Branching(t, st, c, m, f) ==
  t[m].kind = "switch" =>
    /\ f.cases = Branches(t, st, m) /\ f.start = CodeAt(c, m) + Cardinality(f.cases)
    /\ \A i \in CodeAt(c, m) .. f.start - 1 :
         i \in 1..Len(c) /\ c[i].node = m /\ c[i].op = "branch"
Defaulting(t, st, c, n, m, f) ==
  t[m].kind = "switch" =>
    IF \E k \in 1..n : Default(t, st, m, k)
    THEN f.patch = 0
    ELSE f.patch \in 1..Len(c) /\ c[f.patch].node = m /\ c[f.patch].op = "jump"
FrameOK(t, st, c, n, m, f) ==
  Starts(t, c, m, f) /\ Leaving(t, c, m, f) /\ Branching(t, st, c, m, f)
    /\ Defaulting(t, st, c, n, m, f)

Frames(t, st, c, n, s, fr) ==
  /\ fr \in Seq(FrameType) /\ Len(fr) = Len(s)
  /\ \A j \in 1..Len(fr) : FrameOK(t, st, c, n, s[j], fr[j])

LEMMA FrameOn ==
  ASSUME NEW t, NEW st, NEW n \in Nat, NEW c, Coded(c, n), NEW c2, Follows(c, c2, n),
         NEW m \in 1..n, NEW f, FrameOK(t, st, c, n, m, f), ~Default(t, st, m, n + 1)
  PROVE  FrameOK(t, st, c2, n + 1, m, f)
<1>1. CodeAt(c2, m) = CodeAt(c, m) /\ CodeAt(c2, m + 1) = CodeAt(c, m + 1)
  <2>1. m \in 0..n + 1 /\ m + 1 \in 0..n + 1  OBVIOUS
  <2> QED BY <2>1, CodeAtSame
<1>2. \A i \in 1..Len(c) : i \in 1..Len(c2) /\ c2[i].op = c[i].op /\ c2[i].node = c[i].node
  BY HeldOn
<1>3. Starts(t, c2, m, f)  BY <1>1 DEF FrameOK, Starts
<1>4. Leaving(t, c2, m, f)  BY <1>2 DEF FrameOK, Leaving
<1>5. Branching(t, st, c2, m, f)  BY <1>1, <1>2 DEF FrameOK, Branching
<1>6. Defaulting(t, st, c2, n + 1, m, f)
  <2>1. (\E k \in 1..n + 1 : Default(t, st, m, k)) <=> \E k \in 1..n : Default(t, st, m, k)
    <3>1. \A k \in 1..n + 1 : k \in 1..n \/ k = n + 1  OBVIOUS
    <3>2. \A k \in 1..n : k \in 1..n + 1  OBVIOUS
    <3> QED BY <3>1, <3>2
  <2> QED BY <1>2, <2>1 DEF FrameOK, Defaulting
<1> QED BY <1>3, <1>4, <1>5, <1>6 DEF FrameOK

(* Only the innermost frame minds which node comes next.                     *)
LEMMA FramesOn ==
  ASSUME NEW t, NEW st, TreeOK(t, st), NEW n \in 0..Len(t) - 1, NEW s, s = Stack(st, n),
         NEW c, Coded(c, n), NEW c2, Follows(c, c2, n), NEW fr, Frames(t, st, c, n, s, fr)
  PROVE  /\ Len(fr) \in Nat /\ Len(fr) = Level(st, n)
         /\ \A j \in 1..Len(fr) : /\ s[j] \in 1..n
                                  /\ j < Len(fr) \/ t[n + 1].kind # "default" =>
                                       FrameOK(t, st, c2, n + 1, s[j], fr[j])
<1>1. n \in Nat /\ n \in 0..Len(t) /\ (n + 1) - 1 = n  BY DEF TreeOK
<1>2. fr \in Seq(FrameType) /\ Len(fr) = Len(s) /\ Len(fr) \in Nat  BY DEF Frames
<1>3. Len(fr) = Level(st, n)  BY <1>2 DEF Level
<1>4. s \in Seq(1..n) /\ Rising(s) /\ DOMAIN s = 1..Len(s)
  <2>1. s \in Seq(1..n) /\ Rising(s)  BY <1>1, TreeShape
  <2> QED BY <2>1
<1>5. ASSUME NEW j \in 1..Len(fr) PROVE s[j] \in 1..n  BY <1>2, <1>4
<1>6. ASSUME NEW j \in 1..Len(fr), j < Len(fr) \/ t[n + 1].kind # "default"
      PROVE  FrameOK(t, st, c2, n + 1, s[j], fr[j])
  <2>1. PICK m : m = s[j]  OBVIOUS
  <2>2. PICK f : f = fr[j]  OBVIOUS
  <2>3. m \in 1..n /\ FrameOK(t, st, c, n, m, f)  BY <1>5, <2>1, <2>2 DEF Frames
  <2>4. ~Default(t, st, m, n + 1)
    <3>1. SUFFICES ASSUME Default(t, st, m, n + 1) PROVE FALSE  OBVIOUS
    <3>2. t[n + 1].kind = "default" /\ Last(s) = m  BY <1>1, <3>1 DEF Default, CaseIn
    <3>3. j < Len(s) /\ Len(s) \in 1..Len(s) /\ j \in 1..Len(s)  BY <1>2, <1>6, <3>2
    <3>4. s[j] < s[Len(s)]  BY <1>4, <3>3 DEF Rising
    <3> QED BY <2>1, <2>3, <3>2, <3>4 DEF Last
  <2>5. FrameOK(t, st, c2, n + 1, m, f)  BY <1>1, <2>3, <2>4, FrameOn
  <2> QED BY <2>1, <2>2, <2>5
<1> QED BY <1>2, <1>3, <1>5, <1>6

LEMMA FramesKeep ==
  ASSUME NEW t, NEW st, TreeOK(t, st), NEW n \in 0..Len(t) - 1, NEW s, s = Stack(st, n),
         NEW c, Coded(c, n), NEW c2, Follows(c, c2, n), NEW fr, Frames(t, st, c, n, s, fr),
         t[n + 1].kind # "default"
  PROVE  Frames(t, st, c2, n + 1, s, fr)
<1>1. \A j \in 1..Len(fr) : FrameOK(t, st, c2, n + 1, s[j], fr[j])  BY FramesOn
<1> QED BY <1>1 DEF Frames

LEMMA FramesPush ==
  ASSUME NEW t, NEW st, NEW n \in Nat, NEW s \in Seq(1..n), NEW c2, NEW fr,
         Frames(t, st, c2, n + 1, s, fr), NEW f \in FrameType, FrameOK(t, st, c2, n + 1, n + 1, f),
         NEW s2, Grows(s2, s, n + 1), NEW fr2, Grows(fr2, fr, f)
  PROVE  Frames(t, st, c2, n + 1, s2, fr2)
<1>1. /\ fr \in Seq(FrameType) /\ Len(fr) = Len(s) /\ Len(fr) \in Nat
      /\ \A j \in 1..Len(fr) : FrameOK(t, st, c2, n + 1, s[j], fr[j])
  BY DEF Frames
<1>2. Len(s2) = Len(s) + 1 /\ s2[Len(s) + 1] = n + 1 /\ \A j \in 1..Len(s) : s2[j] = s[j]
  <2> DEFINE N == 1..n + 1
  <2>1. s \in Seq(N) /\ n + 1 \in N
    <3>1. 1..n \subseteq N  OBVIOUS
    <3> QED BY <3>1
  <2> HIDE DEF N
  <2> QED BY <2>1, GrowsTo
<1>3. /\ fr2 \in Seq(FrameType) /\ Len(fr2) = Len(fr) + 1 /\ fr2[Len(fr) + 1] = f
      /\ \A j \in 1..Len(fr) : fr2[j] = fr[j]
  <2>1. PICK T : T = FrameType  OBVIOUS
  <2>2. fr \in Seq(T) /\ f \in T  BY <1>1, <2>1
  <2> QED BY <2>1, <2>2, GrowsTo
<1>4. PICK l \in Nat : l = Len(fr)  BY <1>1
<1>5. ASSUME NEW j \in 1..l + 1 PROVE FrameOK(t, st, c2, n + 1, s2[j], fr2[j])
  <2>1. CASE j = l + 1  BY <1>1, <1>2, <1>3, <1>4, <2>1
  <2>2. CASE j \in 1..l  BY <1>1, <1>2, <1>3, <1>4, <2>2
  <2> QED BY <1>4, <2>1, <2>2
<1> QED BY <1>1, <1>2, <1>3, <1>4, <1>5 DEF Frames

LEMMA FramesFront ==
  ASSUME NEW t, NEW st, NEW n \in Nat, NEW s \in Seq(1..n), s # <<>>, NEW c2, NEW fr,
         fr \in Seq(FrameType), Len(fr) = Len(s),
         \A j \in 1..Len(fr) : j < Len(fr) => FrameOK(t, st, c2, n + 1, s[j], fr[j])
  PROVE  /\ Frames(t, st, c2, n + 1, Front(s), Front(fr)) /\ Front(s) \in Seq(1..n)
         /\ fr # <<>> /\ Last(fr) = fr[Len(fr)] /\ Last(fr) \in FrameType /\ Last(s) \in 1..n
<1>1. PICK N : N = 1..n  OBVIOUS
<1>2. /\ Front(s) \in Seq(N) /\ Len(Front(s)) = Len(s) - 1 /\ Len(s) \in Nat /\ Len(s) >= 1
      /\ \A j \in 1..Len(s) - 1 : Front(s)[j] = s[j]
      /\ Last(s) \in N
  BY <1>1, FrontOf
<1>3. fr # <<>>  BY <1>2
<1>4. /\ Front(fr) \in Seq(FrameType) /\ Len(Front(fr)) = Len(fr) - 1
      /\ \A j \in 1..Len(fr) - 1 : Front(fr)[j] = fr[j]
      /\ Last(fr) = fr[Len(fr)] /\ Last(fr) \in FrameType
  BY <1>3, FrontOf
<1>5. ASSUME NEW j \in 1..Len(Front(fr))
      PROVE  FrameOK(t, st, c2, n + 1, Front(s)[j], Front(fr)[j])
  <2>1. j \in 1..Len(fr) - 1 /\ j \in 1..Len(fr) /\ j < Len(fr)  BY <1>2, <1>4
  <2> QED BY <1>2, <1>4, <2>1
<1> QED BY <1>1, <1>2, <1>3, <1>4, <1>5 DEF Frames

-----------------------------------------------------------------------------
(* A jump that has not landed waits where its target will be known.          *)

FrameWait(s, fr, x, i) == \E j \in 1..Len(fr) : s[j] = x /\ fr[j].patch = i
CaseWait(t, st, c, n, x, i) ==
  /\ x \in ToSet(Stack(st, n))
  /\ \E k \in Branches(t, st, x) : k > n /\ RankIn(Branches(t, st, x), k) = Rank(c, i)
Listed(list, i) == \E k \in 1..Len(list) : list[k] = i
IsLabel(t, k, l) == k \in 1..Len(t) /\ t[k].kind = "label" /\ t[k].name = l
GotoWait(t, gp, lb, l, i) ==
  /\ \E k \in 1..Len(gp) : gp[k] = <<i, l>>
  /\ lb[l] = 0 /\ \E k : IsLabel(t, k, l)

(* Labels that have been passed have their address.                          *)
Labelled(t, c, n, lb) ==
  /\ lb \in [Labels -> Nat]
  /\ \A l \in Labels : \/ lb[l] = 0 /\ ~\E k \in 1..n : IsLabel(t, k, l)
                       \/ \E k \in 1..n : IsLabel(t, k, l) /\ lb[l] = CodeAt(c, k)
Going(t, c, gp) ==
  /\ gp \in Seq(Nat \X Labels)
  /\ \A k \in 1..Len(gp) :
       /\ gp[k][1] \in 1..Len(c) /\ c[gp[k][1]].op = "jump"
       /\ t[c[gp[k][1]].node].kind = "goto" /\ t[c[gp[k][1]].node].name = gp[k][2]

LEMMA GoingOn ==
  ASSUME NEW t, NEW n \in Nat, NEW c, Coded(c, n), NEW c2, Follows(c, c2, n), NEW gp,
         Going(t, c, gp)
  PROVE  Going(t, c2, gp)
<1>1. \A i \in 1..Len(c) : i \in 1..Len(c2) /\ c2[i].op = c[i].op /\ c2[i].node = c[i].node
  BY HeldOn
<1> QED BY <1>1 DEF Going

LEMMA LabelledOn ==
  ASSUME NEW t, NEW n \in Nat, NEW c, Coded(c, n), NEW c2, Follows(c, c2, n), NEW lb,
         Labelled(t, c, n, lb), t[n + 1].kind # "label"
  PROVE  Labelled(t, c2, n + 1, lb)
<1>1. \A k \in 1..n : k \in 1..n + 1 /\ CodeAt(c2, k) = CodeAt(c, k)
  <2>1. \A k \in 1..n : k \in 0..n + 1 /\ k \in 1..n + 1  OBVIOUS
  <2> QED BY <2>1, CodeAtSame
<1>2. \A k \in 1..n + 1 : k \in 1..n \/ k = n + 1  OBVIOUS
<1>3. \A l : ~IsLabel(t, n + 1, l)  BY DEF IsLabel
<1> QED BY <1>1, <1>2, <1>3 DEF Labelled

(* The label n + 1 gets the address of the next instruction.                 *)
LEMMA LabelledNext ==
  ASSUME NEW t, NEW n \in Nat, NEW c, Coded(c, n), NEW c2, Follows(c, c2, n), NEW lb,
         Labelled(t, c, n, lb), NEW l \in Labels, IsLabel(t, n + 1, l), Len(c2) = Len(c),
         NEW lb2, lb2 = [lb EXCEPT ![l] = Len(c) + 1]
  PROVE  Labelled(t, c2, n + 1, lb2)
<1>1. \A k \in 1..n + 1 : k \in 0..n + 1 /\ CodeAt(c2, k) = CodeAt(c, k)
  <2>1. \A k \in 1..n + 1 : k \in 0..n + 1  OBVIOUS
  <2> QED BY <2>1, CodeAtSame
<1>2. CodeAt(c, n + 1) = Len(c) + 1 /\ Len(c) \in Nat  BY CodeAtEnd, CodeLength
<1>3. lb2 \in [Labels -> Nat] /\ lb2[l] = Len(c) + 1
      /\ \A j \in Labels : j # l => lb2[j] = lb[j]
  BY <1>2 DEF Labelled
<1>4. ASSUME NEW j \in Labels, j # l
      PROVE  \/ lb2[j] = 0 /\ ~\E k \in 1..n + 1 : IsLabel(t, k, j)
             \/ \E k \in 1..n + 1 : IsLabel(t, k, j) /\ lb2[j] = CodeAt(c2, k)
  <2>1. \A k \in 1..n + 1 : k \in 1..n \/ k = n + 1  OBVIOUS
  <2>2. \A k \in 1..n : k \in 1..n + 1  OBVIOUS
  <2>3. ~IsLabel(t, n + 1, j)  BY <1>4 DEF IsLabel
  <2> QED BY <1>1, <1>3, <1>4, <2>1, <2>2, <2>3 DEF Labelled
<1>5. n + 1 \in 1..n + 1  OBVIOUS
<1> QED BY <1>1, <1>2, <1>3, <1>4, <1>5 DEF Labelled

(* A branch of a switch waits for its case, and a switch does not end before *)
(* its last case.                                                            *)
LEMMA CaseWaitOn ==
  ASSUME NEW t, NEW st, TreeOK(t, st), NEW n \in 0..Len(t) - 1, NEW c, Coded(c, n), NEW c2,
         Follows(c, c2, n), NEW i \in 1..Len(c), NEW x, t[x].kind = "switch",
         CaseWait(t, st, c, n, x, i)
  PROVE  \/ CaseWait(t, st, c2, n + 1, x, i)
         \/ /\ t[n + 1].kind = "case" /\ n + 1 \in Branches(t, st, x)
            /\ RankIn(Branches(t, st, x), n + 1) = Rank(c2, i)
<1>1. n \in Nat /\ Len(t) \in Nat  BY DEF TreeOK
<1>2. Rank(c2, i) = Rank(c, i)  BY <1>1, RankOn
<1>3. PICK k \in Branches(t, st, x) : k > n /\ RankIn(Branches(t, st, x), k) = Rank(c, i)
  BY DEF CaseWait
<1>4. k \in Nat /\ t[k].kind = "case" /\ CaseIn(t, st, x, k)  BY <1>1, <1>3 DEF Branches
<1>5. CASE k = n + 1  BY <1>2, <1>3, <1>4, <1>5
<1>6. CASE k # n + 1
  <2>1. k > n + 1  BY <1>1, <1>3, <1>4, <1>6
  <2>2. x \in ToSet(Stack(st, n)) /\ x \in On(t, st, n, Breakable)
    BY DEF CaseWait, On, Breakable
  <2>3. PICK kind : kind = t[n + 1].kind  OBVIOUS
  <2>4. PICK K \in {Breakable, LoopKinds} : K = Breakable  OBVIOUS
  <2>5. /\ kind \in K => On(t, st, n + 1, K) = On(t, st, n, K) \cup {n + 1}
        /\ kind \notin K /\ (kind \in Ends => Closes(kind) \cap K = {}) =>
             On(t, st, n + 1, K) = On(t, st, n, K)
        /\ kind \in Ends =>
              \E top : /\ top = Stack(st, n)[Level(st, n)] /\ t[top].kind \in Closes(kind)
                       /\ top \in ToSet(Stack(st, n)) /\ Shuts(t, st, top, n + 1)
                       /\ \A y \in ToSet(Stack(st, n)) : y <= top
                       /\ On(t, st, n + 1, K) = On(t, st, n, K) \ {top}
    BY <2>3, <2>4, OnNext
  <2>6. ~Shuts(t, st, x, n + 1)
    <3>1. SUFFICES ASSUME Shuts(t, st, x, n + 1) PROVE FALSE  OBVIOUS
    <3>2. k \in x + 1 .. (n + 1) - 1  BY <1>4, <3>1, CaseInside
    <3>3. x \in Nat  BY <3>1 DEF Shuts
    <3> QED BY <1>1, <1>4, <2>1, <3>2, <3>3
  <2>7. x \in On(t, st, n + 1, Breakable)  BY <2>2, <2>4, <2>5, <2>6
  <2>8. x \in ToSet(Stack(st, n + 1))  BY <2>7 DEF On
  <2> QED BY <1>2, <1>3, <2>1, <2>8 DEF CaseWait
<1> QED BY <1>5, <1>6

LEMMA FrameWaitPush ==
  ASSUME NEW n \in Nat, NEW s \in Seq(1..n), NEW s2, Grows(s2, s, n + 1),
         NEW fr \in Seq(FrameType), Len(fr) = Len(s), NEW f \in FrameType,
         NEW fr2, Grows(fr2, fr, f), NEW x, NEW i
  PROVE  /\ FrameWait(s, fr, x, i) => FrameWait(s2, fr2, x, i)
         /\ f.patch = i => FrameWait(s2, fr2, n + 1, i)
<1>1. Len(s2) = Len(s) + 1 /\ s2[Len(s) + 1] = n + 1 /\ \A j \in 1..Len(s) : s2[j] = s[j]
  <2> DEFINE N == 1..n + 1
  <2>1. s \in Seq(N) /\ n + 1 \in N
    <3>1. 1..n \subseteq N  OBVIOUS
    <3> QED BY <3>1
  <2> HIDE DEF N
  <2> QED BY <2>1, GrowsTo
<1>2. /\ Len(fr2) = Len(fr) + 1 /\ fr2[Len(fr) + 1] = f /\ Len(fr) \in Nat
      /\ \A j \in 1..Len(fr) : fr2[j] = fr[j]
  <2>1. PICK T : T = FrameType  OBVIOUS
  <2>2. fr \in Seq(T) /\ f \in T  BY <2>1
  <2> QED BY <2>2, GrowsTo
<1>3. PICK l \in Nat : l = Len(fr)  BY <1>2
<1>4. \A j \in 1..l : j \in 1..l + 1 /\ s2[j] = s[j] /\ fr2[j] = fr[j]  BY <1>1, <1>2, <1>3
<1>5. l + 1 \in 1..l + 1 /\ s2[l + 1] = n + 1 /\ fr2[l + 1] = f  BY <1>1, <1>2, <1>3
<1> QED BY <1>2, <1>3, <1>4, <1>5 DEF FrameWait

LEMMA FrameWaitFront ==
  ASSUME NEW n \in Nat, NEW s \in Seq(1..n), s # <<>>, NEW fr \in Seq(FrameType), Len(fr) = Len(s),
         NEW x, NEW i, FrameWait(s, fr, x, i)
  PROVE  FrameWait(Front(s), Front(fr), x, i) \/ (x = Last(s) /\ i = Last(fr).patch)
<1>1. PICK N : N = 1..n  OBVIOUS
<1>2. /\ Len(Front(s)) = Len(s) - 1 /\ Len(s) \in Nat /\ Len(s) >= 1 /\ Last(s) = s[Len(s)]
      /\ \A j \in 1..Len(s) - 1 : Front(s)[j] = s[j]
  BY <1>1, FrontOf
<1>3. fr # <<>>  BY <1>2
<1>4. /\ Len(Front(fr)) = Len(fr) - 1 /\ Last(fr) = fr[Len(fr)]
      /\ \A j \in 1..Len(fr) - 1 : Front(fr)[j] = fr[j]
  BY <1>3, FrontOf
<1>5. PICK l \in Nat : l = Len(fr) - 1  BY <1>2
<1>6. PICK j \in 1..Len(fr) : s[j] = x /\ fr[j].patch = i  BY DEF FrameWait
<1>7. j \in 1..l \/ j = Len(fr)  BY <1>2, <1>5
<1>8. ASSUME j \in 1..l PROVE FrameWait(Front(s), Front(fr), x, i)
  BY <1>2, <1>4, <1>5, <1>6, <1>8 DEF FrameWait
<1> QED BY <1>2, <1>4, <1>6, <1>7, <1>8

-----------------------------------------------------------------------------
(* Code that grows and code whose targets change.                            *)

Retargets(c, c2) ==
  /\ c2 \in Seq(Instruction) /\ Len(c2) = Len(c)
  /\ \A i \in 1..Len(c) : c2[i].op = c[i].op /\ c2[i].node = c[i].node
Emits(n, d) == d \in Seq(Instruction) /\ \A k \in 1..Len(d) : d[k].node = n + 1
Hit(list, from, i) == \E k \in from + 1 .. Len(list) : list[k] = i

LEMMA Sequenced ==
  ASSUME NEW T, NEW L \in Nat, NEW z, z = [j \in 1..L |-> z[j]], \A j \in 1..L : z[j] \in T
  PROVE  z \in Seq(T) /\ Len(z) = L /\ DOMAIN z = 1..L
<1>1. z \in [1..L -> T]  OBVIOUS
<1> QED BY <1>1

LEMMA Retargeted ==
  ASSUME NEW r \in Instruction, NEW to \in Nat, NEW x, x = [r EXCEPT !.to = to]
  PROVE  x \in Instruction /\ x.to = to /\ x.op = r.op /\ x.node = r.node
BY DEF Instruction

LEMMA PatchIs ==
  ASSUME NEW c \in Seq(Instruction), NEW i \in 1..Len(c), NEW to \in Nat,
         NEW c2, c2 = Patch(c, i, to)
  PROVE  Retargets(c, c2) /\ \A j \in 1..Len(c) : c2[j].to = IF j = i THEN to ELSE c[j].to
<1> DEFINE L == Len(c)
<1>1. L \in Nat /\ DOMAIN c = 1..L /\ \A j \in 1..L : c[j] \in Instruction  OBVIOUS
<1>2. PICK x : x = [c[i] EXCEPT !.to = to]  OBVIOUS
<1>3. c2 = [c EXCEPT ![i] = x]  BY <1>2 DEF Patch
<1>4. x \in Instruction /\ x.to = to /\ x.op = c[i].op /\ x.node = c[i].node
  BY <1>1, <1>2, Retargeted
<1> HIDE DEF L
<1>5. DOMAIN c2 = 1..L /\ \A j \in 1..L : c2[j] = IF j = i THEN x ELSE c[j]  BY <1>1, <1>3
<1>6. c2 = [j \in 1..L |-> c2[j]]  BY <1>3, <1>5
<1>7. c2 \in Seq(Instruction) /\ Len(c2) = L
  <2>1. PICK T : T = Instruction  OBVIOUS
  <2>2. \A j \in 1..L : c2[j] \in T  BY <1>1, <1>4, <1>5, <2>1
  <2>3. c2 \in Seq(T) /\ Len(c2) = L  BY <1>1, <1>6, <2>2, Sequenced, SMTT(30)
  <2> QED BY <2>1, <2>3
<1> QED BY <1>4, <1>5, <1>7 DEF Retargets, L

LEMMA PatchAllIs ==
  ASSUME NEW c \in Seq(Instruction), NEW list, NEW from, NEW to \in Nat,
         NEW c2, c2 = PatchAll(c, list, from, to)
  PROVE  /\ Retargets(c, c2)
         /\ \A j \in 1..Len(c) : c2[j].to = IF Hit(list, from, j) THEN to ELSE c[j].to
<1> DEFINE L == Len(c)
<1>1. L \in Nat /\ DOMAIN c = 1..L /\ \A j \in 1..L : c[j] \in Instruction  OBVIOUS
<1>2. DOMAIN c2 = 1..L
      /\ \A j \in 1..L : c2[j] = IF Hit(list, from, j) THEN [c[j] EXCEPT !.to = to] ELSE c[j]
  BY <1>1 DEF PatchAll, Hit
<1> HIDE DEF L
<1>3. ASSUME NEW j \in 1..L
      PROVE  /\ c2[j] \in Instruction /\ c2[j].op = c[j].op /\ c2[j].node = c[j].node
             /\ c2[j].to = IF Hit(list, from, j) THEN to ELSE c[j].to
  <2>1. PICK x : x = [c[j] EXCEPT !.to = to]  OBVIOUS
  <2>2. x \in Instruction /\ x.to = to /\ x.op = c[j].op /\ x.node = c[j].node
    BY <1>1, <2>1, Retargeted
  <2> QED BY <1>1, <1>2, <2>1, <2>2
<1>4. c2 = [j \in 1..L |-> c2[j]]  BY <1>2 DEF PatchAll, L
<1>5. c2 \in Seq(Instruction) /\ Len(c2) = L
  <2>1. PICK T : T = Instruction  OBVIOUS
  <2>2. \A j \in 1..L : c2[j] \in T  BY <1>3, <2>1
  <2>3. c2 \in Seq(T) /\ Len(c2) = L  BY <1>1, <1>4, <2>2, Sequenced
  <2> QED BY <2>1, <2>3
<1> QED BY <1>3, <1>5 DEF Retargets, L

Added(c, d, c2) ==
  /\ c2 \in Seq(Instruction)
  /\ Len(c2) = Len(c) + Len(d) /\ Len(c) \in Nat /\ Len(d) \in Nat
  /\ \A i \in 1..Len(c) : c2[i] = c[i] /\ i \in 1..Len(c2)
  /\ \A i \in Len(c) + 1 .. Len(c2) : c2[i] = d[i - Len(c)] /\ i - Len(c) \in 1..Len(d)
  /\ \A k \in 1..Len(d) : c2[Len(c) + k] = d[k] /\ Len(c) + k \in Len(c) + 1 .. Len(c2)

LEMMA EmitsAfter ==
  ASSUME NEW n \in Nat, NEW c, Coded(c, n), NEW d, Emits(n, d), NEW c2, c2 = c \o d
  PROVE  Follows(c, c2, n) /\ Added(c, d, c2)
<1>1. PICK T : T = Instruction  OBVIOUS
<1>2. c \in Seq(T) /\ d \in Seq(T)  BY <1>1 DEF Coded, Emits
<1>3. /\ c2 \in Seq(T) /\ Len(c2) = Len(c) + Len(d) /\ Len(c) \in Nat /\ Len(d) \in Nat
      /\ \A i \in 1..Len(c2) : c2[i] = IF i <= Len(c) THEN c[i] ELSE d[i - Len(c)]
  BY <1>2, ConcatProperties
<1>4. PICK l \in Nat, k \in Nat : l = Len(c) /\ k = Len(d)  BY <1>3
<1>5. \A i \in 1..l : i \in 1..l + k /\ i <= l  BY <1>4
<1>6. \A i \in l + 1 .. l + k : i \in 1..l + k /\ ~(i <= l) /\ i - l \in 1..k  BY <1>4
<1>7. \A j \in 1..k : l + j \in l + 1 .. l + k /\ (l + j) - l = j  BY <1>4
<1>8. \A i \in 1..l : c2[i] = c[i]  BY <1>3, <1>4, <1>5
<1>9. \A i \in l + 1 .. l + k : c2[i] = d[i - l]  BY <1>3, <1>4, <1>6
<1>10. \A j \in 1..k : c2[l + j] = d[j]  BY <1>7, <1>9
<1>11. \A i \in l + 1 .. l + k : c2[i].node = n + 1  BY <1>4, <1>6, <1>9 DEF Emits
<1>12. Follows(c, c2, n)  BY <1>1, <1>3, <1>4, <1>8, <1>11 DEF Follows
<1> QED BY <1>1, <1>3, <1>4, <1>5, <1>6, <1>7, <1>8, <1>9, <1>10, <1>12 DEF Added

LEMMA RetargetsFollows ==
  ASSUME NEW c, NEW n \in Nat, NEW a, Follows(c, a, n), NEW b, Retargets(a, b), Len(c) \in Nat
  PROVE  Follows(c, b, n)
<1>1. /\ a \in Seq(Instruction) /\ Len(c) <= Len(a) /\ Len(a) \in Nat
      /\ \A i \in 1..Len(c) : a[i].op = c[i].op /\ a[i].node = c[i].node
      /\ \A i \in Len(c) + 1 .. Len(a) : a[i].node = n + 1
  BY DEF Follows
<1>2. /\ b \in Seq(Instruction) /\ Len(b) = Len(a)
      /\ \A i \in 1..Len(a) : b[i].op = a[i].op /\ b[i].node = a[i].node
  BY DEF Retargets
<1>3. \A i \in 1..Len(c) : i \in 1..Len(a)  BY <1>1
<1>4. \A i \in Len(c) + 1 .. Len(a) : i \in 1..Len(a)  BY <1>1
<1> QED BY <1>1, <1>2, <1>3, <1>4 DEF Follows

LEMMA RetargetsBoth ==
  ASSUME NEW a, NEW b, Retargets(a, b), NEW c, Retargets(b, c)
  PROVE  Retargets(a, c)
BY DEF Retargets

LEMMA SameFollows ==
  ASSUME NEW n \in Nat, NEW c, Coded(c, n)
  PROVE  Follows(c, c, n)
<1>1. Len(c) \in Nat  BY CodeLength
<1>2. Len(c) + 1 .. Len(c) = {}  BY <1>1
<1> QED BY <1>1, <1>2 DEF Follows, Coded

(* Parts of what a node emits.                                               *)
Quiet(d) == \A k \in 1..Len(d) : d[k].op \notin {"jump", "branch"}

LEMMA EmitsOne ==
  ASSUME NEW n \in Nat, NEW x \in Instruction, x.node = n + 1
  PROVE  /\ Emits(n, <<x>>) /\ Len(<<x>>) = 1 /\ <<x>>[1] = x
         /\ x.op \notin {"jump", "branch"} => Quiet(<<x>>)
<1>1. PICK T : T = Instruction  OBVIOUS
<1>2. <<x>> \in Seq(T) /\ Len(<<x>>) = 1 /\ <<x>>[1] = x  BY <1>1
<1>3. \A k \in 1..1 : k = 1  OBVIOUS
<1> QED BY <1>1, <1>2, <1>3 DEF Emits, Quiet

LEMMA EmitsNone ==
  ASSUME NEW n
  PROVE  Emits(n, <<>>) /\ Quiet(<<>>) /\ Len(<<>>) = 0
<1>1. <<>> \in Seq(Instruction) /\ Len(<<>>) = 0 /\ 1..0 = {}  OBVIOUS
<1> QED BY <1>1 DEF Emits, Quiet

LEMMA EmitsBoth ==
  ASSUME NEW n, NEW d, Emits(n, d), NEW e, Emits(n, e), NEW x, x = d \o e
  PROVE  /\ Emits(n, x) /\ Len(x) = Len(d) + Len(e) /\ Len(d) \in Nat /\ Len(e) \in Nat
         /\ \A k \in 1..Len(d) : x[k] = d[k] /\ k \in 1..Len(x)
         /\ \A k \in 1..Len(e) : x[Len(d) + k] = e[k] /\ Len(d) + k \in 1..Len(x)
         /\ \A k \in 1..Len(x) : k \in 1..Len(d) \/ \E j \in 1..Len(e) : k = Len(d) + j
         /\ Quiet(d) /\ Quiet(e) => Quiet(x)
<1>1. PICK T : T = Instruction  OBVIOUS
<1>2. d \in Seq(T) /\ e \in Seq(T)  BY <1>1 DEF Emits
<1>3. /\ x \in Seq(T) /\ Len(x) = Len(d) + Len(e) /\ Len(d) \in Nat /\ Len(e) \in Nat
      /\ \A i \in 1..Len(x) : x[i] = IF i <= Len(d) THEN d[i] ELSE e[i - Len(d)]
  BY <1>2, ConcatProperties
<1>4. PICK l \in Nat, m \in Nat : l = Len(d) /\ m = Len(e)  BY <1>3
<1>5. \A i \in 1..l : i \in 1..l + m /\ i <= l  BY <1>4
<1>6. \A j \in 1..m : l + j \in 1..l + m /\ ~(l + j <= l) /\ (l + j) - l = j  BY <1>4
<1>7. \A i \in 1..l + m : i \in 1..l \/ (i - l \in 1..m /\ i = l + (i - l))  BY <1>4
<1>8. \A i \in 1..l : x[i] = d[i]  BY <1>3, <1>4, <1>5
<1>9. \A j \in 1..m : x[l + j] = e[j]  BY <1>3, <1>4, <1>6
<1>10. \A i \in 1..l + m : i \in 1..l \/ \E j \in 1..m : i = l + j  BY <1>7
<1>11. \A i \in 1..l + m : x[i].node = n + 1
  BY <1>4, <1>8, <1>9, <1>10 DEF Emits
<1>12. Quiet(d) /\ Quiet(e) => Quiet(x)  BY <1>3, <1>4, <1>8, <1>9, <1>10 DEF Quiet
<1> QED BY <1>1, <1>3, <1>4, <1>5, <1>6, <1>8, <1>9, <1>10, <1>11, <1>12 DEF Emits

-----------------------------------------------------------------------------
(* What the generator emits for a node besides its jumps.                    *)

Ops == {"alloc", "set", "static", "promote", "take", "update", "store", "free", "save", "restore",
        "branch", "jump", "ret"}
Tabled(n) ==
  /\ at = n + 1 /\ n \in Nat
  /\ symbols \in Seq(SymbolType) /\ Len(symbols) <= MaxLocals
  /\ \A i \in 1..Len(symbols) : symbols[i].node \in 0..n

LEMMA LocalsFit == MaxLocals \in Nat /\ 0 \in 0..MaxLocals
<1>1. MaxLocals \in Nat \ {0}  BY CapacityAssumption, Zenon
<1> QED BY <1>1

LEMMA InsIs ==
  ASSUME NEW n, at = n + 1, n \in Nat, NEW op \in Ops, NEW r \in 0..MaxLocals, NEW to \in Nat,
         NEW x, x = Ins(op, r, to)
  PROVE  x \in Instruction /\ x.op = op /\ x.to = to /\ x.node = n + 1
BY DEF Ins, Instruction, Ops

LEMMA OneIs ==
  ASSUME NEW n, at = n + 1, n \in Nat, NEW op \in Ops, NEW r \in 0..MaxLocals, NEW to \in Nat,
         NEW x, x = <<Ins(op, r, to)>>
  PROVE  /\ Emits(n, x) /\ Len(x) = 1 /\ x[1].op = op /\ x[1].to = to
         /\ op \notin {"jump", "branch"} => Quiet(x)
<1>1. PICK y : y = Ins(op, r, to)  OBVIOUS
<1>2. y \in Instruction /\ y.op = op /\ y.to = to /\ y.node = n + 1  BY <1>1, InsIs
<1>3. /\ Emits(n, <<y>>) /\ Len(<<y>>) = 1 /\ <<y>>[1] = y
      /\ y.op \notin {"jump", "branch"} => Quiet(<<y>>)
  BY <1>2, EmitsOne
<1> QED BY <1>1, <1>2, <1>3

LEMMA AppendIs ==
  ASSUME NEW n, n \in Nat, NEW d, Emits(n, d), NEW y \in Instruction, y.node = n + 1,
         NEW e, e = Append(d, y)
  PROVE  /\ e = d \o <<y>> /\ Emits(n, e)
         /\ Quiet(d) /\ y.op \notin {"jump", "branch"} => Quiet(e)
<1>1. PICK T : T = Instruction  OBVIOUS
<1>2. d \in Seq(T) /\ y \in T  BY <1>1 DEF Emits
<1>3. e = d \o <<y>>  BY <1>2, AppendIsConcat
<1>4. /\ Emits(n, <<y>>)
      /\ y.op \notin {"jump", "branch"} => Quiet(<<y>>)
  BY EmitsOne
<1> QED BY <1>3, <1>4, EmitsBoth

(* The objects that are freed, register by register.                         *)
Owned(regs, left, k) == regs[k] \in left /\ symbols[regs[k]].owns = 1
Freeing(f, regs, left, L) ==
  f = [k \in 0..L |-> IF k = 0 THEN <<>>
                      ELSE IF Owned(regs, left, k) THEN Append(f[k - 1], Ins("free", regs[k], 0))
                      ELSE f[k - 1]]

LEMMA FreeingExists ==
  ASSUME NEW regs, NEW left, NEW L \in Nat
  PROVE  \E f : Freeing(f, regs, left, L)
<1> DEFINE Bad == {m \in Nat : ~\E f : Freeing(f, regs, left, m)}
<1>1. CASE Bad = {}  BY <1>1
<1>2. CASE Bad # {}
  <2>1. PICK m \in Bad : \A k \in Bad : m <= k
    <3>1. Bad \in SUBSET Nat  OBVIOUS
    <3> HIDE DEF Bad
    <3> QED BY <1>2, <3>1, Least
  <2>2. m # 0
    <3>1. PICK f : f = [k \in 0..0 |-> <<>>]  OBVIOUS
    <3>2. \A k \in 0..0 : k = 0  OBVIOUS
    <3>3. Freeing(f, regs, left, 0)  BY <3>1, <3>2 DEF Freeing
    <3> QED BY <3>3
  <2>3. m - 1 \in Nat /\ m - 1 \notin Bad  BY <2>1, <2>2
  <2>4. PICK f : Freeing(f, regs, left, m - 1)  BY <2>3
  <2>5. PICK y : y = IF Owned(regs, left, m) THEN Append(f[m - 1], Ins("free", regs[m], 0))
                     ELSE f[m - 1]
    OBVIOUS
  <2>6. PICK g : g = [k \in 0..m |-> IF k = m THEN y ELSE f[k]]  OBVIOUS
  <2>7. g[m - 1] = f[m - 1] /\ \A k \in 0 .. m - 1 : g[k] = f[k]  BY <2>3, <2>6
  <2>8. ASSUME NEW k \in 0..m
        PROVE  g[k] = IF k = 0 THEN <<>>
                      ELSE IF Owned(regs, left, k) THEN Append(g[k - 1], Ins("free", regs[k], 0))
                      ELSE g[k - 1]
    <3>1. CASE k = m  BY <2>2, <2>5, <2>6, <2>7, <3>1
    <3>2. CASE k # m
      <4>1. k \in 0 .. m - 1 /\ (k # 0 => k - 1 \in 0 .. m - 1)  BY <2>3, <3>2
      <4>2. f[k] = IF k = 0 THEN <<>>
                   ELSE IF Owned(regs, left, k) THEN Append(f[k - 1], Ins("free", regs[k], 0))
                   ELSE f[k - 1]
        BY <2>4, <4>1 DEF Freeing
      <4> QED BY <2>7, <4>1, <4>2
    <3> QED BY <3>1, <3>2
  <2>9. Freeing(g, regs, left, m)
    <3>1. g = [k \in 0..m |-> g[k]]  BY <2>6
    <3>2. g = [k \in 0..m |-> IF k = 0 THEN <<>>
                      ELSE IF Owned(regs, left, k) THEN Append(g[k - 1], Ins("free", regs[k], 0))
                      ELSE g[k - 1]]
      BY <2>8, <3>1
    <3> QED BY <3>2 DEF Freeing
  <2> QED BY <2>1, <2>9
<1> QED BY <1>1, <1>2

LEMMA FreeingIs ==
  ASSUME NEW n, Tabled(n), NEW regs, NEW left, NEW L \in Nat, NEW f, Freeing(f, regs, left, L),
         \A k \in 1..L : regs[k] \in 0..MaxLocals
  PROVE  Emits(n, f[L]) /\ Quiet(f[L])
<1> DEFINE Bad == {k \in 0..L : ~(Emits(n, f[k]) /\ Quiet(f[k]))}
<1>1. CASE Bad = {}  BY <1>1
<1>2. CASE Bad # {}
  <2>1. PICK k \in Bad : \A m \in Bad : k <= m
    <3>1. Bad \in SUBSET Nat  OBVIOUS
    <3> HIDE DEF Bad
    <3> QED BY <1>2, <3>1, Least
  <2>2. k \in 0..L /\ ~(Emits(n, f[k]) /\ Quiet(f[k]))  OBVIOUS
  <2>3. f[k] = IF k = 0 THEN <<>>
               ELSE IF Owned(regs, left, k) THEN Append(f[k - 1], Ins("free", regs[k], 0))
               ELSE f[k - 1]
    BY <2>2 DEF Freeing
  <2>4. k # 0
    <3>1. Emits(n, <<>>) /\ Quiet(<<>>)  BY EmitsNone
    <3> QED BY <2>2, <2>3, <3>1
  <2>5. k - 1 \in 0..L /\ ~(k <= k - 1) /\ k \in 1..L  BY <2>2, <2>4
  <2>6. Emits(n, f[k - 1]) /\ Quiet(f[k - 1])  BY <2>1, <2>5
  <2>7. PICK y : y = Ins("free", regs[k], 0)  OBVIOUS
  <2>8. y \in Instruction /\ y.op = "free" /\ y.node = n + 1
    <3>1. PICK r : r = regs[k]  OBVIOUS
    <3>2. PICK op, to : op = "free" /\ to = 0  OBVIOUS
    <3>3. r \in 0..MaxLocals /\ op \in Ops /\ to \in Nat  BY <2>5, <3>1, <3>2 DEF Ops
    <3>4. y = Ins(op, r, to)  BY <2>7, <3>1, <3>2
    <3>5. at = n + 1 /\ n \in Nat  BY DEF Tabled
    <3>6. y \in Instruction /\ y.op = op /\ y.to = to /\ y.node = n + 1
      BY <3>3, <3>4, <3>5, InsIs
    <3> QED BY <3>2, <3>6
  <2>9. PICK d, e : d = f[k - 1] /\ e = Append(d, y)  OBVIOUS
  <2>10. Emits(n, e) /\ Quiet(e)  BY <2>6, <2>8, <2>9, AppendIs DEF Tabled
  <2> QED BY <2>2, <2>3, <2>4, <2>6, <2>7, <2>9, <2>10
<1> QED BY <1>1, <1>2

LEMMA FreesIs ==
  ASSUME NEW n, Tabled(n), NEW regs, NEW left, Len(regs) \in Nat,
         \A k \in 1..Len(regs) : regs[k] \in 0..MaxLocals, NEW d, d = Frees(regs, left)
  PROVE  Emits(n, d) /\ Quiet(d)
<1>1. PICK L \in Nat : L = Len(regs)  OBVIOUS
<1>2. \E f : Freeing(f, regs, left, L)  BY FreeingExists
<1>3. PICK f : Freeing(f, regs, left, L) /\ d = f[L]
  BY <1>1, <1>2 DEF Frees, Freeing, Owned
<1> QED BY <1>1, <1>3, FreeingIs

LEMMA CleanupIs ==
  ASSUME NEW n, Tabled(n)
  PROVE  /\ \A kept : Emits(n, CleanupFrom(kept)) /\ Quiet(CleanupFrom(kept))
         /\ Emits(n, AggregateCleanup) /\ Quiet(AggregateCleanup)
         /\ \A depth, epoch : /\ Emits(n, GotoCleanup(depth, epoch))
                              /\ Quiet(GotoCleanup(depth, epoch))
<1>1. PICK L \in Nat : L = Len(symbols)
  BY DEF Tabled
<1>2. DOMAIN symbols = 1..L /\ L <= MaxLocals /\ MaxLocals \in Nat
  BY <1>1, LocalsFit DEF Tabled
<1>3. \A i \in 1..L : i \in 0..MaxLocals /\ L + 1 - i \in 0..MaxLocals  BY <1>2
<1>4. Len(NewestFirst) = L /\ \A k \in 1..L : NewestFirst[k] \in 0..MaxLocals
  <2>1. PICK z : z = NewestFirst  OBVIOUS
  <2>2. z = [k \in 1..L |-> L + 1 - k]  BY <1>1, <1>2, <2>1 DEF NewestFirst
  <2>3. z = [k \in 1..L |-> z[k]] /\ \A k \in 1..L : z[k] \in 0..MaxLocals  BY <1>3, <2>2
  <2>4. Len(z) = L  BY <2>3, Sequenced
  <2> QED BY <2>1, <2>3, <2>4
<1>5. Len(OldestFirst) = L /\ \A k \in 1..L : OldestFirst[k] \in 0..MaxLocals
  <2>1. PICK z : z = OldestFirst  OBVIOUS
  <2>2. z = [k \in 1..L |-> k]  BY <1>1, <1>2, <2>1 DEF OldestFirst
  <2>3. z = [k \in 1..L |-> z[k]] /\ \A k \in 1..L : z[k] \in 0..MaxLocals  BY <1>3, <2>2
  <2>4. Len(z) = L  BY <2>3, Sequenced
  <2> QED BY <2>1, <2>3, <2>4
<1>6. \A left : Emits(n, Frees(NewestFirst, left)) /\ Quiet(Frees(NewestFirst, left))
  <2>1. SUFFICES ASSUME NEW left
                 PROVE  Emits(n, Frees(NewestFirst, left)) /\ Quiet(Frees(NewestFirst, left))
    OBVIOUS
  <2>2. PICK regs, d : regs = NewestFirst /\ d = Frees(regs, left)  OBVIOUS
  <2>3. Len(regs) \in Nat /\ \A k \in 1..Len(regs) : regs[k] \in 0..MaxLocals  BY <1>4, <2>2
  <2> QED BY <2>2, <2>3, FreesIs
<1>7. \A left : Emits(n, Frees(OldestFirst, left)) /\ Quiet(Frees(OldestFirst, left))
  <2>1. SUFFICES ASSUME NEW left
                 PROVE  Emits(n, Frees(OldestFirst, left)) /\ Quiet(Frees(OldestFirst, left))
    OBVIOUS
  <2>2. PICK regs, d : regs = OldestFirst /\ d = Frees(regs, left)  OBVIOUS
  <2>3. Len(regs) \in Nat /\ \A k \in 1..Len(regs) : regs[k] \in 0..MaxLocals  BY <1>5, <2>2
  <2> QED BY <2>2, <2>3, FreesIs
<1> QED BY <1>6, <1>7 DEF CleanupFrom, AggregateCleanup, GotoCleanup

LEMMA StorageIs ==
  ASSUME NEW n, Tabled(n), NEW kind, NEW r \in 0..MaxLocals, NEW d, d = Storage(kind, r)
  PROVE  Emits(n, d) /\ Quiet(d) /\ Len(d) = 1
<1>1. PICK op : op = CASE kind = "object" -> "alloc" [] kind = "static" -> "static" [] OTHER -> "set"
  OBVIOUS
<1>2. op \in Ops /\ op \notin {"jump", "branch"} /\ 0 \in Nat
  <2>1. CASE kind = "object"  BY <1>1, <2>1 DEF Ops
  <2>2. CASE kind = "static"  BY <1>1, <2>2 DEF Ops
  <2>3. CASE kind \notin {"object", "static"}  BY <1>1, <2>3 DEF Ops
  <2> QED BY <2>1, <2>2, <2>3
<1>3. d = <<Ins(op, r, 0)>>  BY <1>1 DEF Storage
<1> QED BY <1>2, <1>3, OneIs DEF Tabled

LEMMA TouchIs ==
  ASSUME NEW n, Tabled(n), NEW kind, NEW r \in 0..MaxLocals, NEW d, d = Touch(kind, r)
  PROVE  Emits(n, d) /\ Quiet(d) /\ Len(d) \in Nat
<1>0. at = n + 1 /\ n \in Nat /\ 0 \in Nat  BY DEF Tabled
<1>1. PICK a, b, c, e : /\ a = <<Ins("promote", r, 0)>> /\ b = <<Ins("take", r, 0)>>
                        /\ c = <<Ins("update", r, 0)>> /\ e = <<Ins("store", r, 0)>>
  OBVIOUS
<1>2. Emits(n, a) /\ Quiet(a)
  <2>1. PICK op, to : op = "promote" /\ to = 0  OBVIOUS
  <2>2. op \in Ops /\ op \notin {"jump", "branch"} /\ to \in Nat  BY <2>1 DEF Ops
  <2>3. a = <<Ins(op, r, to)>>  BY <1>1, <2>1
  <2> QED BY <1>0, <2>2, <2>3, OneIs
<1>3. Emits(n, b) /\ Quiet(b)
  <2>1. PICK op, to : op = "take" /\ to = 0  OBVIOUS
  <2>2. op \in Ops /\ op \notin {"jump", "branch"} /\ to \in Nat  BY <2>1 DEF Ops
  <2>3. b = <<Ins(op, r, to)>>  BY <1>1, <2>1
  <2> QED BY <1>0, <2>2, <2>3, OneIs
<1>4. Emits(n, c) /\ Quiet(c)
  <2>1. PICK op, to : op = "update" /\ to = 0  OBVIOUS
  <2>2. op \in Ops /\ op \notin {"jump", "branch"} /\ to \in Nat  BY <2>1 DEF Ops
  <2>3. c = <<Ins(op, r, to)>>  BY <1>1, <2>1
  <2> QED BY <1>0, <2>2, <2>3, OneIs
<1>5. Emits(n, e) /\ Quiet(e)
  <2>1. PICK op, to : op = "store" /\ to = 0  OBVIOUS
  <2>2. op \in Ops /\ op \notin {"jump", "branch"} /\ to \in Nat  BY <2>1 DEF Ops
  <2>3. e = <<Ins(op, r, to)>>  BY <1>1, <2>1
  <2> QED BY <1>0, <2>2, <2>3, OneIs
<1>6. Emits(n, <<>>) /\ Quiet(<<>>)  BY EmitsNone
<1>7. d = a \o b \/ d = <<>> \o b \/ d = c \/ d = e
  <2>1. CASE kind = "address" /\ symbols[r].backed = 0  BY <1>1, <2>1 DEF Touch
  <2>2. CASE kind = "address" /\ symbols[r].backed # 0  BY <1>1, <2>2 DEF Touch
  <2>3. CASE kind # "address" /\ symbols[r].backed = 0  BY <1>1, <2>3 DEF Touch
  <2>4. CASE kind # "address" /\ symbols[r].backed # 0  BY <1>1, <2>4 DEF Touch
  <2> QED BY <2>1, <2>2, <2>3, <2>4
<1>8. d = a \o b => Emits(n, d) /\ Quiet(d)  BY <1>2, <1>3, EmitsBoth
<1>9. d = <<>> \o b => Emits(n, d) /\ Quiet(d)  BY <1>3, <1>6, EmitsBoth
<1>10. Emits(n, d) /\ Quiet(d)  BY <1>4, <1>5, <1>7, <1>8, <1>9
<1>11. Len(d) \in Nat  BY <1>10 DEF Emits
<1> QED BY <1>10, <1>11

(* An expression jumps over the second operand of && or ||, to the next node. *)
LEMMA ExpressionIs ==
  ASSUME NEW n, Tabled(n), NEW how, NEW b, Emits(n, b), Quiet(b), Len(b) \in Nat,
         Len(code) \in Nat, NEW d, d = InContext(how, b)
  PROVE  /\ Emits(n, d)
         /\ \A k \in 1..Len(d) : d[k].op \in {"jump", "branch"} =>
              d[k].to = Len(code) + Len(d) + 1
<1>0. at = n + 1 /\ n \in Nat /\ 0 \in Nat /\ 0 \in 0..MaxLocals
  BY LocalsFit DEF Tabled
<1>1. CASE how = "argument"
  <2>1. PICK a, c, e : /\ a = <<Ins("save", 0, 0)>> /\ c = <<Ins("restore", 0, 0)>> /\ e = a \o b
    OBVIOUS
  <2>2. Emits(n, a) /\ Quiet(a)
    <3>1. PICK op, to : op = "save" /\ to = 0  OBVIOUS
    <3>2. op \in Ops /\ op \notin {"jump", "branch"} /\ to \in Nat  BY <3>1 DEF Ops
    <3>3. a = <<Ins(op, to, to)>> /\ to \in 0..MaxLocals  BY <1>0, <2>1, <3>1
    <3> QED BY <1>0, <3>2, <3>3, OneIs
  <2>3. Emits(n, c) /\ Quiet(c)
    <3>1. PICK op, to : op = "restore" /\ to = 0  OBVIOUS
    <3>2. op \in Ops /\ op \notin {"jump", "branch"} /\ to \in Nat  BY <3>1 DEF Ops
    <3>3. c = <<Ins(op, to, to)>> /\ to \in 0..MaxLocals  BY <1>0, <2>1, <3>1
    <3> QED BY <1>0, <3>2, <3>3, OneIs
  <2>4. Emits(n, e) /\ Quiet(e)
    <3>1. e = a \o b  BY <2>1
    <3> QED BY <2>2, <3>1, EmitsBoth
  <2>5. d = e \o c  BY <1>1, <2>1 DEF InContext
  <2>6. Emits(n, d) /\ Quiet(d)  BY <2>3, <2>4, <2>5, EmitsBoth
  <2> QED BY <2>6 DEF Quiet
<1>2. CASE how = "operand"
  <2>1. PICK to : to = Size(code) + 1 + Len(b)  OBVIOUS
  <2>2. to \in Nat /\ to = Len(code) + (1 + Len(b)) + 1  BY <2>1 DEF Size
  <2>0. to \in Nat  BY <2>2
  <2>3. PICK a : a = <<Ins("branch", 0, to)>>  OBVIOUS
  <2>4. Emits(n, a) /\ Len(a) = 1 /\ a[1].op = "branch" /\ a[1].to = to
    <3>1. PICK op : op = "branch"  OBVIOUS
    <3>2. op \in Ops  BY <3>1 DEF Ops
    <3>3. PICK r : r = 0  OBVIOUS
    <3>4. a = <<Ins(op, r, to)>> /\ r \in 0..MaxLocals  BY <1>0, <2>3, <3>1, <3>3
    <3>5. /\ Emits(n, a) /\ Len(a) = 1 /\ a[1].op = op /\ a[1].to = to
          /\ op \notin {"jump", "branch"} => Quiet(a)
      <4>1. PICK y : y = Ins(op, r, to)  OBVIOUS
      <4>2. y \in Instruction /\ y.op = op /\ y.to = to /\ y.node = n + 1
        BY <1>0, <2>0, <3>1, <3>4, <4>1 DEF Ins, Instruction
      <4>3. a = <<y>>  BY <3>4, <4>1
      <4>4. /\ Emits(n, <<y>>) /\ Len(<<y>>) = 1 /\ <<y>>[1] = y
            /\ y.op \notin {"jump", "branch"} => Quiet(<<y>>)
        BY <1>0, <4>2, EmitsOne
      <4> QED BY <4>2, <4>3, <4>4
    <3> QED BY <3>1, <3>5
  <2>5. d = a \o b  BY <1>2, <2>1, <2>3 DEF InContext
  <2>6. /\ Emits(n, d) /\ Len(d) = Len(a) + Len(b) /\ Len(a) \in Nat /\ Len(b) \in Nat
        /\ \A k \in 1..Len(a) : d[k] = a[k] /\ k \in 1..Len(d)
        /\ \A k \in 1..Len(b) : d[Len(a) + k] = b[k] /\ Len(a) + k \in 1..Len(d)
        /\ \A k \in 1..Len(d) : k \in 1..Len(a) \/ \E j \in 1..Len(b) : k = Len(a) + j
        /\ Quiet(a) /\ Quiet(b) => Quiet(d)
    BY <2>4, <2>5, EmitsBoth
  <2>7. ASSUME NEW k \in 1..Len(d), d[k].op \in {"jump", "branch"}
        PROVE  d[k].to = Len(code) + Len(d) + 1
    <3>1. k \notin 1..Len(a) => d[k].op \notin {"jump", "branch"}  BY <2>6 DEF Quiet
    <3>2. k = 1  BY <2>4, <2>7, <3>1
    <3> QED BY <2>2, <2>4, <2>6, <3>2
  <2> QED BY <2>6, <2>7
<1>3. CASE how \notin {"argument", "operand"}
  <2>1. d = b  BY <1>3 DEF InContext
  <2> QED BY <2>1 DEF Quiet
<1> QED BY <1>1, <1>2, <1>3

-----------------------------------------------------------------------------
(* Every jump has landed or waits.                                           *)

Waiting(t, st, c, n, fr, bp, cp, gp, lb, i) ==
  LET x == c[i].node
  IN  \/ /\ \/ t[x].kind \in {"if", "else", "while", "for"}
            \/ t[x].kind = "switch" /\ c[i].op = "jump"
         /\ FrameWait(Stack(st, n), fr, x, i)
      \/ t[x].kind = "switch" /\ c[i].op = "branch" /\ CaseWait(t, st, c, n, x, i)
      \/ t[x].kind = "break" /\ Listed(bp, i)
      \/ t[x].kind = "continue" /\ Listed(cp, i)
      \/ t[x].kind = "goto" /\ GotoWait(t, gp, lb, t[x].name, i)
Placed(t, st, c, n, fr, bp, cp, gp, lb) ==
  \A i \in 1..Len(c) : c[i].op \in {"jump", "branch"} =>
    Lands(t, st, c, n, i) \/ Waiting(t, st, c, n, fr, bp, cp, gp, lb, i)

(* Node n + 1 leaves what waits waiting, or lands it.                        *)
TargetsKept(t, st, c, c2, n) ==
  \A i \in 1..Len(c) : c2[i].to = c[i].to \/ Lands(t, st, c2, n + 1, i)
FramesWait(t, st, c, c2, n, fr, fr2) ==
  \A i \in 1..Len(c) : \A x :
    FrameWait(Stack(st, n), fr, x, i) /\ c[i].node = x =>
      FrameWait(Stack(st, n + 1), fr2, x, i) \/ Lands(t, st, c2, n + 1, i)
CasesWait(t, st, c, c2, n) ==
  t[n + 1].kind = "case" =>
    \A i \in 1..Len(c) : \A x :
      /\ c[i].node = x /\ t[x].kind = "switch" /\ c[i].op = "branch"
      /\ n + 1 \in Branches(t, st, x) /\ RankIn(Branches(t, st, x), n + 1) = Rank(c2, i)
      => Lands(t, st, c2, n + 1, i)
ListWaits(t, st, c, c2, n, list, list2) ==
  \A i \in 1..Len(c) : Listed(list, i) => Listed(list2, i) \/ Lands(t, st, c2, n + 1, i)
GotosWait(t, st, c, c2, n, gp, lb, gp2, lb2) ==
  \A i \in 1..Len(c) : \A l : GotoWait(t, gp, lb, l, i) =>
    GotoWait(t, gp2, lb2, l, i) \/ Lands(t, st, c2, n + 1, i)

LEMMA PlacedOn ==
  ASSUME NEW t, NEW st, TreeOK(t, st), NEW n \in 0..Len(t) - 1, NEW c, Coded(c, n), NEW c2,
         Follows(c, c2, n), NEW fr, NEW bp, NEW cp, NEW gp, NEW lb,
         NEW fr2, NEW bp2, NEW cp2, NEW gp2, NEW lb2, Placed(t, st, c, n, fr, bp, cp, gp, lb),
         TargetsKept(t, st, c, c2, n), FramesWait(t, st, c, c2, n, fr, fr2),
         CasesWait(t, st, c, c2, n), ListWaits(t, st, c, c2, n, bp, bp2),
         ListWaits(t, st, c, c2, n, cp, cp2), GotosWait(t, st, c, c2, n, gp, lb, gp2, lb2),
         \A i \in Len(c) + 1 .. Len(c2) : c2[i].op \in {"jump", "branch"} =>
           \/ Lands(t, st, c2, n + 1, i)
           \/ Waiting(t, st, c2, n + 1, fr2, bp2, cp2, gp2, lb2, i)
  PROVE  Placed(t, st, c2, n + 1, fr2, bp2, cp2, gp2, lb2)
<1>1. n \in Nat  BY DEF TreeOK
<1>2. ASSUME NEW i \in 1..Len(c2), c2[i].op \in {"jump", "branch"}
      PROVE  \/ Lands(t, st, c2, n + 1, i)
             \/ Waiting(t, st, c2, n + 1, fr2, bp2, cp2, gp2, lb2, i)
  <2>1. i \in 1..Len(c) \/ i \in Len(c) + 1 .. Len(c2)
    <3>1. Len(c) \in Nat  BY <1>1, CodeLength
    <3>2. Len(c2) \in Nat  BY DEF Follows
    <3> QED BY <3>1, <3>2
  <2>2. CASE i \in Len(c) + 1 .. Len(c2)  BY <1>2, <2>2
  <2>3. CASE i \in 1..Len(c)
    <3>1. c2[i].op = c[i].op /\ c2[i].node = c[i].node  BY <1>1, <2>3, HeldOn
    <3>2. SUFFICES ASSUME ~Lands(t, st, c2, n + 1, i)
                   PROVE  Waiting(t, st, c2, n + 1, fr2, bp2, cp2, gp2, lb2, i)
      OBVIOUS
    <3>3. c2[i].to = c[i].to  BY <2>3, <3>2 DEF TargetsKept
    <3>4. ~Lands(t, st, c, n, i)  BY <1>1, <2>3, <3>2, <3>3, LandsOn
    <3>5. Waiting(t, st, c, n, fr, bp, cp, gp, lb, i)  BY <1>2, <2>3, <3>1, <3>4 DEF Placed
    <3>6. PICK x : x = c[i].node  OBVIOUS
    <3>7. FrameWait(Stack(st, n), fr, x, i) => FrameWait(Stack(st, n + 1), fr2, x, i)
      BY <2>3, <3>2, <3>6 DEF FramesWait
    <3>8. t[x].kind = "switch" /\ c[i].op = "branch" /\ CaseWait(t, st, c, n, x, i) =>
            CaseWait(t, st, c2, n + 1, x, i)
      <4>1. SUFFICES ASSUME t[x].kind = "switch", c[i].op = "branch", CaseWait(t, st, c, n, x, i),
                            ~CaseWait(t, st, c2, n + 1, x, i)
                     PROVE  FALSE
        OBVIOUS
      <4>2. /\ t[n + 1].kind = "case" /\ n + 1 \in Branches(t, st, x)
            /\ RankIn(Branches(t, st, x), n + 1) = Rank(c2, i)
        BY <2>3, <4>1, CaseWaitOn
      <4> QED BY <2>3, <3>2, <3>6, <4>1, <4>2 DEF CasesWait
    <3>9. Listed(bp, i) => Listed(bp2, i)  BY <2>3, <3>2 DEF ListWaits
    <3>10. Listed(cp, i) => Listed(cp2, i)  BY <2>3, <3>2 DEF ListWaits
    <3>11. \A l : GotoWait(t, gp, lb, l, i) => GotoWait(t, gp2, lb2, l, i)
      BY <2>3, <3>2 DEF GotosWait
    <3> QED BY <3>1, <3>5, <3>6, <3>7, <3>8, <3>9, <3>10, <3>11 DEF Waiting
  <2> QED BY <2>1, <2>2, <2>3
<1> QED BY <1>2 DEF Placed

LEMMA LandsAt ==
  ASSUME NEW t, NEW st, NEW c, NEW n \in Nat, Coded(c, n), n <= Len(t), Len(t) \in Nat,
         NEW i \in 1..Len(c), NEW how, NEW k, how = "at",
         Aims(t, st, c[i].node, c[i].op, Rank(c, i), how, k),
         k \in 1..n + 1, c[i].to = CodeAt(c, k)
  PROVE  Lands(t, st, c, n, i)
<1>1. k \in 1..Len(t) + 1  OBVIOUS
<1>2. Valued(c, n, i, how, k, c[i].to)  BY DEF Valued
<1> QED BY <1>1, <1>2 DEF Lands

(* The beginning of node n + 1 and of the one behind it.                     *)
LEMMA CodeNow ==
  ASSUME NEW n \in Nat, NEW c, Coded(c, n), NEW c2, Follows(c, c2, n)
  PROVE  /\ CodeAt(c2, n + 1) = Len(c) + 1 /\ CodeAt(c2, n + 2) = Len(c2) + 1
         /\ Coded(c2, n + 1) /\ Len(c) \in Nat /\ Len(c2) \in Nat /\ Len(c) <= Len(c2)
<1>1. Coded(c2, n + 1) /\ \A k \in 0..n + 1 : CodeAt(c2, k) = CodeAt(c, k)  BY CodeAtSame
<1>2. n + 1 \in 0..n + 1 /\ n + 1 \in Nat /\ (n + 1) + 1 = n + 2  OBVIOUS
<1>3. CodeAt(c, n + 1) = Len(c) + 1  BY CodeAtEnd
<1>4. CodeAt(c2, n + 2) = Len(c2) + 1  BY <1>1, <1>2, CodeAtEnd
<1>5. Len(c) \in Nat  BY CodeLength
<1> QED BY <1>1, <1>2, <1>3, <1>4, <1>5 DEF Follows

-----------------------------------------------------------------------------
(* The contexts of break and continue, by what the next node is.             *)

Context(t, st, c, n, K, kind, ctx, list) ==
  Contexts(t, st, n, On(t, st, n, K), c, K, kind, ctx, list)
Apart(kind, K) == kind \notin K /\ (kind \in Ends => Closes(kind) \cap K = {})

LEMMA ContextSame ==
  ASSUME NEW t, NEW st, TreeOK(t, st), NEW n \in 0..Len(t) - 1, NEW c, Coded(c, n), NEW c2,
         Follows(c, c2, n), NEW K \in {Breakable, LoopKinds}, NEW kind, NEW ctx, NEW list,
         Context(t, st, c, n, K, kind, ctx, list), NEW x, x = t[n + 1].kind, Apart(x, K)
  PROVE  Context(t, st, c2, n + 1, K, kind, ctx, list)
<1>1. n \in Nat /\ On(t, st, n + 1, K) = On(t, st, n, K)  BY OnNext DEF Apart
<1>2. PICK S : S = On(t, st, n, K)  OBVIOUS
<1>3. Contexts(t, st, n, S, c, K, kind, ctx, list)  BY <1>2 DEF Context
<1>4. Contexts(t, st, n + 1, S, c2, K, kind, ctx, list)  BY <1>1, <1>3, ContextsKeep
<1> QED BY <1>1, <1>2, <1>4 DEF Context

LEMMA ContextPush ==
  ASSUME NEW t, NEW st, TreeOK(t, st), NEW n \in 0..Len(t) - 1, NEW c, Coded(c, n), NEW c2,
         Follows(c, c2, n), NEW K \in {Breakable, LoopKinds}, NEW kind, NEW ctx, NEW list,
         Context(t, st, c, n, K, kind, ctx, list), t[n + 1].kind \in K,
         NEW f \in ContextType, f.patches = Len(list), NEW ctx2, Grows(ctx2, ctx, f)
  PROVE  Context(t, st, c2, n + 1, K, kind, ctx2, list)
<1>1. n \in Nat /\ On(t, st, n + 1, K) = On(t, st, n, K) \cup {n + 1}
  <2>1. PICK x : x = t[n + 1].kind  OBVIOUS
  <2> QED BY <2>1, OnNext
<1>2. PICK S : S = On(t, st, n, K)  OBVIOUS
<1>3. Contexts(t, st, n, S, c, K, kind, ctx, list)  BY <1>2 DEF Context
<1>4. Contexts(t, st, n + 1, S \cup {n + 1}, c2, K, kind, ctx2, list)
  BY <1>1, <1>3, ContextsOpen
<1> QED BY <1>1, <1>2, <1>4 DEF Context

LEMMA ContextJoin ==
  ASSUME NEW t, NEW st, TreeOK(t, st), NEW n \in 0..Len(t) - 1, NEW c, Coded(c, n), NEW c2,
         Follows(c, c2, n), NEW K \in {Breakable, LoopKinds}, NEW kind, NEW ctx, NEW list,
         Context(t, st, c, n, K, kind, ctx, list), t[n + 1].kind = kind, kind \in Leaves,
         Holding(t, Stack(st, n), K),
         NEW i \in 1..Len(c2), c2[i].op = "jump", c2[i].node = n + 1,
         NEW list2, Grows(list2, list, i)
  PROVE  Context(t, st, c2, n + 1, K, kind, ctx, list2)
<1>1. n \in Nat /\ On(t, st, n + 1, K) = On(t, st, n, K)
  <2>1. K \cap Leaves = {} /\ Leaves \cap Ends = {}
    BY DEF Breakable, LoopKinds, Leaves, Ends, Declarations
  <2> QED BY <2>1, OnNext
<1>2. PICK S : S = On(t, st, n, K)  OBVIOUS
<1>3. S # {}  BY <1>2 DEF Holding, On, ToSet
<1>4. Contexts(t, st, n, S, c, K, kind, ctx, list)  BY <1>2 DEF Context
<1>5. Contexts(t, st, n + 1, S, c2, K, kind, ctx, list2)  BY <1>1, <1>2, <1>3, <1>4, ContextsAdd
<1> QED BY <1>1, <1>2, <1>5 DEF Context

(* Node n + 1 ends a loop or a switch: what its list holds leaves it.        *)
LEMMA ContextPop ==
  ASSUME NEW t, NEW st, TreeOK(t, st), NEW n \in 0..Len(t) - 1, NEW c, Coded(c, n), NEW c2,
         Follows(c, c2, n), NEW K \in {Breakable, LoopKinds}, NEW kind, NEW ctx, NEW list,
         Context(t, st, c, n, K, kind, ctx, list), t[n + 1].kind \in Ends,
         Closes(t[n + 1].kind) \subseteq K, NEW p, p = Last(ctx).patches,
         NEW top, top = Stack(st, n)[Level(st, n)]
  PROVE  /\ Context(t, st, c2, n + 1, K, kind, Front(ctx), SubSeq(list, 1, p))
         /\ Leavers(t, st, c, K, kind, list, p, top)
<1>1. PICK x : x = t[n + 1].kind  OBVIOUS
<1>2. /\ n \in Nat /\ t[top].kind \in Closes(x) /\ top \in ToSet(Stack(st, n))
      /\ \A y \in ToSet(Stack(st, n)) : y <= top
      /\ On(t, st, n + 1, K) = On(t, st, n, K) \ {top}
  <2>1. /\ n \in Nat
        /\ x \in Ends =>
              \E m : /\ m = Stack(st, n)[Level(st, n)] /\ t[m].kind \in Closes(x)
                    /\ m \in ToSet(Stack(st, n)) /\ Shuts(t, st, m, n + 1)
                    /\ \A y \in ToSet(Stack(st, n)) : y <= m
                    /\ On(t, st, n + 1, K) = On(t, st, n, K) \ {m}
    BY <1>1, OnNext
  <2> QED BY <1>1, <2>1
<1>3. PICK S : S = On(t, st, n, K)  OBVIOUS
<1>4. top \in S /\ \A y \in S : y <= top  BY <1>1, <1>2, <1>3 DEF On
<1>5. Contexts(t, st, n, S, c, K, kind, ctx, list)  BY <1>3 DEF Context
<1>6. /\ Contexts(t, st, n + 1, S \ {top}, c2, K, kind, Front(ctx), SubSeq(list, 1, Last(ctx).patches))
  BY <1>2, <1>3, <1>4, <1>5, ContextsClose
<1>7. Leavers(t, st, c, K, kind, list, Last(ctx).patches, top)
  <2>1. n \in Nat  BY <1>2
  <2> QED BY <1>3, <1>4, <1>5, <2>1, ContextsTop
<1> QED BY <1>2, <1>3, <1>6, <1>7 DEF Context

-----------------------------------------------------------------------------
(* What neither opens nor ends a loop or a switch, nor leaves one.           *)
Calm == (Leaves \ {"break", "continue", "label"})
          \cup {"block", "case", "default", "if", "else", "endblock", "endcase", "endif"}
LoopEnds == {"endwhile", "enddo", "endfor"}

LEMMA CalmIs ==
  ASSUME NEW kind \in Calm
  PROVE  /\ Apart(kind, Breakable) /\ Apart(kind, LoopKinds) /\ kind \notin LoopEnds
         /\ kind # "label"
BY DEF Calm, Apart, Breakable, LoopKinds, LoopEnds, Ends, Closes, Leaves, Declarations

LEMMA OneBackOn ==
  ASSUME NEW t, NEW n \in Nat, NEW c, Coded(c, n), NEW c2, Follows(c, c2, n), OneBack(t, c),
         t[n + 1].kind \in LoopEnds =>
           \A a, b \in Len(c) + 1 .. Len(c2) : c2[a].op = "jump" /\ c2[b].op = "jump" => a = b
  PROVE  OneBack(t, c2)
<1>1. Len(c) \in Nat  BY CodeLength
<1>2. Len(c2) \in Nat  BY DEF Follows
<1>3. SUFFICES ASSUME NEW a \in 1..Len(c2), NEW b \in 1..Len(c2),
                      /\ c2[a].op = "jump" /\ c2[b].op = "jump" /\ c2[a].node = c2[b].node
                      /\ t[c2[a].node].kind \in {"endwhile", "enddo", "endfor"}
               PROVE  a = b
  BY Zenon DEF OneBack
<1>4. a \in 1..Len(c) \/ a \in Len(c) + 1 .. Len(c2)  BY <1>1, <1>2
<1>5. b \in 1..Len(c) \/ b \in Len(c) + 1 .. Len(c2)  BY <1>1, <1>2
<1>6. \A i \in 1..Len(c) : c2[i].op = c[i].op /\ c2[i].node = c[i].node /\ c2[i].node \in 1..n
  BY HeldOn DEF Coded
<1>7. \A i \in Len(c) + 1 .. Len(c2) : c2[i].node = n + 1  BY DEF Follows
<1>8. CASE a \in 1..Len(c) /\ b \in 1..Len(c)
  BY <1>3, <1>6, <1>8 DEF OneBack
<1>9. CASE a \in Len(c) + 1 .. Len(c2) /\ b \in Len(c) + 1 .. Len(c2)
  BY <1>3, <1>7, <1>9 DEF LoopEnds
<1>10. \A m \in 1..n : m # n + 1  OBVIOUS
<1>11. ~(a \in 1..Len(c) /\ b \in Len(c) + 1 .. Len(c2))  BY <1>3, <1>6, <1>7, <1>10
<1>12. ~(b \in 1..Len(c) /\ a \in Len(c) + 1 .. Len(c2))  BY <1>3, <1>6, <1>7, <1>10
<1> QED BY <1>4, <1>5, <1>8, <1>9, <1>11, <1>12

(* The jumps, without frames and placements.                                 *)
Linked(t, st, c, n, bs, ls, bp, cp, gp, lb) ==
  /\ Coded(c, n) /\ OneBack(t, c)
  /\ Context(t, st, c, n, Breakable, "break", bs, bp)
  /\ Context(t, st, c, n, LoopKinds, "continue", ls, cp)
  /\ Labelled(t, c, n, lb) /\ Going(t, c, gp)

LEMMA LinkedCalm ==
  ASSUME NEW t, NEW st, TreeOK(t, st), NEW n \in 0..Len(t) - 1, NEW c, NEW c2,
         NEW bs, NEW ls, NEW bp, NEW cp, NEW gp, NEW lb, Linked(t, st, c, n, bs, ls, bp, cp, gp, lb),
         Follows(c, c2, n), t[n + 1].kind \in Calm
  PROVE  Linked(t, st, c2, n + 1, bs, ls, bp, cp, gp, lb)
<1>1. n \in Nat /\ Coded(c, n)  BY DEF TreeOK, Linked
<1>2. PICK x : x = t[n + 1].kind  OBVIOUS
<1>3. /\ Apart(x, Breakable) /\ Apart(x, LoopKinds) /\ t[n + 1].kind \notin LoopEnds
      /\ t[n + 1].kind # "label"
  BY <1>2, CalmIs
<1>4. PICK K1 \in {Breakable, LoopKinds}, K2 \in {Breakable, LoopKinds} :
        K1 = Breakable /\ K2 = LoopKinds
  OBVIOUS
<1>5. PICK b, d : b = "break" /\ d = "continue"  OBVIOUS
<1>6. Context(t, st, c2, n + 1, K1, b, bs, bp)
  <2>1. Context(t, st, c, n, K1, b, bs, bp)  BY <1>4, <1>5 DEF Linked
  <2> QED BY <1>1, <1>2, <1>3, <1>4, <2>1, ContextSame
<1>7. Context(t, st, c2, n + 1, K2, d, ls, cp)
  <2>1. Context(t, st, c, n, K2, d, ls, cp)  BY <1>4, <1>5 DEF Linked
  <2> QED BY <1>1, <1>2, <1>3, <1>4, <2>1, ContextSame
<1>8. Labelled(t, c2, n + 1, lb)  BY <1>1, <1>3, LabelledOn DEF Linked
<1>9. Going(t, c2, gp)  BY <1>1, GoingOn DEF Linked
<1>10. OneBack(t, c2)  BY <1>1, <1>3, OneBackOn DEF Linked
<1>11. Coded(c2, n + 1)  BY <1>1, CodeNow
<1> QED BY <1>4, <1>5, <1>6, <1>7, <1>8, <1>9, <1>10, <1>11 DEF Linked
=============================================================================
