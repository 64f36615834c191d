------------------------- MODULE MCNovaExpressions -------------------------
(* All trees up to a weight over words of four bits, chars of two, and three *)
(* temporaries.  Operators and operands that add little weigh more.          *)
EXTENDS NovaExpressions, TLC
LOCAL INSTANCE SequencesExt

MCLiteral == "0" :> 0 @@ "1" :> 1 @@ "6" :> 6 @@ "8" :> 8
MCEnumNames == <<"A", "B">>

Light == {"+", "&&", "<"}
Heavy == {"||", "|", "^", "&", "==", "!=", "<=", ">", ">=", "<<", ">>", "-", "*", "/"}

\* The trees of weight w, given those of less.
Nodes(kind, ops, kids) == [kind : {kind}, op : ops, kids : kids]
Singles(inner) == {<<t>> : t \in inner}
Unaries(kind, ops, inner) == Nodes(kind, ops, Singles(inner))
Pairs(kind, ops, left, right) == Nodes(kind, ops, left \X right)

MaxWeight == 6
Leaves == [w \in 0..MaxWeight |->
             IF w = 0 THEN {Leaf("literal", "0"), Leaf("literal", "1")}
             ELSE IF w = 1 THEN {Leaf("literal", "6"), Leaf("literal", "8")} ELSE {}]

BinaryTrees(trees, ops, cost, w) ==
  UNION {Pairs("binary", ops, trees[i], trees[w - cost - i]) : i \in 0 .. w - cost}

Ternaries(trees, w) ==
  UNION {Nodes("ternary", {"?"}, trees[i] \X trees[j] \X trees[w - 3 - i - j]) :
           <<i, j>> \in {p \in (0..w) \X (0..w) : p[1] + p[2] <= w - 3}}

Trees(leaves, unary, heavy, more(_, _)) ==
  LET next(f, w) ==
        f @@ (w :> leaves[w]
                \cup (IF w < 2 THEN {} ELSE Unaries("unary", unary, f[w - 2])
                                              \cup BinaryTrees(f, Light, 2, w))
                \cup (IF w < 3 THEN {} ELSE BinaryTrees(f, heavy, 3, w) \cup more(f, w)))
      all == FoldLeft(next, 0 :> leaves[0], [w \in 1..MaxWeight |-> w])
  IN  UNION {all[w] : w \in 0..MaxWeight}

MCDirectives ==
  Trees([Leaves EXCEPT ![2] = Nodes("defined", {"(", ""}, {<<Leaf("name", "M")>>, <<Leaf("name", "x")>>})
                         \cup {Leaf("name", "A")}],
        {"-", "!", "~", "+"}, Heavy \cup {"%"}, Ternaries)

\* Trees of literals, then of what changes x, calls and casts.
Pure == Trees(Leaves, {"-", "!", "~"}, Heavy, Ternaries)

x == Leaf("name", "x")
Updates == [kind : {"prefix", "postfix"}, op : {"++", "--"}, kids : {<<x>>}]
Calls(inner) == Unaries("call", {"f"}, inner)
Casts(inner) == Unaries("cast", {"char"}, inner)

Effects(trees, w) ==
  Calls(trees[w - 2]) \cup Casts(trees[w - 3])
    \cup UNION {Pairs("comma", {","}, trees[i], trees[w - 3 - i]) : i \in 0 .. w - 3}
    \cup Ternaries(trees, w)
Impure ==
  Trees([w \in 0..MaxWeight |-> CASE w = 0 -> {x} [] w = 1 -> {Leaf("literal", "8")}
                                  [] w = 2 -> Updates [] OTHER -> {}],
        {"-", "!", "~"}, {"-", "||"}, Effects)

\* Two enum constants, one after the other or each in terms of the other.
Auto == Leaf("auto", "")
A == Leaf("name", "A")
B == Leaf("name", "B")
One == Leaf("literal", "1")
Either(l, r) == Node("binary", "||", <<l, r>>)
Over(l, r) == Node("binary", "/", <<l, r>>)
Definitions == {Auto, A, B, One, Either(One, A), Either(B, One), Over(One, A),
                Over(B, Leaf("literal", "8")), Node("unary", "-", <<A>>),
                Node("binary", "&&", <<B, B>>)}
Uses == {A, B, Either(A, B), Over(A, B), Node("ternary", "?", <<A, B, One>>),
         Node("call", "f", <<B>>)}

MCPrograms ==
  ((Pure \cup Impure) \X {<<Auto, Auto>>}) \cup (Uses \X (Definitions \X Definitions))
=============================================================================
