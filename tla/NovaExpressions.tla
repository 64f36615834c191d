-------------------------- MODULE NovaExpressions --------------------------
(* One integer expression and the three ways nova_compiler.c finds its       *)
(* value: the evaluator of #if, which computes while it reads; the constant  *)
(* evaluator behind enum constants and static initializers, which folds the  *)
(* syntax tree; and the code emitted for a statement, which nova_vm.c runs.  *)
(* A program is a tree; it is written down with the parentheses C's grammar  *)
(* asks for, read back token by token, and evaluated by one of the three.    *)
(* Of types there are int and char, of variables the register local x.       *)
EXTENDS Integers, Sequences, FiniteSets, Bitwise

CONSTANTS
  Width,       \* bits of a word: 32
  CharWidth,   \* bits of a char: 8
  Temps,       \* temporary registers, NOVAC_TEMP_FIRST to NOVAC_TEMP_LAST
  Literal,     \* the value of each literal token
  Start,       \* the value of x when the expression is reached
  Macros,      \* names that are defined as macros
  EnumNames,   \* the enum constants of the project, in order
  Directives,  \* trees written behind #if
  Programs     \* pairs of a tree and the definitions of the enum constants

Modulus == 2 ^ Width
Wrap(n) == n % Modulus
None == -1

ASSUME WidthAssumption ==
  /\ Width \in Nat \ {0} /\ CharWidth \in 0..Width /\ Temps \in Nat \ {0}
  /\ \A l \in DOMAIN Literal : Literal[l] \in 0..Modulus - 1
  /\ Start \in 0..Modulus - 1

VARIABLES
  use,         \* "directive", "initializer" or "statement"
  written,     \* the tree the programmer means
  enums,       \* the definition of each enum constant
  phase,       \* what comes next
  tokens,      \* the text
  ast,         \* the tree the parser made of it
  constants,   \* has_value, value and resolving of the enum constants
  code, used,  \* the emitted instructions, the temporaries in use
  pc, reg, flags, stack,
  result       \* the value, or None

compilerVars == <<ast, constants, code, used>>
machineVars == <<pc, reg, flags, stack>>
vars == <<use, written, enums, phase, tokens, compilerVars, machineVars, result>>

Node(kind, op, kids) == [kind |-> kind, op |-> op, kids |-> kids]
Leaf(kind, op) == Node(kind, op, <<>>)
NoTree == Leaf("none", "")
-----------------------------------------------------------------------------
(* Words.                                                                    *)

Bool(b) == IF b THEN 1 ELSE 0
AllOnes == Modulus - 1
CharMask == 2 ^ CharWidth - 1
Negative(n) == n >= Modulus \div 2
Signed(n) == IF Negative(n) THEN n - Modulus ELSE n

\* What ADD, SUB, MUL, DIV, AND, OR, XOR, SHL and SHR leave in a register;
\* words are unsigned, and a shift takes its distance modulo the width.
Arithmetic(op, a, b) ==
  CASE op = "+" -> Wrap(a + b)
    [] op = "-" -> Wrap(a - b)
    [] op = "*" -> Wrap(a * b)
    [] op = "/" -> IF b = 0 THEN None ELSE a \div b
    [] op = "%" -> IF b = 0 THEN None ELSE a % b
    [] op = "&" -> a & b
    [] op = "|" -> a | b
    [] op = "^" -> a ^^ b
    [] op = "<<" -> Wrap(a * 2 ^ (b % Width))
    [] op = ">>" -> a \div 2 ^ (b % Width)

Comparisons == {"==", "!=", "<", "<=", ">", ">="}
Compare(op, a, b) ==
  CASE op = "==" -> Bool(a = b)
    [] op = "!=" -> Bool(a # b)
    [] op = "<" -> Bool(Signed(a) < Signed(b))
    [] op = "<=" -> Bool(Signed(a) <= Signed(b))
    [] op = ">" -> Bool(Signed(a) > Signed(b))
    [] op = ">=" -> Bool(Signed(a) >= Signed(b))

Binary(op, a, b) == IF op \in Comparisons THEN Compare(op, a, b) ELSE Arithmetic(op, a, b)
Unary(op, a) == CASE op = "-" -> Wrap(0 - a)
                  [] op = "!" -> Bool(a = 0)
                  [] op = "~" -> AllOnes - a
                  [] op = "+" -> a
-----------------------------------------------------------------------------
(* Writing: what a tree looks like in C.                                     *)

Rank(t) ==
  CASE t.kind = "comma" -> 0
    [] t.kind = "ternary" -> 1
    [] t.op = "||" -> 2 [] t.op = "&&" -> 3
    [] t.kind = "binary" /\ t.op = "|" -> 4
    [] t.kind = "binary" /\ t.op = "^" -> 5
    [] t.kind = "binary" /\ t.op = "&" -> 6
    [] t.op \in {"==", "!="} -> 7
    [] t.op \in {"<", "<=", ">", ">="} -> 8
    [] t.op \in {"<<", ">>"} -> 9
    [] t.kind = "binary" /\ t.op \in {"+", "-"} -> 10
    [] t.kind = "binary" -> 11
    [] t.kind \in {"unary", "cast", "prefix"} -> 12
    [] OTHER -> 13

RECURSIVE Text(_, _)
Text(t, rank) ==
  LET kid(k, r) == Text(t.kids[k], r)
      body ==
        CASE t.kind = "comma" -> kid(1, 0) \o <<",">> \o kid(2, 1)
          [] t.kind = "ternary" -> kid(1, 2) \o <<"?">> \o kid(2, 0) \o <<":">> \o kid(3, 1)
          [] t.kind = "binary" -> kid(1, Rank(t)) \o <<t.op>> \o kid(2, Rank(t) + 1)
          [] t.kind \in {"unary", "prefix"} -> <<t.op>> \o kid(1, 12)
          [] t.kind = "cast" -> <<"(", "char", ")">> \o kid(1, 12)
          [] t.kind = "postfix" -> kid(1, 13) \o <<t.op>>
          [] t.kind = "call" -> <<t.op, "(">> \o kid(1, 1) \o <<")">>
          [] t.kind = "defined" /\ t.op = "" -> <<"defined">> \o kid(1, 13)
          [] t.kind = "defined" /\ t.op = "(" -> <<"defined", "(">> \o kid(1, 13) \o <<")">>
          [] OTHER -> <<t.op>>
  IN  IF Rank(t) < rank THEN <<"(">> \o body \o <<")">> ELSE body
-----------------------------------------------------------------------------
(* Reading.  A parse is the position behind what was read, 0 after an error, *)
(* and the tree.                                                             *)

Names == {"x", "f", "defined"} \cup Macros \cup {EnumNames[i] : i \in DOMAIN EnumNames}
Token(p) == IF p \in DOMAIN tokens THEN tokens[p] ELSE "end"
Parse(p, t) == [at |-> p, node |-> t]
Wrong == Parse(0, NoTree)

\* nc_expect, behind a parse.
Closed(parse, token, t) ==
  IF parse.at # 0 /\ Token(parse.at) = token THEN Parse(parse.at + 1, t) ELSE Wrong

\* Mutant: additive operators bind as multiplicative ones do.
LevelsFlat == <<{"||"}, {"&&"}, {"|"}, {"^"}, {"&"}, {"==", "!="}, {"<", "<=", ">", ">="},
                {"<<", ">>"}, {}, {"*", "/", "+", "-"}>>

\* The operators of nc_parse_logical_or down to nc_parse_multiplicative.
Levels == <<{"||"}, {"&&"}, {"|"}, {"^"}, {"&"}, {"==", "!="}, {"<", "<=", ">", ">="},
            {"<<", ">>"}, {"+", "-"}, {"*", "/"}>>

RECURSIVE ParseExpression(_), ParseCommas(_), ParseConditional(_), ParseLevel(_, _),
          ParseOperators(_, _), ParseUnary(_), ParsePostfix(_), ParsePrimary(_)

ParsePrimary(p) ==
  CASE Token(p) \in DOMAIN Literal -> Parse(p + 1, Leaf("literal", Token(p)))
    [] Token(p) \in Names /\ Token(p + 1) = "(" ->
         LET argument == ParseConditional(p + 2)
         IN  Closed(argument, ")", Node("call", Token(p), <<argument.node>>))
    [] Token(p) \in Names -> Parse(p + 1, Leaf("name", Token(p)))
    [] Token(p) = "(" /\ Token(p + 1) = "char" ->
         LET operand == ParseUnary(p + 3)
         IN  IF Token(p + 2) = ")" THEN Parse(operand.at, Node("cast", "char", <<operand.node>>))
             ELSE Wrong
    [] Token(p) = "(" /\ Token(p + 1) # "char" ->
         LET inner == ParseExpression(p + 1) IN Closed(inner, ")", inner.node)
    [] OTHER -> Wrong

\* nc_node_is_assignable; x is the only object there is.
Assignable(t) == t.kind = "name"

ParsePostfix(p) ==
  LET base == ParsePrimary(p)
      op == Token(base.at)
  IN  IF base.at = 0 \/ op \notin {"++", "--"} THEN base
      ELSE IF Assignable(base.node) /\ Token(base.at + 1) \notin {"++", "--"}
      THEN Parse(base.at + 1, Node("postfix", op, <<base.node>>))
      ELSE Wrong

ParseUnary(p) ==
  LET operand == ParseUnary(p + 1)
  IN  CASE Token(p) \in {"++", "--"} ->
             IF operand.at # 0 /\ Assignable(operand.node)
             THEN Parse(operand.at, Node("prefix", Token(p), <<operand.node>>))
             ELSE Wrong
        [] Token(p) \in {"-", "!", "~"} ->
             Parse(operand.at, Node("unary", Token(p), <<operand.node>>))
        [] OTHER -> ParsePostfix(p)

\* nc_parse_binary_level: `left` and the operators of its level behind it.
ParseOperators(level, left) ==
  LET op == Token(left.at)
      right == ParseLevel(level + 1, left.at + 1)
  IN  IF left.at # 0 /\ op \in Levels[level]
      THEN ParseOperators(level, Parse(right.at, Node("binary", op, <<left.node, right.node>>)))
      ELSE left

ParseLevel(level, p) ==
  IF level > Len(Levels) THEN ParseUnary(p)
  ELSE ParseOperators(level, ParseLevel(level + 1, p))

ParseConditional(p) ==
  LET condition == ParseLevel(1, p)
      yes == ParseExpression(condition.at + 1)
      no  == ParseConditional(yes.at + 1)
  IN  IF condition.at = 0 \/ Token(condition.at) # "?" THEN condition
      ELSE IF yes.at = 0 \/ Token(yes.at) # ":" THEN Wrong
      ELSE Parse(no.at, Node("ternary", "?", <<condition.node, yes.node, no.node>>))

ParseCommas(left) ==
  LET right == ParseConditional(left.at + 1)
  IN  IF left.at # 0 /\ Token(left.at) = ","
      THEN ParseCommas(Parse(right.at, Node("comma", ",", <<left.node, right.node>>)))
      ELSE left

ParseExpression(p) == ParseCommas(ParseConditional(p))
-----------------------------------------------------------------------------
(* The evaluator of #if.  A reading is the position behind what was read, 0  *)
(* after an error, and the value; what is read only because of the grammar   *)
(* (evaluate = 0) has the value 0.                                           *)

Reading(p, v) == [at |-> p, value |-> v]
Unread == Reading(0, 0)

IfMultiplicative == {"*", "/", "%"}
IfLevels == <<{"||"}, {"&&"}, {"|"}, {"^"}, {"&"}, {"==", "!="}, {"<", "<=", ">", ">="},
              {"<<", ">>"}, {"+", "-"}, IfMultiplicative>>

RECURSIVE IfLevel(_, _, _), IfOperators(_, _, _), IfUnary(_, _), IfPrimary(_, _)

\* A name is a macro's or 0; macros have been expanded before.
IfPrimary(p, evaluate) ==
  CASE Token(p) \in DOMAIN Literal -> Reading(p + 1, evaluate * Literal[Token(p)])
    [] Token(p) = "defined" ->
         LET paren == Bool(Token(p + 1) = "(")
             q == p + 1 + paren
         IN  IF Token(q) \in Names /\ (paren = 1 => Token(q + 1) = ")")
             THEN Reading(q + 1 + paren, evaluate * Bool(Token(q) \in Macros))
             ELSE Unread
    [] Token(p) \in Names \ {"defined"} -> Reading(p + 1, 0)
    [] Token(p) = "(" ->
         LET inner == IfLevel(1, p + 1, evaluate)
         IN  IF inner.at # 0 /\ Token(inner.at) = ")"
             THEN Reading(inner.at + 1, inner.value) ELSE Unread
    [] OTHER -> Unread

IfUnary(p, evaluate) ==
  IF Token(p) \notin {"!", "~", "+", "-"} THEN IfPrimary(p, evaluate)
  ELSE LET operand == IfUnary(p + 1, evaluate)
       IN  Reading(operand.at, evaluate * Unary(Token(p), operand.value))

\* Mutant: the right operand of && and || is always evaluated.
IfEvaluatesAlways(op, left, evaluate) == evaluate

\* The right operand of && and || counts only if the left one leaves it open.
IfEvaluates(op, left, evaluate) ==
  CASE op = "&&" -> evaluate * Bool(left # 0)
    [] op = "||" -> evaluate * Bool(left = 0)
    [] OTHER -> evaluate

IfApply(op, a, b) == CASE op = "&&" -> Bool(a # 0 /\ b # 0)
                       [] op = "||" -> Bool(a # 0 \/ b # 0)
                       [] OTHER -> Binary(op, a, b)

IfOperators(level, left, evaluate) ==
  LET op == Token(left.at)
      right == IfLevel(level + 1, left.at + 1, IfEvaluates(op, left.value, evaluate))
      value == IF evaluate = 0 THEN 0 ELSE IfApply(op, left.value, right.value)
  IN  IF left.at = 0 \/ op \notin IfLevels[level] THEN left
      ELSE IF right.at = 0 \/ value = None THEN Unread
      ELSE IfOperators(level, Reading(right.at, value), evaluate)

IfLevel(level, p, evaluate) ==
  IF level > Len(IfLevels) THEN IfUnary(p, evaluate)
  ELSE IfOperators(level, IfLevel(level + 1, p, evaluate), evaluate)

\* nc_pp_eval_condition refuses what stands behind the expression.
EvalCondition ==
  LET condition == IfLevel(1, 1, 1)
  IN  IF condition.at = Len(tokens) + 1 THEN condition.value ELSE None
-----------------------------------------------------------------------------
(* Constant evaluation.  A folding is a value, or None, and the table of     *)
(* enum constants as it is afterwards.                                       *)

Folded(v, table) == [value |-> v, table |-> table]
Unknown == [has_value |-> 0, value |-> 0, resolving |-> 0]
IndexOf(name) == CHOOSE i \in DOMAIN EnumNames : EnumNames[i] = name
IsEnum(name) == \E i \in DOMAIN EnumNames : EnumNames[i] = name

\* Mutant: a constant that has no value is left marked as being resolved.
EntryStuck(v) == IF v = None THEN [Unknown EXCEPT !.resolving = 1]
                 ELSE [has_value |-> 1, value |-> v, resolving |-> 0]

Entry(v) == IF v = None THEN Unknown ELSE [has_value |-> 1, value |-> v, resolving |-> 0]

RECURSIVE Resolve(_, _), Fold(_, _)

\* "auto" is an enum constant without an expression: one more than the last.
Resolve(i, table) ==
  LET open == [table EXCEPT ![i].resolving = 1]
      previous == IF i = 1 THEN Folded(AllOnes, open) ELSE Resolve(i - 1, open)
      got == IF enums[i].kind = "auto"
             THEN Folded(IF previous.value = None THEN None ELSE Wrap(previous.value + 1),
                         previous.table)
             ELSE Fold(enums[i], open)
  IN  CASE table[i].has_value = 1 -> Folded(table[i].value, table)
        [] table[i].has_value = 0 /\ table[i].resolving = 1 -> Folded(None, table)
        [] OTHER -> Folded(got.value, [got.table EXCEPT ![i] = Entry(got.value)])

FoldBinary(t, table) ==
  LET a == Fold(t.kids[1], table)
      b == Fold(t.kids[2], a.table)
  IN  CASE a.value = None -> a
        [] t.op = "&&" /\ a.value = 0 -> a
        [] t.op = "||" /\ a.value > 0 -> Folded(1, a.table)
        [] b.value = None -> b
        [] t.op \in {"&&", "||"} -> Folded(Bool(b.value # 0), b.table)
        [] OTHER -> Folded(Binary(t.op, a.value, b.value), b.table)

Fold(t, table) ==
  LET a == Fold(t.kids[1], table)
  IN  CASE t.kind = "literal" -> Folded(Literal[t.op], table)
        [] t.kind = "name" /\ IsEnum(t.op) -> Resolve(IndexOf(t.op), table)
        [] t.kind = "binary" -> FoldBinary(t, table)
        [] t.kind \in {"unary", "ternary", "cast"} /\ a.value = None -> a
        [] t.kind = "unary" -> Folded(Unary(t.op, a.value), a.table)
        [] t.kind = "ternary" -> Fold(t.kids[IF a.value # 0 THEN 2 ELSE 3], a.table)
        [] t.kind = "cast" -> Folded(a.value & CharMask, a.table)
        [] OTHER -> Folded(None, table)
-----------------------------------------------------------------------------
(* Code generation.  R0 holds what a function returns, R1 is x, then come    *)
(* the temporaries and the scratch register.  The generator's state is the   *)
(* code, the temporaries in use, the register of the last value, and ok.     *)

Return == 0
LocalX == 1
TempRegisters == 2 .. Temps + 1
Scratch == Temps + 2
Registers == Return .. Scratch

Ins(op, d, l, r) == [op |-> op, d |-> d, l |-> l, r |-> r]
Set(d, n) == Ins("set", d, n, 0)
Move(d, l) == Ins("move", d, l, 0)
Cmp(l, r) == Ins("cmp", 0, l, r)
Jump(on, to) == Ins("jump " \o on, to, 0, 0)
Push(l) == Ins("push", 0, l, 0)
Pop(d) == Ins("pop", d, 0, 0)
Opcodes == {"set", "move", "cmp", "push", "pop", "call", "+", "-", "*", "/", "&", "|", "^",
            "<<", ">>", "jump always"} \cup {"jump " \o c : c \in Comparisons}

Put(s, ins) == [s EXCEPT !.code = @ \o ins]
Here(s) == Len(s.code) + 1
Leave(s, r) == [s EXCEPT !.reg = r]
Free(s, r) == [s EXCEPT !.used = @ \ {r}]
Fail(s) == [s EXCEPT !.ok = 0]

Alloc(s) ==
  LET free == TempRegisters \ s.used
      r == CHOOSE q \in free : \A o \in free : q <= o
  IN  IF s.ok = 0 \/ free = {} THEN Fail(s) ELSE [s EXCEPT !.used = @ \cup {r}, !.reg = r]

\* A new temporary with the value n, and the value r in a new temporary.
AllocSet(s, n) == LET t == Alloc(s) IN Put(t, <<Set(t.reg, n)>>)
AllocMove(s, r) == LET t == Alloc(s) IN Put(t, <<Move(t.reg, r)>>)

RECURSIVE EmitExpr(_, _)

EmitName(t, s) ==
  CASE t.op = "x" -> AllocMove(s, LocalX)
    [] IsEnum(t.op) -> AllocSet(s, constants[IndexOf(t.op)].value)
    [] OTHER -> Fail(s)

EmitComparison(op, s, l, r) ==
  LET to == Here(s)
  IN  Leave(Free(Put(s, <<Cmp(l, r), Jump(op, to + 4), Set(l, 0), Jump("always", to + 5),
                          Set(l, 1)>>), r), l)

EmitUnary(t, s) ==
  LET v == EmitExpr(t.kids[1], s)
      helper == AllocSet(v, IF t.op = "~" THEN AllOnes ELSE 0)
      h == helper.reg
  IN  CASE t.op = "~" -> Leave(Free(Put(helper, <<Ins("^", v.reg, v.reg, h)>>), h), v.reg)
        [] t.op = "-" -> Leave(Free(Put(helper, <<Ins("-", v.reg, h, v.reg)>>), h), v.reg)
        [] OTHER -> EmitComparison("==", helper, v.reg, h)

EmitBinary(t, s) ==
  LET l == EmitExpr(t.kids[1], s)
      r == EmitExpr(t.kids[2], l)
  IN  IF t.op \in Comparisons THEN EmitComparison(t.op, r, l.reg, r.reg)
      ELSE Leave(Free(Put(r, <<Ins(t.op, l.reg, l.reg, r.reg)>>), r.reg), l.reg)

\* Mutant: the register of a condition is not given back.
TestKeeps(s) == Put(s, <<Set(Scratch, 0), Cmp(s.reg, Scratch)>>)

\* A test of the last value against 0; the jump is patched to `to` later.
Test(s) == Put(Free(s, s.reg), <<Set(Scratch, 0), Cmp(s.reg, Scratch)>>)
Patch(s, i) == [s EXCEPT !.code[i].d = Here(s)]

EmitLogical(t, s) ==
  LET result_reg == Alloc(s)
      decided == IF t.op = "&&" THEN "==" ELSE "!="
      left   == Test(EmitExpr(t.kids[1], result_reg))
      right  == Test(EmitExpr(t.kids[2], Put(left, <<Jump(decided, 0)>>)))
      open   == Put(right, <<Jump(decided, 0), Set(result_reg.reg, Bool(t.op = "&&")),
                             Jump("always", 0)>>)
      first  == Patch(Patch(open, Here(left)), Here(right))
  IN  IF result_reg.ok = 0 THEN result_reg
      ELSE Leave(Patch(Put(first, <<Set(result_reg.reg, Bool(t.op = "||"))>>), Here(right) + 2),
                 result_reg.reg)

EmitTernary(t, s) ==
  LET result_reg == Alloc(s)
      condition == Test(EmitExpr(t.kids[1], result_reg))
      yes == EmitExpr(t.kids[2], Put(condition, <<Jump("==", 0)>>))
      both == Free(Put(yes, <<Move(result_reg.reg, yes.reg), Jump("always", 0)>>), yes.reg)
      no == EmitExpr(t.kids[3], Patch(both, Here(condition)))
      joined == Free(Put(no, <<Move(result_reg.reg, no.reg)>>), no.reg)
  IN  IF result_reg.ok = 0 THEN result_reg
      ELSE Leave(Patch(joined, Here(yes) + 1), result_reg.reg)

EmitCast(t, s) ==
  LET v == EmitExpr(t.kids[1], s)
      mask == AllocSet(v, CharMask)
  IN  Leave(Free(Put(mask, <<Ins("&", v.reg, v.reg, mask.reg)>>), mask.reg), v.reg)

EmitComma(t, s) ==
  LET left == EmitExpr(t.kids[1], s) IN EmitExpr(t.kids[2], Free(left, left.reg))

\* ++ and -- of a local in a register.
EmitUpdate(t, s) ==
  LET delta == AllocSet(s, 1)
      new == Alloc(delta)
      step == Ins(IF t.op = "++" THEN "+" ELSE "-", LocalX, LocalX, delta.reg)
      copy == Move(new.reg, LocalX)
  IN  Leave(Free(Put(new, IF t.kind = "postfix" THEN <<copy, step>> ELSE <<step, copy>>),
                 delta.reg), new.reg)

\* The caller pushes every register but R0 and the scratch register, and pops
\* them behind the call; the arguments are evaluated in between.
EmitCall(t, s) ==
  LET saved == LocalX .. Temps + 1
      n == Cardinality(saved)
      before == [s EXCEPT !.code = @ \o [i \in 1..n |-> Push(i)], !.used = {}]
      arg == EmitExpr(t.kids[1], before)
      after == Put(arg, <<Push(arg.reg), Pop(1), Ins("call", 0, 0, 0)>>
                          \o [i \in 1..n |-> Pop(n + 1 - i)])
  IN  IF t.op # "f" THEN Fail(s) ELSE AllocMove([after EXCEPT !.used = s.used], Return)

EmitExpr(t, s) ==
  CASE s.ok = 0 -> s
    [] s.ok = 1 /\ t.kind = "literal" -> AllocSet(s, Literal[t.op])
    [] s.ok = 1 /\ t.kind = "name" -> EmitName(t, s)
    [] s.ok = 1 /\ t.kind = "unary" -> EmitUnary(t, s)
    [] s.ok = 1 /\ t.kind = "binary" /\ t.op \in {"&&", "||"} -> EmitLogical(t, s)
    [] s.ok = 1 /\ t.kind = "binary" /\ t.op \notin {"&&", "||"} -> EmitBinary(t, s)
    [] s.ok = 1 /\ t.kind = "ternary" -> EmitTernary(t, s)
    [] s.ok = 1 /\ t.kind = "comma" -> EmitComma(t, s)
    [] s.ok = 1 /\ t.kind = "cast" -> EmitCast(t, s)
    [] s.ok = 1 /\ t.kind \in {"prefix", "postfix"} -> EmitUpdate(t, s)
    [] s.ok = 1 /\ t.kind = "call" -> EmitCall(t, s)
-----------------------------------------------------------------------------
(* The life of one expression.                                               *)

Condition ==
  /\ phase = "condition"
  /\ result' = EvalCondition
  /\ phase' = "done"
  /\ UNCHANGED <<use, written, enums, tokens, compilerVars, machineVars>>

ParseTokens ==
  LET read == IF use = "statement" THEN ParseExpression(1) ELSE ParseConditional(1)
      whole == read.at = Len(tokens) + 1
  IN  /\ phase = "parse"
      /\ ast' = IF whole THEN read.node ELSE NoTree
      /\ phase' = IF whole THEN "validate" ELSE "rejected"
      /\ UNCHANGED <<use, written, enums, tokens, constants, code, used, machineVars, result>>

\* nc_validate_project_program takes one enum constant after the other.
ValidateConstant ==
  \E i \in DOMAIN enums :
    LET got == Resolve(i, constants)
    IN  /\ phase = "validate"
        /\ constants[i].has_value = 0 /\ \A j \in 1 .. i - 1 : constants[j].has_value = 1
        /\ constants' = got.table
        /\ phase' = IF got.value = None THEN "done" ELSE phase
        /\ UNCHANGED <<use, written, enums, tokens, ast, code, used, machineVars, result>>

Validated == phase = "validate" /\ \A i \in DOMAIN enums : constants[i].has_value = 1

FoldInitializer ==
  LET got == Fold(ast, constants)
  IN  /\ Validated /\ use = "initializer"
      /\ result' = got.value
      /\ constants' = got.table
      /\ phase' = "done"
      /\ UNCHANGED <<use, written, enums, tokens, ast, code, used, machineVars>>

\* A return statement: the value goes to R0.
EmitStatement ==
  LET s == EmitExpr(ast, [code |-> <<>>, used |-> {}, reg |-> Return, ok |-> 1])
  IN  /\ Validated /\ use = "statement"
      /\ IF s.ok = 1
         THEN /\ code' = Append(s.code, Move(Return, s.reg))
              /\ used' = s.used \ {s.reg}
              /\ phase' = "run"
         ELSE phase' = "refused" /\ UNCHANGED <<code, used>>
      /\ UNCHANGED <<use, written, enums, tokens, ast, constants, machineVars, result>>

Instruction == code[pc]
Running(ops) == /\ phase = "run" /\ pc \in DOMAIN code /\ Instruction.op \in ops
                /\ UNCHANGED <<use, written, enums, tokens, compilerVars>>
Proceed == pc' = pc + 1 /\ UNCHANGED <<phase, result>>
Write(d, v) == reg' = [reg EXCEPT ![d] = v]

\* nova_set_zn_flags: moves and pops set two flags and leave the third.
SetZN(v) == flags' = [flags EXCEPT !.zero = Bool(v = 0), !.negative = Bool(Negative(v))]

RunMove ==
  LET v == IF Instruction.op = "set" THEN Instruction.l ELSE reg[Instruction.l]
  IN  /\ Running({"set", "move"}) /\ Proceed
      /\ Write(Instruction.d, v) /\ SetZN(v)
      /\ UNCHANGED stack

\* The flags of the result v of a - b, of a + b, or of anything else.
Overflows(op, a, b, v) == Negative(a) # Negative(v)
                          /\ CASE op = "-" -> Negative(a) # Negative(b)
                               [] op = "+" -> Negative(a) = Negative(b)
                               [] OTHER -> FALSE
Flags(op, a, b, v) == flags' = [zero |-> Bool(v = 0), negative |-> Bool(Negative(v)),
                                overflow |-> Bool(Overflows(op, a, b, v))]

RunArithmetic ==
  LET a == reg[Instruction.l]
      b == reg[Instruction.r]
      v == Arithmetic(Instruction.op, a, b)
  IN  /\ Running({"+", "-", "*", "/", "&", "|", "^", "<<", ">>"})
      /\ IF v = None
         THEN phase' = "done" /\ UNCHANGED <<machineVars, result>>
         ELSE /\ Proceed /\ Write(Instruction.d, v) /\ Flags(Instruction.op, a, b, v)
              /\ UNCHANGED stack

RunCompare ==
  LET a == reg[Instruction.l]
      b == reg[Instruction.r]
  IN  /\ Running({"cmp"}) /\ Proceed
      /\ Flags("-", a, b, Wrap(a - b))
      /\ UNCHANGED <<reg, stack>>

Jumps(op) ==
  LET less == flags.negative # flags.overflow
  IN  CASE op = "jump always" -> TRUE
        [] op = "jump ==" -> flags.zero = 1
        [] op = "jump !=" -> flags.zero = 0
        [] op = "jump <" -> less
        [] op = "jump <=" -> less \/ flags.zero = 1
        [] op = "jump >" -> ~less /\ flags.zero = 0
        [] op = "jump >=" -> ~less
        [] OTHER -> FALSE

RunJump ==
  /\ Running({"jump always"} \cup {"jump " \o c : c \in Comparisons})
  /\ pc' = IF Jumps(Instruction.op) THEN Instruction.d ELSE pc + 1
  /\ UNCHANGED <<phase, reg, flags, stack, result>>

RunPush ==
  /\ Running({"push"}) /\ Proceed
  /\ stack' = Append(stack, reg[Instruction.l])
  /\ UNCHANGED <<reg, flags>>

RunPop ==
  /\ Running({"pop"}) /\ Proceed
  /\ Write(Instruction.d, stack[Len(stack)]) /\ SetZN(stack[Len(stack)])
  /\ stack' = SubSeq(stack, 1, Len(stack) - 1)

\* f returns its argument and leaves nothing in any other register.
RunCall ==
  /\ Running({"call"}) /\ Proceed
  /\ reg' = [r \in Registers |-> IF r = Return THEN reg[1] ELSE AllOnes]
  /\ SetZN(reg[1])
  /\ UNCHANGED stack

RunEnd ==
  /\ phase = "run" /\ pc = Len(code) + 1
  /\ result' = reg[Return]
  /\ phase' = "done"
  /\ UNCHANGED <<use, written, enums, tokens, compilerVars, machineVars>>

Settled == phase \in {"done", "rejected", "refused"} /\ UNCHANGED vars

Init ==
  /\ \/ /\ use = "directive" /\ written \in Directives /\ enums = <<>>
        /\ phase = "condition" /\ tokens = Text(written, 0)
     \/ /\ use = "initializer" /\ \E p \in Programs : written = p[1] /\ enums = p[2]
        /\ phase = "parse" /\ tokens = Text(written, 1)
     \/ /\ use = "statement" /\ \E p \in Programs : written = p[1] /\ enums = p[2]
        /\ phase = "parse" /\ tokens = Text(written, 0)
  /\ ast = NoTree
  /\ constants = [i \in DOMAIN enums |-> Unknown]
  /\ code = <<>> /\ used = {}
  /\ pc = 1 /\ reg = [r \in Registers |-> IF r = LocalX THEN Start ELSE 0]
  /\ flags = [zero |-> 0, negative |-> 0, overflow |-> 0]
  /\ stack = <<>>
  /\ result = None

Next ==
  \/ Condition \/ ParseTokens \/ ValidateConstant \/ FoldInitializer \/ EmitStatement
  \/ RunMove \/ RunArithmetic \/ RunCompare \/ RunJump \/ RunPush \/ RunPop \/ RunCall \/ RunEnd
  \/ Settled

Spec == Init /\ [][Next]_vars
-----------------------------------------------------------------------------
(* What the tree means, the reference for all three.  An operator has the    *)
(* value C gives it on a signed int of Width bits.  Where C gives none (an   *)
(* overflow, a shift of a negative number or by the width) or an #if, which  *)
(* C computes in a wider type, leaves the int, it is the operation on words. *)
(* There are three departures, where C has another value:                    *)
(*   - / and % of a negative operand divide words: -1 / 2 is the largest int; *)
(*   - #if has no conditional operator: the line is refused;                 *)
(*   - an argument changes a copy: x is as it was behind f(x++).             *)
(* Operands are evaluated from the left, which C leaves open, and an enum    *)
(* constant may refer to a later one, which C does not allow.                *)

Ints == -(Modulus \div 2) .. Modulus \div 2 - 1
NoInt == Modulus
Quotient(m, n) ==
  LET size(k) == IF k < 0 THEN -k ELSE k
      q == size(m) \div size(n)
  IN  IF (m < 0) = (n < 0) THEN q ELSE -q

\* C on two ints; what is not an int stands for no value.
CBinary(op, m, n) ==
  CASE op = "+" -> m + n [] op = "-" -> m - n [] op = "*" -> m * n
    [] op \in {"/", "%"} /\ n = 0 -> NoInt
    [] op = "/" /\ n # 0 -> Quotient(m, n)
    [] op = "%" /\ n # 0 -> m - n * Quotient(m, n)
    [] op \in {"<<", ">>"} /\ (m < 0 \/ n \notin 0 .. Width - 1) -> NoInt
    [] op = "<<" /\ m >= 0 /\ n \in 0 .. Width - 1 -> m * 2 ^ n
    [] op = ">>" /\ m >= 0 /\ n \in 0 .. Width - 1 -> m \div 2 ^ n
    [] op = "&" -> Signed(Wrap(m) & Wrap(n))
    [] op = "|" -> Signed(Wrap(m) | Wrap(n))
    [] op = "^" -> Signed(Wrap(m) ^^ Wrap(n))
    [] op = "==" -> Bool(m = n) [] op = "!=" -> Bool(m # n)
    [] op = "<" -> Bool(m < n) [] op = "<=" -> Bool(m <= n)
    [] op = ">" -> Bool(m > n) [] op = ">=" -> Bool(m >= n)
CUnary(op, m) == CASE op = "-" -> -m [] op = "!" -> Bool(m = 0)
                   [] op = "~" -> -m - 1 [] op = "+" -> m

DividesWords(op, a, b) == op \in {"/", "%"} /\ (Negative(a) \/ Negative(b))
MeansBinary(op, a, b) ==
  LET c == CBinary(op, Signed(a), Signed(b))
  IN  IF c \in Ints /\ ~DividesWords(op, a, b) THEN Wrap(c) ELSE Arithmetic(op, a, b)
MeansUnary(op, a) == Wrap(CUnary(op, Signed(a)))

\* The value and x afterwards; None for a division by zero, a cycle of enum
\* constants, or what is not constant.  Where only constants may stand x is None.
RECURSIVE Means(_, _, _), EnumMeans(_, _)

EnumMeans(i, depth) ==
  LET previous == EnumMeans(i - 1, depth - 1)
  IN  CASE depth = 0 -> None
        [] depth > 0 /\ enums[i].kind # "auto" -> Means(enums[i], None, depth - 1).v
        [] depth > 0 /\ enums[i].kind = "auto" /\ i = 1 -> 0
        [] OTHER -> IF previous = None THEN None ELSE Wrap(previous + 1)

Means(t, x, depth) ==
  LET a == Means(t.kids[1], x, depth)
      b == Means(t.kids[2], a.x, depth)
      Is(v, y) == [v |-> v, x |-> y]
      step == Wrap(IF t.op = "++" THEN x + 1 ELSE x - 1)
      constant == x = None
  IN  CASE t.kind = "literal" -> Is(Literal[t.op], x)
        [] t.kind = "defined" -> Is(Bool(t.kids[1].op \in Macros), x)
        [] t.kind = "name" /\ use = "directive" -> Is(0, x)
        [] t.kind = "name" /\ use # "directive" ->
             Is(IF t.op = "x" THEN x ELSE EnumMeans(IndexOf(t.op), depth), x)
        [] t.kind \in {"prefix", "postfix"} ->
             IF constant THEN Is(None, x) ELSE Is(IF t.kind = "prefix" THEN step ELSE x, step)
        [] t.kind \in {"comma", "call"} /\ constant -> Is(None, x)
        [] OTHER ->
             IF a.v = None THEN a
             ELSE CASE t.kind = "unary" -> Is(MeansUnary(t.op, a.v), a.x)
                    [] t.kind = "cast" -> Is(a.v % 2 ^ CharWidth, a.x)
                    [] t.kind = "call" -> Is(a.v, x)
                    [] t.kind = "comma" -> b
                    [] t.kind = "ternary" -> Means(t.kids[IF a.v # 0 THEN 2 ELSE 3], a.x, depth)
                    [] t.op = "&&" /\ a.v = 0 -> Is(0, a.x)
                    [] t.op = "||" /\ a.v # 0 -> Is(1, a.x)
                    [] OTHER ->
                         IF b.v = None THEN b
                         ELSE IF t.op \in {"&&", "||"} THEN Is(Bool(b.v # 0), b.x)
                         ELSE Is(MeansBinary(t.op, a.v, b.v), b.x)

RECURSIVE HasConditional(_)
HasConditional(t) == t.kind = "ternary" \/ \E k \in DOMAIN t.kids : HasConditional(t.kids[k])

Meaning ==
  IF \E i \in DOMAIN enums : EnumMeans(i, Len(enums)) = None THEN None
  ELSE IF use = "directive" /\ HasConditional(written) THEN None
  ELSE Means(written, IF use = "statement" THEN Start ELSE None, Len(enums)).v

\* Whether a tree can be evaluated in n temporaries, left operand first.
RECURSIVE FitsIn(_, _)
FitsIn(t, n) ==
  CASE t.kind \in {"literal", "name"} -> n >= 1
    [] t.kind \in {"unary", "cast"} -> n >= 2 /\ FitsIn(t.kids[1], n)
    [] t.kind \in {"prefix", "postfix"} -> n >= 2
    [] t.kind = "comma" -> \A k \in 1..2 : FitsIn(t.kids[k], n)
    [] t.kind = "call" -> n >= 1 /\ FitsIn(t.kids[1], Temps)
    [] t.kind = "ternary" \/ t.op \in {"&&", "||"} ->
         \A k \in DOMAIN t.kids : FitsIn(t.kids[k], n - 1)
    [] OTHER -> FitsIn(t.kids[1], n) /\ FitsIn(t.kids[2], n - 1)

\* Words are words, temporaries are temporaries, and no enum constant is left
\* half resolved between two uses of the evaluator.
TypeOK ==
  /\ phase \in {"condition", "parse", "validate", "run", "done", "rejected", "refused"}
  /\ used \subseteq TempRegisters
  /\ \A i \in DOMAIN constants :
       /\ constants[i].has_value \in 0..1 /\ constants[i].value \in 0..AllOnes
       /\ constants[i].resolving = 0
  /\ \A i \in DOMAIN code : code[i].op \in Opcodes /\ code[i].d \in 0 .. Len(code) + 1
  /\ pc \in 1 .. Len(code) + 1
  /\ reg \in [Registers -> 0..AllOnes]
  /\ stack \in Seq(0..AllOnes)
  /\ result \in None..AllOnes

\* The parser finds the tree that was written down: precedence, associativity
\* and parentheses (nc_parse_binary_level, nc_parse_conditional).
ParsesAsWritten ==
  use # "directive" => /\ phase # "rejected"
                       /\ phase # "parse" => ast = written

\* An expression has one value: #if, the constant evaluator and the emitted
\* code agree on it, and on whether it has one, and it is the value of C but for
\* the departures named above (nc_pp_eval_condition, nc_eval_constant_node,
\* nc_emit_expr).
EvaluationsAgree == phase = "done" => result = Meaning

\* Every temporary but the result's is given back, so that an expression is
\* refused for want of registers only if it needs more than there are
\* (nc_alloc_temp, nc_free_temp), and the stack is as it was.
TempsReturned ==
  /\ phase = "run" => used = {} /\ FitsIn(ast, Temps)
  /\ phase = "refused" => ~FitsIn(ast, Temps)
  /\ phase = "run" /\ pc = Len(code) + 1 => stack = <<>>
=============================================================================
