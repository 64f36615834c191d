------------------------------ MODULE NovaImage ------------------------------
(***************************************************************************)
(* What NovaC hands to a debugger (compiler/src/nova_compiler.c): the       *)
(* instructions of small functions at their addresses, the source map, and  *)
(* the lifetimes of locals in their registers.  Only the statements whose   *)
(* layout matters to stepping are here: declarations, assignments, calls    *)
(* with their save area, returns, and the blocks of an if or a while.       *)
(*                                                                         *)
(* A function is [params, body]; a statement names its source line, a       *)
(* variable is its register.  Conditions read the first local.  How values  *)
(* are computed is NovaExpressions, how storage is managed NovaStatements.  *)
(***************************************************************************)
EXTENDS Integers, Sequences, FiniteSets, SequencesExt, FiniteSetsExt, TLC

CONSTANTS
  LocalLast,           (* NOVAC_LOCAL_LAST                                  *)
  TempLast             (* NOVAC_TEMP_LAST > LocalLast: registers 1..TempLast*)
                       (* are saved around a call                           *)

ReturnRegister == 0
Temp == LocalLast + 1  (* the first temporary, free between statements      *)
Scratch == TempLast + 1

Literal(v) == [kind |-> "literal", value |-> v]
Variable(r) == [kind |-> "variable", reg |-> r]
Calling(f, args) == [kind |-> "call", callee |-> f, args |-> args]

Declare(r, x, line) == [kind |-> "declare", reg |-> r, from |-> x, line |-> line]
Assign(r, x, line) == [kind |-> "assign", reg |-> r, from |-> x, line |-> line]
Return(x, line) == [kind |-> "return", from |-> x, line |-> line]
If(body, line) == [kind |-> "if", body |-> body, line |-> line]
While(body, line) == [kind |-> "while", body |-> body, line |-> line]

-----------------------------------------------------------------------------
(* The emitter: instructions, with marks between them where the compiler    *)
(* notes an offset.  A jump leads to an end of the statement it belongs to. *)

Size == [movi |-> 6, mov |-> 3, push |-> 2, pop |-> 2, cmp |-> 3,
         call |-> 5, jmp |-> 5, je |-> 5, ret |-> 1, halt |-> 1]

Emit(e, op, operands) == Append(e, [op |-> op] @@ operands)
MoveImmediate(e, r, v) == Emit(e, "movi", [reg |-> r, value |-> v])
Move(e, r, s) == Emit(e, "mov", [reg |-> r, from |-> s])
Push(e, r) == Emit(e, "push", [reg |-> r])
Pop(e, r) == Emit(e, "pop", [reg |-> r])

(* nc_emit_user_call: the caller saves every register, evaluates the        *)
(* arguments onto the stack and moves them from there to where the callee's *)
(* parameters live; afterwards everything is restored but the result.       *)
Ascending(n) == [i \in 1..n |-> i]
Descending(n) == [i \in 1..n |-> n + 1 - i]
Argument(e, v) == Push(MoveImmediate(e, Temp, v), Temp)
Restore(e) == FoldLeft(Pop, e, Descending(TempLast))
Save(e) == FoldLeft(Push, e, Ascending(TempLast))
UserCall(e, x) ==
  LET saved == FoldLeft(Argument, Save(e), x.args)
      passed == FoldLeft(Pop, saved, Descending(Len(x.args)))
  IN Move(Restore(Emit(passed, "call", [callee |-> x.callee])), Temp, ReturnRegister)

(* nc_emit_expr, into the first temporary.                                  *)
Expression(e, x) ==
  CASE x.kind = "literal" -> MoveImmediate(e, Temp, x.value)
    [] x.kind = "variable" -> Move(e, Temp, x.reg)
    [] x.kind = "call" -> UserCall(e, x)

(* nc_declare_named_symbol; nc_emit_scope_cleanup ends the lifetimes of all *)
(* symbols of the scope.                                                   *)
Symbol(e, r) == Emit(e, "symbol", [reg |-> r])
OpenScope(e) == Emit(e, "scope", <<>>)
CloseScope(e) == Emit(e, "scope end", <<>>)

(* nc_debug_begin_statement, nc_debug_end_statement                         *)
Begin(e, line) == Emit(e, "statement", [line |-> line])
End(e) == Emit(e, "statement end", <<>>)

(* nc_emit_statement, without a body.                                       *)
Simple(e, s) ==
  LET begun == Begin(e, s.line)
      known == IF s.kind = "declare" THEN Symbol(begun, s.reg) ELSE begun
      valued == Expression(known, s.from)
  IN End(IF s.kind = "return"
         THEN Emit(Move(valued, ReturnRegister, Temp), "ret", <<>>)
         ELSE Move(valued, s.reg, Temp))

(* NC_NODE_IF and NC_NODE_WHILE around a block of simple statements.        *)
Branching(e, s) ==
  LET tested == Emit(MoveImmediate(Move(Begin(e, s.line), Temp, 1), Scratch, 0), "cmp", <<>>)
      inside == OpenScope(Emit(tested, "je", <<>>))
      inner == CloseScope(FoldLeft(Simple, inside, s.body))
  IN End(IF s.kind = "while" THEN Emit(inner, "jmp", <<>>) ELSE inner)

Statement(e, s) == IF s.kind \in {"if", "while"} THEN Branching(e, s) ELSE Simple(e, s)

(* nc_emit_function: parameters in the first registers, the body, and a     *)
(* return of 0 that belongs to no statement.                                *)
Function(e, f) ==
  LET entered == OpenScope(Emit(e, "function", [params |-> f.params]))
      declared == FoldLeft(Symbol, entered, Ascending(f.params))
      inside == CloseScope(FoldLeft(Statement, OpenScope(declared), f.body))
      returned == Emit(MoveImmediate(inside, ReturnRegister, 0), "ret", <<>>)
  IN Emit(CloseScope(returned), "function end", <<>>)

(* nc_compile_project_debug_ex5_workspace: the entry trampoline calls main, *)
(* the first function here.                                                *)
Trampoline == Emit(Emit(<<>>, "call", [callee |-> 1]), "halt", <<>>)

-----------------------------------------------------------------------------
(* Offsets.  The mark that ends what is open at k is the first that ends    *)
(* more of its kind than begin behind k.                                   *)

Positions(e, op) == {k \in DOMAIN e : e[k].op = op}
EndOf(e, what, k) ==
  LET Ends(m) == Positions(e, what \o " end") \cap (k + 1)..m
      Begins(m) == Positions(e, what) \cap (k + 1)..m
  IN Min({m \in (k + 1)..Len(e) : Cardinality(Ends(m)) > Cardinality(Begins(m))})
Bytes(i) == IF i.op \in DOMAIN Size THEN Size[i.op] ELSE 0
Offset(e, k) == FoldLeft(LAMBDA n, i : n + Bytes(i), 0, SubSeq(e, 1, k - 1))
FunctionOf(e, k) == Cardinality(Positions(e, "function") \cap 1..k)
InOrder(e, op) == SelectSeq(Ascending(Len(e)), LAMBDA k : e[k].op = op)

(* The source map in the order in which statements begin, the symbols, the  *)
(* functions.                                                              *)
RowAt(e, k) ==
  [fn |-> FunctionOf(e, k), line |-> e[k].line,
   from |-> Offset(e, k), to |-> Offset(e, EndOf(e, "statement", k))]
SymbolAt(e, k) ==
  [fn |-> FunctionOf(e, k), reg |-> e[k].reg,
   from |-> Offset(e, k), to |-> Offset(e, EndOf(e, "scope", k))]
FunctionAt(e, k) ==
  [params |-> e[k].params,
   from |-> Offset(e, k), to |-> Offset(e, EndOf(e, "function", k))]

(* nc_patch_u32, for jumps when their statement ends, for calls when every  *)
(* function has its address.                                               *)
Target(e, k) ==
  CASE e[k].op = "call" -> Offset(e, InOrder(e, "function")[e[k].callee])
    [] e[k].op = "je" -> Offset(e, EndOf(e, "statement", k))
    [] e[k].op = "jmp" ->
         Offset(e, Max({j \in Positions(e, "statement") : j < k /\ EndOf(e, "statement", j) > k}))
InstructionAt(e, k) ==
  (IF e[k].op \in {"call", "je", "jmp"} THEN [target |-> Target(e, k)] ELSE <<>>)
    @@ [size |-> Size[e[k].op]] @@ e[k]

Linked(e) ==
  LET Row(rows, k) == Append(rows, RowAt(e, k))
      Lifetime(symbols, k) == Append(symbols, SymbolAt(e, k))
      Table(functions, k) == Append(functions, FunctionAt(e, k))
      Placed(code, k) ==
        IF e[k].op \in DOMAIN Size THEN (Offset(e, k) :> InstructionAt(e, k)) @@ code ELSE code
  IN [code |-> FoldLeft(Placed, <<>>, Ascending(Len(e))),
      size |-> Offset(e, Len(e) + 1),
      rows |-> FoldLeft(Row, <<>>, InOrder(e, "statement")),
      symbols |-> FoldLeft(Lifetime, <<>>, InOrder(e, "symbol")),
      functions |-> FoldLeft(Table, <<>>, InOrder(e, "function"))]

Image(functions) ==
  LET linked[e \in {FoldLeft(Function, Trampoline, functions)}] == Linked(e)
  IN linked[FoldLeft(Function, Trampoline, functions)]
=============================================================================
