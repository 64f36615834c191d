--------------------------- MODULE NovaStatements ---------------------------
(* The body of one NovaC function: the statement parser of nova_compiler.c,  *)
(* the code it emits for statements, scopes, loops, jumps and the storage of *)
(* locals, and the run of that code.  The parser writes the syntax tree as a *)
(* sequence of nodes, an opening and a closing node for each construct; the  *)
(* generator visits it in that order, one action per node kind; the machine  *)
(* then executes one abstract instruction per step.  Conditions are not      *)
(* evaluated: a branch goes both ways.  Of an expression only what touches   *)
(* storage is kept: x is updated or its address is taken, as a statement, as *)
(* an argument of a call, or as the second operand of && or ||.              *)
EXTENDS Integers, Sequences, FiniteSets, SequencesExt

CONSTANTS
  Names,          \* local variables a program may declare
  Labels,         \* labels a program may use
  Parameters,     \* sequence of the int parameters of the function
  Weight,         \* what a statement of each kind counts towards MaxWeight
  MaxWeight,      \* the weight of a program (bounds the programs)
  MaxScopeDepth,  \* NOVAC_MAX_SCOPE_DEPTH
  MaxLocals,      \* NOVA_COMPILER_MAX_LOCALS
  MaxStaticLocals, \* NOVAC_MAX_STATIC_LOCALS
  MaxBreakDepth,  \* NOVAC_MAX_BREAK_DEPTH
  MaxLoopDepth,   \* NOVAC_MAX_LOOP_DEPTH
  MaxLoopPatches, \* NOVAC_MAX_LOOP_PATCHES
  MaxGotoPatches, \* NOVAC_MAX_GOTO_PATCHES
  MaxObjects,     \* heap objects of a run (bounds the heap)
  Values,         \* a stored word counts its updates modulo this
  Disciplined     \* 1: only programs that keep to the rules of Plain below

ASSUME CapacityAssumption ==
  /\ \A c \in {MaxScopeDepth, MaxLocals, MaxStaticLocals, MaxBreakDepth, MaxLoopDepth,
               MaxLoopPatches, MaxGotoPatches, MaxObjects, Values} : c \in Nat \ {0}
  /\ MaxWeight \in Nat /\ \A kind \in DOMAIN Weight : Weight[kind] \in Nat
  /\ Parameters \in Seq(ToSet(Parameters)) /\ Len(Parameters) <= MaxLocals
  /\ "" \notin Names \cup ToSet(Parameters)

VARIABLES
  phase,          \* "parse", "emit", "run", or how it ended
  ast,            \* nodes in the order of the source
  expect,         \* what the recursive descent still has to read
  parser,         \* block_depth, declaration_epoch, loop_depth, noElse
  within,         \* the constructs that are open, outermost first
  at,             \* the node the generator is at
  frames,         \* locals of the active calls of nc_emit_statement
  symbols, scope, \* symbols, scope_depth
  code,           \* the emitted instructions
  breaks, loops,  \* break_stack, loop_stack
  breakPatches, continuePatches, gotoPatches,
  labels,         \* address of each emitted label, 0 before
  pc, reg, saved, \* the machine: locals' registers, those a call has pushed
  heap,           \* each object's word, or Dead
  src             \* what the source says each local holds

parseVars == <<ast, expect, parser, within>>
patchVars == <<breaks, loops, breakPatches, continuePatches, gotoPatches>>
emitVars == <<at, frames, symbols, scope, code, patchVars, labels>>
runVars == <<pc, reg, saved, heap, src>>
vars == <<phase, parseVars, emitVars, runVars>>

Declarations == {"object", "int", "static"}
LoopKinds == {"while", "do", "for"}
Finished == {"returned", "faulted", "rejected"}
-----------------------------------------------------------------------------
(* The parser.  `expect` is the stack of nc_parse_statement's callers:       *)
(* "list" and "case" take any number of statements, "stmt" takes one.        *)

IsPrefixOf(s, t) == Len(s) <= Len(t) /\ SubSeq(t, 1, Len(s)) = s

Node(kind, name, how) ==
  [kind |-> kind, name |-> name, how |-> how, depth |-> parser.depth,
   epoch |-> parser.epoch, within |-> within]

\* The names a declaration node puts into the scope it stands for.
ScopeOf(d) == IF ast[d].kind = "for" THEN Append(ast[d].within, d) ELSE ast[d].within
Declares(d, x) == /\ ast[d].name = x
                  /\ ast[d].kind \in Declarations \/ ast[d].kind = "for"

\* The declaration of x that C's scopes make visible to the node after n.
VisibleAt(n, path, x) ==
  LET seen == {d \in 1..n : Declares(d, x) /\ IsPrefixOf(ScopeOf(d), path)}
  IN  IF seen = {} THEN 0 ELSE CHOOSE d \in seen : \A e \in seen : e <= d

IsTaken(x) ==
  LET d == VisibleAt(Len(ast), within, x)
  IN  \/ d # 0 /\ ast[d].how # "int"
      \/ \E k \in 1..Len(ast) :
           /\ ast[k].kind = "address" /\ ast[k].name = x
           /\ VisibleAt(k, ast[k].within, x) = d

\* What a disciplined program keeps to: the address of an int is first taken
\* among the statements that follow its declaration, a register is updated in
\* no argument of a call, a declaration is in braces, and a goto jumps to a
\* construct that holds it, forwards only out of blocks and loops.
PlainExpression(kind, x, how) ==
  \/ Disciplined = 0
  \/ IsTaken(x)
  \/ kind = "update" /\ how # "argument"
  \/ LET d == VisibleAt(Len(ast), within, x)
     IN  /\ kind = "address" /\ how = "statement"
         /\ d # 0 => ast[d].kind # "for"
         /\ \A k \in d + 1 .. Len(ast) :
              \/ ast[k].kind \in Declarations \/ k = 1
              \/ ast[k].kind \in {"update", "address"} /\ ast[k].how = "statement"

PlainDeclaration == Disciplined = 0 \/ Head(expect) \in {"list", "case"}

PlainGoto(from, to, forward) ==
  \/ Disciplined = 0
  \/ /\ IsPrefixOf(to, from)
     /\ forward => \A k \in Len(to) + 1 .. Len(from) :
                     ast[from[k]].kind \notin {"for", "case", "default"}

\* What is expected once the statement at hand is complete.
Rest == IF Head(expect) = "stmt" THEN Tail(expect) ELSE expect

\* The bound leaves room for what an open construct still needs.
Fits(weight, expected) ==
  weight + Cardinality({k \in DOMAIN expected : expected[k] \in {"stmt", "switch"}})
    <= parser.room

MayRead(kind, inner) ==
  /\ phase = "parse" /\ kind \in DOMAIN Weight
  /\ expect # <<>> /\ Head(expect) \in {"list", "case", "stmt"}
  /\ Fits(Weight[kind], inner \o Rest)

\* A token was read, the first of a statement of some kind or another.
Fresh(kind) == [parser EXCEPT !.noElse = 0,
                              !.room = IF kind \in DOMAIN Weight THEN @ - Weight[kind] ELSE @]

Reject == phase' = "rejected" /\ UNCHANGED <<parseVars, emitVars, runVars>>

ReadLeaf(node) ==
  /\ ast' = Append(ast, node)
  /\ expect' = Rest
  /\ UNCHANGED <<phase, within, emitVars, runVars>>

Declare(kind, x) ==
  /\ MayRead(kind, <<>>) /\ PlainDeclaration
  /\ ~(Head(expect) = "stmt" /\ expect[2] = "endfor")
  /\ parser' = [Fresh(kind) EXCEPT !.epoch = @ + 1]
  /\ ReadLeaf([Node(kind, x, kind) EXCEPT !.epoch = parser.epoch + 1])

ParseDeclaration(kind, x) == kind # "static" /\ Declare(kind, x)

StaticsFit == Cardinality({k \in DOMAIN ast : ast[k].kind = "static"}) < MaxStaticLocals
ParseStatic(x) == IF StaticsFit THEN Declare("static", x)
                  ELSE MayRead("static", <<>>) /\ PlainDeclaration /\ Reject

\* "for-loop declaration body requires braces"
ParseForDeclaration(kind) ==
  /\ MayRead(kind, <<>>) /\ Head(expect) = "stmt" /\ expect[2] = "endfor"
  /\ Reject

ParseExpression(kind, x, how) ==
  /\ MayRead(kind, <<>>) /\ PlainExpression(kind, x, how)
  /\ x \in ToSet(Parameters) \/ \E d \in DOMAIN ast : Declares(d, x)
  /\ parser' = Fresh(kind)
  /\ ReadLeaf(Node(kind, x, how))

ParseReturn ==
  /\ MayRead("return", <<>>)
  /\ parser' = Fresh("return")
  /\ ReadLeaf(Node("return", "", ""))

ParseGoto(l) ==
  /\ MayRead("goto", <<>>)
  /\ \A k \in DOMAIN ast : ast[k].kind = "label" /\ ast[k].name = l
                             => PlainGoto(within, ast[k].within, FALSE)
  /\ parser' = Fresh("goto")
  /\ ReadLeaf(Node("goto", l, ""))

\* switch_depth is the number of open switches.
ParseJump(kind) ==
  LET open == {ast[within[k]].kind : k \in DOMAIN within}
  IN  /\ MayRead(kind, <<>>)
      /\ IF parser.loops > 0 \/ (kind = "break" /\ "switch" \in open)
         THEN /\ parser' = Fresh(kind)
              /\ ReadLeaf(Node(kind, "", ""))
         ELSE Reject

\* The statements that hold others: `inner` is what has to be read for them.
ReadOpen(node, inner, changes, path) ==
  /\ ast' = Append(ast, node)
  /\ expect' = inner \o Rest
  /\ parser' = changes
  /\ within' = path
  /\ UNCHANGED <<phase, emitVars, runVars>>

Opened == Append(within, Len(ast) + 1)
ParseBlock ==
  /\ MayRead("block", <<>>)
  /\ IF parser.depth + 1 >= MaxScopeDepth
     THEN Reject
     ELSE ReadOpen(Node("block", "", ""), <<"list">>,
                   [Fresh("block") EXCEPT !.depth = @ + 1], Opened)

ParseIf ==
  /\ MayRead("if", <<"stmt">>)
  /\ ReadOpen(Node("if", "", ""), <<"stmt", "else?">>, Fresh("if"), within)

LoopEnd == [while |-> "endwhile", do |-> "enddo", for |-> "endfor"]
ParseLoop(kind) ==
  /\ MayRead(kind, <<"stmt">>) /\ kind \in {"while", "do"}
  /\ ReadOpen(Node(kind, "", ""), <<"stmt", LoopEnd[kind]>>,
              [Fresh(kind) EXCEPT !.loops = @ + 1], Opened)

\* how: the kind of the variable the first clause declares and the third
\* updates, or "none" for a loop without clauses.
ParseFor(x, how) ==
  LET declared == IF how = "none" THEN 0 ELSE 1
  IN  /\ MayRead("for", <<"stmt">>)
      /\ ReadOpen([Node("for", x, how) EXCEPT !.epoch = parser.epoch + declared],
                  <<"stmt", "endfor">>,
                  [Fresh("for") EXCEPT !.loops = @ + 1, !.epoch = @ + declared], Opened)

ParseSwitch ==
  /\ MayRead("switch", <<"switch">>)
  /\ ReadOpen(Node("switch", "", ""), <<"switch">>, Fresh("switch"), Opened)

ParseLabel(l) ==
  /\ MayRead("label", <<"stmt">>)
  /\ \A k \in DOMAIN ast : ast[k].kind = "goto" /\ ast[k].name = l
                             => PlainGoto(ast[k].within, within, TRUE)
  /\ ReadOpen(Node("label", l, ""), <<"stmt">>, Fresh("label"), within)

\* case and default are read by nc_parse_switch_statement itself.
ParseCase(kind) ==
  LET first == Head(expect) = "switch"
      path  == IF first THEN within ELSE Front(within)
      end   == IF first THEN <<>> ELSE <<[Node("endcase", "", "") EXCEPT !.within = path]>>
  IN  /\ phase = "parse" /\ expect # <<>> /\ Head(expect) \in {"switch", "case"}
      /\ kind \in DOMAIN Weight /\ Fits(Weight[kind], Tail(expect))
      /\ kind = "default" =>
           ~\E k \in DOMAIN ast : ast[k].kind = "default" /\ ast[k].within = path
      /\ ast' = (ast \o end) \o <<[Node(kind, "", "") EXCEPT !.within = path]>>
      /\ expect' = <<"case">> \o Tail(expect)
      /\ parser' = Fresh(kind)
      /\ within' = Append(path, Len(ast) + Len(end) + 1)
      /\ UNCHANGED <<phase, emitVars, runVars>>

\* The ends of constructs; all but an if, a while and a for read a token.
ReadEnd(nodes, changes, path) ==
  /\ ast' = ast \o nodes
  /\ expect' = Tail(expect)
  /\ parser' = changes
  /\ within' = path
  /\ UNCHANGED <<phase, emitVars, runVars>>

Expected(what) == phase = "parse" /\ expect # <<>> /\ Head(expect) = what
End(kind, path) == [Node(kind, "", "") EXCEPT !.within = path]

ParseBlockEnd ==
  /\ Expected("list")
  /\ ReadEnd(<<End("endblock", Front(within))>>, [Fresh("}") EXCEPT !.depth = @ - 1],
             Front(within))

ParseSwitchEnd ==
  LET outer == Front(within)
  IN  /\ Expected("case")
      /\ ReadEnd(<<End("endcase", outer), End("endswitch", Front(outer))>>, Fresh("}"),
                 Front(outer))

ParseLoopEnd(kind) ==
  /\ Expected(LoopEnd[kind])
  /\ ReadEnd(<<End(LoopEnd[kind], Front(within))>>,
             [parser EXCEPT !.loops = @ - 1,
                            !.noElse = IF kind = "do" THEN 0 ELSE @], Front(within))

\* An else belongs to the innermost if that can take it.
ParseElse ==
  /\ Expected("else?") /\ parser.noElse = 0 /\ Fits(1, Tail(expect))
  /\ ast' = Append(ast, Node("else", "", ""))
  /\ expect' = <<"stmt", "endif">> \o Tail(expect)
  /\ UNCHANGED <<phase, parser, within, emitVars, runVars>>

ParseIfEnd ==
  /\ Expected("else?") \/ Expected("endif")
  /\ ReadEnd(<<Node("endif", "", "")>>,
             [parser EXCEPT !.noElse = IF Head(expect) = "else?" THEN 1 ELSE @], within)
-----------------------------------------------------------------------------
(* The generator.  A symbol lives in the register that is its index.         *)

Ins(op, r, to) == [op |-> op, r |-> r, to |-> to, node |-> at]
Size(c) == Len(c) + 1
Patch(c, i, to) == [c EXCEPT ![i].to = to]

\* Mutant: the oldest symbol of that name, not the newest.
FindSymbolOldest(x) ==
  LET found == {i \in DOMAIN symbols : symbols[i].name = x}
  IN  IF found = {} THEN 0 ELSE CHOOSE i \in found : \A j \in found : i <= j

FindSymbol(x) ==
  LET found == {i \in DOMAIN symbols : symbols[i].name = x}
  IN  IF found = {} THEN 0 ELSE CHOOSE i \in found : \A j \in found : j <= i

FindSymbolInScope(x, depth) ==
  \E i \in DOMAIN symbols : symbols[i].name = x /\ symbols[i].scope = depth

Symbol(x, kind, depth, epoch, source) ==
  [name |-> x, kind |-> kind, backed |-> IF kind = "int" THEN 0 ELSE 1,
   owns |-> IF kind = "object" THEN 1 ELSE 0, scope |-> depth, epoch |-> epoch,
   source |-> source, node |-> at]

\* What a declaration emits: an aggregate gets a heap object, a static local
\* the address of its storage, an int its initial value.
Storage(kind, r) ==
  <<Ins(CASE kind = "object" -> "alloc" [] kind = "static" -> "static" [] OTHER -> "set",
        r, 0)>>

\* The objects of those of the symbols `left` that own one, in the order of regs.
Frees(regs, left) ==
  LET freed[k \in 0 .. Len(regs)] ==
        IF k = 0 THEN <<>>
        ELSE IF regs[k] \in left /\ symbols[regs[k]].owns = 1
        THEN Append(freed[k - 1], Ins("free", regs[k], 0)) ELSE freed[k - 1]
  IN  freed[Len(regs)]

\* From the newest symbol down to the first that is kept.
OldestFirst == [k \in DOMAIN symbols |-> k]
NewestFirst == [k \in DOMAIN symbols |-> Len(symbols) + 1 - k]
CleanupFrom(kept) == Frees(NewestFirst, kept + 1 .. Len(symbols))
AggregateCleanup == Frees(OldestFirst, DOMAIN symbols)
\* Mutant: only blocks are left, not declarations behind a label beside them.
GotoCleanupBlocks(depth, epoch) ==
  Frees(NewestFirst, {r \in DOMAIN symbols : symbols[r].source > depth})

GotoCleanup(depth, epoch) ==
  LET leaves(r) == \/ symbols[r].source > depth
                   \/ symbols[r].source = depth /\ symbols[r].epoch > epoch
  IN  Frees(NewestFirst, {r \in DOMAIN symbols : leaves(r)})

PatchAll(c, patches, from, to) ==
  [i \in DOMAIN c |->
     IF \E k \in from + 1 .. Len(patches) : patches[k] = i
     THEN [c[i] EXCEPT !.to = to] ELSE c[i]]

CanPushBreak == Len(breaks) < MaxBreakDepth
CanPushLoop == CanPushBreak /\ Len(loops) < MaxLoopDepth

PushBreak(kept) ==
  breaks' = Append(breaks, [patches |-> Len(breakPatches), kept |-> kept])
PushLoop(kept) ==
  /\ PushBreak(kept)
  /\ loops' = Append(loops, [patches |-> Len(continuePatches), kept |-> kept])

\* Mutant: the patches of the inner construct stay in the list.
FinishBreakKeeps == breaks' = Front(breaks) /\ UNCHANGED breakPatches

FinishBreak ==
  /\ breakPatches' = SubSeq(breakPatches, 1, Last(breaks).patches)
  /\ breaks' = Front(breaks)
FinishLoop ==
  /\ FinishBreak
  /\ continuePatches' = SubSeq(continuePatches, 1, Last(loops).patches)
  /\ loops' = Front(loops)
  /\ UNCHANGED gotoPatches

\* The jumps of the innermost break or loop context get their targets.
BreaksPatched(c, to) == PatchAll(c, breakPatches, Last(breaks).patches, to)
LoopPatched(c, break, continue) ==
  BreaksPatched(PatchAll(c, continuePatches, Last(loops).patches, continue), break)

Emitting(kinds) == /\ phase = "emit" /\ at <= Len(ast) /\ ast[at].kind \in kinds
                   /\ at' = at + 1
                   /\ UNCHANGED <<phase, parseVars, runVars>>
Refuse == /\ phase' = "rejected" /\ UNCHANGED <<parseVars, emitVars, runVars>>
Refusing(kinds) == phase = "emit" /\ at <= Len(ast) /\ ast[at].kind \in kinds /\ Refuse

Frame(kept, start, patch, cases) ==
  [kept |-> kept, start |-> start, patch |-> patch, cases |-> cases]
Push(frame) == frames' = Append(frames, frame)
Pop == frames' = Front(frames)
Top == Last(frames)

\* nc_collect_labels refuses a label that is there twice.
CollectLabels ==
  /\ phase = "parse" /\ expect = <<>>
  /\ IF \E j, k \in DOMAIN ast : /\ j < k /\ ast[j].kind = "label"
                                 /\ ast[k].kind = "label" /\ ast[j].name = ast[k].name
     THEN phase' = "rejected"
     ELSE phase' = "emit"
  /\ UNCHANGED <<parseVars, emitVars, runVars>>

EmitBlock ==
  /\ Emitting({"block"})
  /\ Push(Frame(Len(symbols), 0, 0, {}))
  /\ scope' = scope + 1
  /\ UNCHANGED <<symbols, code, patchVars, labels>>

EmitBlockEnd ==
  /\ Emitting({"endblock", "endcase"})
  /\ code' = code \o CleanupFrom(Top.kept)
  /\ symbols' = SubSeq(symbols, 1, Top.kept)
  /\ scope' = scope - 1
  /\ Pop
  /\ UNCHANGED <<patchVars, labels>>

\* Mutant: room for one symbol more than there is.
CanDeclareOneMore(x, depth) == ~FindSymbolInScope(x, depth) /\ Len(symbols) <= MaxLocals

CanDeclare(x, depth) == ~FindSymbolInScope(x, depth) /\ Len(symbols) < MaxLocals

EmitDeclaration ==
  LET n == ast[at]
  IN  /\ Emitting(Declarations)
      /\ CanDeclare(n.name, scope)
      /\ symbols' = Append(symbols, Symbol(n.name, n.kind, scope, n.epoch, n.depth))
      /\ code' = code \o Storage(n.kind, Len(symbols) + 1)
      /\ UNCHANGED <<frames, scope, patchVars, labels>>

RefuseDeclaration == Refusing(Declarations) /\ ~CanDeclare(ast[at].name, scope)

\* nc_promote_scalar_symbol runs in the middle of the expression.
Touch(kind, i) ==
  LET register == symbols[i].backed = 0
  IN  IF kind = "address"
      THEN (IF register THEN <<Ins("promote", i, 0)>> ELSE <<>>) \o <<Ins("take", i, 0)>>
      ELSE <<Ins(IF register THEN "update" ELSE "store", i, 0)>>

\* A call saves the registers before it evaluates the arguments; && and || jump
\* over their second operand.
InContext(how, body) ==
  CASE how = "argument" -> <<Ins("save", 0, 0)>> \o body \o <<Ins("restore", 0, 0)>>
    [] how = "operand" -> <<Ins("branch", 0, Size(code) + 1 + Len(body))>> \o body
    [] OTHER -> body

\* Mutant: the symbol owns its object but still counts as a register.
AfterTouchUnbacked(kind, i) ==
  IF kind = "address" /\ symbols[i].backed = 0
  THEN [symbols EXCEPT ![i].owns = 1]
  ELSE symbols

AfterTouch(kind, i) ==
  IF kind = "address" /\ symbols[i].backed = 0
  THEN [symbols EXCEPT ![i].backed = 1, ![i].owns = 1]
  ELSE symbols

EmitExpression ==
  LET n == ast[at]
      i == FindSymbol(n.name)
  IN  /\ Emitting({"update", "address"})
      /\ i # 0
      /\ code' = code \o InContext(n.how, Touch(n.kind, i))
      /\ symbols' = AfterTouch(n.kind, i)
      /\ UNCHANGED <<frames, scope, patchVars, labels>>

RefuseExpression == Refusing({"update", "address"}) /\ FindSymbol(ast[at].name) = 0

EmitIf ==
  /\ Emitting({"if"})
  /\ code' = Append(code, Ins("branch", 0, 0))
  /\ Push(Frame(0, 0, Size(code), {}))
  /\ UNCHANGED <<symbols, scope, patchVars, labels>>

EmitElse ==
  /\ Emitting({"else"})
  /\ code' = Patch(Append(code, Ins("jump", 0, 0)), Top.patch, Size(code) + 1)
  /\ frames' = Append(Front(frames), Frame(0, 0, Size(code), {}))
  /\ UNCHANGED <<symbols, scope, patchVars, labels>>

EmitIfEnd ==
  /\ Emitting({"endif"})
  /\ code' = Patch(code, Top.patch, Size(code))
  /\ Pop
  /\ UNCHANGED <<symbols, scope, patchVars, labels>>

EmitWhile ==
  /\ Emitting({"while"}) /\ CanPushLoop
  /\ PushLoop(Len(symbols))
  /\ code' = Append(code, Ins("branch", 0, 0))
  /\ Push(Frame(0, Size(code), Size(code), {}))
  /\ UNCHANGED <<symbols, scope, breakPatches, continuePatches, gotoPatches, labels>>

EmitWhileEnd ==
  LET back == Append(code, Ins("jump", 0, Top.start))
      exit == Size(back)
  IN  /\ Emitting({"endwhile"})
      /\ code' = LoopPatched(Patch(back, Top.patch, exit), exit, Top.start)
      /\ FinishLoop /\ Pop
      /\ UNCHANGED <<symbols, scope, labels>>

EmitDo ==
  /\ Emitting({"do"}) /\ CanPushLoop
  /\ PushLoop(Len(symbols))
  /\ Push(Frame(0, Size(code), 0, {}))
  /\ UNCHANGED <<symbols, scope, code, breakPatches, continuePatches, gotoPatches, labels>>

EmitDoEnd ==
  LET condition == Size(code)
      exit == condition + 2
  IN  /\ Emitting({"enddo"})
      /\ code' = LoopPatched(code \o <<Ins("branch", 0, exit), Ins("jump", 0, Top.start)>>,
                             exit, condition)
      /\ FinishLoop /\ Pop
      /\ UNCHANGED <<symbols, scope, labels>>

\* The variable of the first clause is in a scope of its own.
EmitFor ==
  LET n == ast[at]
      r == Len(symbols) + 1
      declared == n.how # "none"
      init == IF declared THEN code \o Storage(n.how, r) ELSE code
  IN  /\ Emitting({"for"})
      /\ (declared => CanDeclare(n.name, scope + 1))
      /\ CanPushLoop
      /\ scope' = scope + 1
      /\ symbols' = IF declared
                    THEN Append(symbols, Symbol(n.name, n.how, scope + 1, n.epoch, n.depth))
                    ELSE symbols
      /\ PushLoop(IF declared THEN r ELSE Len(symbols))
      /\ code' = IF declared THEN Append(init, Ins("branch", 0, 0)) ELSE init
      /\ Push(Frame(Len(symbols), Size(init), IF declared THEN Size(init) ELSE 0, {}))
      /\ UNCHANGED <<breakPatches, continuePatches, gotoPatches, labels>>

EmitForEnd ==
  LET r    == Top.kept + 1
      post == IF r <= Len(symbols) THEN code \o Touch("update", r) ELSE code
      back == Append(post, Ins("jump", 0, Top.start))
      exit == Size(back)
      left == IF Top.patch = 0 THEN back ELSE Patch(back, Top.patch, exit)
  IN  /\ Emitting({"endfor"})
      /\ code' = LoopPatched(left, exit, Size(code))
                   \o CleanupFrom(Top.kept)
      /\ symbols' = SubSeq(symbols, 1, Top.kept)
      /\ scope' = scope - 1
      /\ FinishLoop /\ Pop
      /\ UNCHANGED labels

RefuseLoop ==
  /\ Refusing(LoopKinds)
  /\ \/ ~CanPushLoop
     \/ /\ ast[at].kind = "for" /\ ast[at].how # "none"
        /\ ~CanDeclare(ast[at].name, scope + 1)

\* A branch for each case, then the jump to the default or behind the switch.
EmitSwitch ==
  LET cases == {k \in at + 1 .. Len(ast) : /\ ast[k].kind = "case"
                                           /\ ast[k].within = Append(ast[at].within, at)}
      last == Size(code) + Cardinality(cases)
  IN  /\ Emitting({"switch"}) /\ CanPushBreak
      /\ PushBreak(Len(symbols))
      /\ code' = code \o [k \in 1 .. Cardinality(cases) |-> Ins("branch", 0, 0)]
                      \o <<Ins("jump", 0, 0)>>
      /\ Push(Frame(Len(symbols), last, last, cases))
      /\ UNCHANGED <<symbols, scope, loops, breakPatches, continuePatches, gotoPatches, labels>>

RefuseSwitch == Refusing({"switch"}) /\ ~CanPushBreak

\* The dispatch jump of the case at hand; patch is 0 once the default has its.
Dispatch(start, cases, n) == start - Cardinality({k \in cases : k >= n})
EmitCase ==
  LET isDefault == ast[at].kind = "default"
      dispatch == IF isDefault THEN Top.patch ELSE Dispatch(Top.start, Top.cases, at)
  IN  /\ Emitting({"case", "default"})
      /\ code' = Patch(code, dispatch, Size(code))
      /\ frames' = Append(IF isDefault THEN [frames EXCEPT ![Len(frames)].patch = 0] ELSE frames,
                          Frame(Len(symbols), 0, 0, {}))
      /\ scope' = scope + 1
      /\ UNCHANGED <<symbols, patchVars, labels>>

EmitSwitchEnd ==
  LET end == Size(code)
  IN  /\ Emitting({"endswitch"})
      /\ code' = BreaksPatched(IF Top.patch = 0 THEN code ELSE Patch(code, Top.patch, end), end)
      /\ FinishBreak /\ Pop
      /\ UNCHANGED <<symbols, scope, loops, continuePatches, gotoPatches, labels>>

EmitBreak ==
  LET cleaned == code \o CleanupFrom(Last(breaks).kept)
  IN  /\ Emitting({"break"}) /\ Len(breakPatches) < MaxLoopPatches
      /\ code' = Append(cleaned, Ins("jump", 0, 0))
      /\ breakPatches' = Append(breakPatches, Size(cleaned))
      /\ UNCHANGED <<frames, symbols, scope, breaks, loops, continuePatches, gotoPatches, labels>>

EmitContinue ==
  LET cleaned == code \o CleanupFrom(Last(loops).kept)
  IN  /\ Emitting({"continue"}) /\ Len(continuePatches) < MaxLoopPatches
      /\ code' = Append(cleaned, Ins("jump", 0, 0))
      /\ continuePatches' = Append(continuePatches, Size(cleaned))
      /\ UNCHANGED <<frames, symbols, scope, breaks, loops, breakPatches, gotoPatches, labels>>

RefuseJump ==
  \/ Refusing({"break"}) /\ Len(breakPatches) >= MaxLoopPatches
  \/ Refusing({"continue"}) /\ Len(continuePatches) >= MaxLoopPatches

EmitLabel ==
  LET l == ast[at].name
  IN  /\ Emitting({"label"})
      /\ labels' = [labels EXCEPT ![l] = Size(code)]
      /\ code' = [i \in DOMAIN code |->
                    IF \E k \in DOMAIN gotoPatches : gotoPatches[k] = <<i, l>>
                    THEN [code[i] EXCEPT !.to = Size(code)] ELSE code[i]]
      /\ UNCHANGED <<frames, symbols, scope, patchVars>>

LabelNodes(l) == {k \in DOMAIN ast : ast[k].kind = "label" /\ ast[k].name = l}

\* "goto may not enter a deeper lexical scope", "forward goto may not skip
\* declarations before its target label"
MayGoto(n) == \E k \in LabelNodes(n.name) : ast[k].depth <= n.depth /\ ast[k].epoch <= n.epoch

EmitGoto ==
  LET n == ast[at]
      k == CHOOSE j \in LabelNodes(n.name) : TRUE
      cleaned == code \o GotoCleanup(ast[k].depth, ast[k].epoch)
  IN  /\ Emitting({"goto"}) /\ MayGoto(n)
      /\ labels[n.name] = 0 => Len(gotoPatches) < MaxGotoPatches
      /\ code' = Append(cleaned, Ins("jump", 0, labels[n.name]))
      /\ gotoPatches' = IF labels[n.name] = 0
                        THEN Append(gotoPatches, <<Size(cleaned), n.name>>)
                        ELSE gotoPatches
      /\ UNCHANGED <<frames, symbols, scope, breaks, loops, breakPatches, continuePatches, labels>>

RefuseGoto ==
  /\ Refusing({"goto"})
  /\ \/ ~MayGoto(ast[at])
     \/ labels[ast[at].name] = 0 /\ Len(gotoPatches) >= MaxGotoPatches

EmitReturn ==
  /\ Emitting({"return"})
  /\ code' = code \o AggregateCleanup \o <<Ins("ret", 0, 0)>>
  /\ UNCHANGED <<frames, symbols, scope, patchVars, labels>>

\* The end of nc_emit_function.
EmitFunctionEnd ==
  /\ phase = "emit" /\ at = Len(ast) + 1
  /\ code' = code \o AggregateCleanup \o <<Ins("ret", 0, 0)>>
  /\ phase' = "run"
  /\ UNCHANGED <<parseVars, at, frames, symbols, scope, patchVars, labels, runVars>>
-----------------------------------------------------------------------------
(* The run.  A register holds a word or the address of an object; src is     *)
(* what the words would be if every local kept to the source.                *)

Dead == Values
Word(n) == [tag |-> "word", n |-> n]
Address(o) == [tag |-> "object", n |-> o]
StaticCell == [tag |-> "static", n |-> 0]

Here == code[pc]
Cell == reg[Here.r]
IsLive(c) == c.tag = "object" /\ heap[c.n] # Dead
Next1(n) == (n + 1) % Values

Running(ops) == phase = "run" /\ Here.op \in ops /\ UNCHANGED <<parseVars, emitVars>>
Advance == pc' = pc + 1 /\ UNCHANGED phase
Fault == phase' = "faulted" /\ UNCHANGED <<runVars>>

\* Objects no register names, so that a stale address stays recognizable.
Unused == {o \in 1..MaxObjects :
             /\ heap[o] = Dead
             /\ \A r \in 1..MaxLocals : \A file \in {reg} \cup ToSet(saved) : file[r] # Address(o)}

RunAlloc ==
  \E o \in Unused :
    /\ Running({"alloc"}) /\ Advance
    /\ \A p \in Unused : o <= p
    /\ heap' = [heap EXCEPT ![o] = 0]
    /\ reg' = [reg EXCEPT ![Here.r] = Address(o)]
    /\ src' = [src EXCEPT ![Here.r] = 0]
    /\ UNCHANGED saved

RunSet ==
  /\ Running({"set", "static"}) /\ Advance
  /\ reg' = [reg EXCEPT ![Here.r] = IF Here.op = "set" THEN Word(0) ELSE StaticCell]
  /\ src' = [src EXCEPT ![Here.r] = 0]
  /\ UNCHANGED <<saved, heap>>

\* The object takes the register's word; an address becomes a wild word.
RunPromote ==
  \E o \in Unused :
    /\ Running({"promote"}) /\ Advance
    /\ \A p \in Unused : o <= p
    /\ heap' = [heap EXCEPT ![o] = IF Cell.tag = "word" THEN Cell.n
                                   ELSE Next1(src[Here.r])]
    /\ reg' = [reg EXCEPT ![Here.r] = Address(o)]
    /\ UNCHANGED <<saved, src>>

RunFree ==
  /\ Running({"free"})
  /\ IF IsLive(Cell)
     THEN /\ Advance
          /\ heap' = [heap EXCEPT ![Cell.n] = Dead]
          /\ UNCHANGED <<reg, saved, src>>
     ELSE Fault

RunTake ==
  /\ Running({"take"})
  /\ IF IsLive(Cell) \/ Cell.tag = "static"
     THEN Advance /\ UNCHANGED <<reg, saved, heap, src>>
     ELSE Fault

\* In a register, or through the address it holds.
RunUpdate ==
  /\ Running({"update", "store"})
  /\ CASE Here.op = "update" /\ Cell = Word(src[Here.r]) ->
            /\ Advance
            /\ reg' = [reg EXCEPT ![Here.r] = Word(Next1(Cell.n))]
            /\ src' = [src EXCEPT ![Here.r] = Next1(@)]
            /\ UNCHANGED <<saved, heap>>
       [] Here.op = "store" /\ IsLive(Cell) /\ heap[Cell.n] = src[Here.r] ->
            /\ Advance
            /\ heap' = [heap EXCEPT ![Cell.n] = Next1(@)]
            /\ src' = [src EXCEPT ![Here.r] = Next1(@)]
            /\ UNCHANGED <<reg, saved>>
       [] Here.op = "store" /\ Cell.tag = "static" ->
            Advance /\ UNCHANGED <<reg, saved, heap, src>>
       [] OTHER -> Fault

RunSave == Running({"save"}) /\ Advance /\ saved' = <<reg>> /\ UNCHANGED <<reg, heap, src>>
RunRestore ==
  /\ Running({"restore"}) /\ Advance
  /\ reg' = saved[1] /\ saved' = <<>>
  /\ UNCHANGED <<heap, src>>

RunJump ==
  /\ Running({"jump", "branch"})
  /\ \/ pc' = Here.to
     \/ Here.op = "branch" /\ pc' = pc + 1
  /\ UNCHANGED <<phase, reg, saved, heap, src>>

RunReturn ==
  /\ Running({"ret"})
  /\ phase' = "returned"
  /\ UNCHANGED runVars
-----------------------------------------------------------------------------
Init ==
  /\ phase = "parse"
  /\ ast = <<[kind |-> "block", name |-> "", how |-> "", depth |-> 0, epoch |-> 0,
              within |-> <<>>]>>
  /\ expect = <<"list">>
  /\ parser = [depth |-> 1, epoch |-> 0, loops |-> 0, noElse |-> 0,
               room |-> MaxWeight]
  /\ within = <<1>>
  /\ at = 1 /\ frames = <<>> /\ scope = 0
  /\ symbols = [i \in DOMAIN Parameters |->
       [name |-> Parameters[i], kind |-> "int", backed |-> 0, owns |-> 0,
        scope |-> 1, epoch |-> 0, source |-> 0, node |-> 0]]
  /\ code = <<>>
  /\ breaks = <<>> /\ loops = <<>>
  /\ breakPatches = <<>> /\ continuePatches = <<>> /\ gotoPatches = <<>>
  /\ labels = [l \in Labels |-> 0]
  /\ pc = 1 /\ saved = <<>>
  /\ reg = [r \in 1..MaxLocals |-> Word(0)]
  /\ heap = [o \in 1..MaxObjects |-> Dead]
  /\ src = [r \in 1..MaxLocals |-> 0]

Parse ==
  \/ \E x \in Names :
       \/ \E kind \in Declarations : ParseDeclaration(kind, x)
       \/ ParseStatic(x)
       \/ \E how \in {"object", "int"} : ParseFor(x, how)
  \/ \E x \in Names \cup ToSet(Parameters), kind \in {"update", "address"},
        how \in {"statement", "argument", "operand"} : ParseExpression(kind, x, how)
  \/ \E kind \in Declarations : ParseForDeclaration(kind)
  \/ ParseFor("", "none") \/ ParseBlock \/ ParseIf \/ ParseSwitch \/ ParseReturn
  \/ \E kind \in {"break", "continue"} : ParseJump(kind)
  \/ \E l \in Labels : ParseLabel(l) \/ ParseGoto(l)
  \/ \E kind \in {"case", "default"} : ParseCase(kind)
  \/ \E kind \in {"while", "do"} : ParseLoop(kind)
  \/ \E kind \in LoopKinds : ParseLoopEnd(kind)
  \/ ParseBlockEnd \/ ParseSwitchEnd \/ ParseElse \/ ParseIfEnd

Emit ==
  \/ CollectLabels \/ EmitBlock \/ EmitBlockEnd
  \/ EmitDeclaration \/ RefuseDeclaration \/ EmitExpression \/ RefuseExpression
  \/ EmitIf \/ EmitElse \/ EmitIfEnd
  \/ EmitWhile \/ EmitWhileEnd \/ EmitDo \/ EmitDoEnd \/ EmitFor \/ EmitForEnd \/ RefuseLoop
  \/ EmitSwitch \/ RefuseSwitch \/ EmitCase \/ EmitSwitchEnd
  \/ EmitBreak \/ EmitContinue \/ RefuseJump
  \/ EmitLabel \/ EmitGoto \/ RefuseGoto \/ EmitReturn \/ EmitFunctionEnd

Run == \/ RunAlloc \/ RunSet \/ RunPromote \/ RunFree \/ RunTake \/ RunUpdate
       \/ RunSave \/ RunRestore \/ RunJump \/ RunReturn

Done == phase \in Finished /\ UNCHANGED vars

Next == Parse \/ Emit \/ Run \/ Done
Spec == Init /\ [][Next]_vars
-----------------------------------------------------------------------------
(* What C says of the finished code, by the nodes the instructions stand for. *)

Emitted == phase = "emit" /\ at > Len(ast)

\* The first instruction that is emitted for node n or a later one.
CodeOf(n) == 1 + Cardinality({i \in DOMAIN code : code[i].node < n})

EndKind == [while |-> "endwhile", do |-> "enddo", for |-> "endfor",
            switch |-> "endswitch", if |-> "endif"]

\* The node that closes construct n; an else closes the if and opens the rest.
EndOf(n) ==
  LET kind == IF ast[n].kind = "else" THEN "if" ELSE ast[n].kind
      Balance(k) == Cardinality({j \in n + 1 .. k : ast[j].kind = EndKind[kind]})
                      - Cardinality({j \in n + 1 .. k : ast[j].kind = kind})
  IN  CHOOSE k \in n + 1 .. Len(ast) :
        Balance(k) = 1 /\ \A j \in n + 1 .. k - 1 : Balance(j) # 1
OpenerOf(e, kind) == CHOOSE n \in 1 .. e - 1 : ast[n].kind = kind /\ EndOf(n) = e

Innermost(n, kinds) ==
  LET path == ast[n].within
  IN  path[CHOOSE k \in DOMAIN path :
             /\ ast[path[k]].kind \in kinds
             /\ \A j \in k + 1 .. Len(path) : ast[path[j]].kind \notin kinds]

Backward(e) == CHOOSE i \in DOMAIN code : code[i].node = e /\ code[i].op = "jump"
ExitOf(n) == IF ast[n].kind = "switch" THEN CodeOf(EndOf(n)) ELSE Backward(EndOf(n)) + 1

\* Where a loop tests again, and where a continue takes it.
TestOf(n) == IF ast[n].kind = "for" /\ ast[n].how # "none" THEN CodeOf(n + 1) - 1 ELSE CodeOf(n)
AgainOf(n) == IF ast[n].kind = "while" THEN CodeOf(n) ELSE CodeOf(EndOf(n))

ElseOf(n) == {k \in n + 1 .. EndOf(n) : ast[k].kind = "else" /\ EndOf(k) = EndOf(n)}
CasesOf(n) == {k \in n .. EndOf(n) : /\ ast[k].kind \in {"case", "default"}
                                     /\ ast[k].within = Append(ast[n].within, n)}

Destination(i) ==
  LET n == code[i].node
      kind == ast[n].kind
      rank == i - CodeOf(n)
      cases == {k \in CasesOf(n) : ast[k].kind = "case"}
  IN  CASE kind = "break" -> ExitOf(Innermost(n, LoopKinds \cup {"switch"}))
        [] kind = "continue" -> AgainOf(Innermost(n, LoopKinds))
        [] kind = "goto" -> CodeOf(CHOOSE k \in LabelNodes(ast[n].name) : TRUE)
        [] kind \in {"while", "for"} -> ExitOf(n)
        [] kind = "endwhile" -> TestOf(OpenerOf(n, "while"))
        [] kind = "endfor" -> TestOf(OpenerOf(n, "for"))
        [] kind = "enddo" -> IF code[i].op = "jump" THEN CodeOf(OpenerOf(n, "do")) ELSE i + 2
        [] kind = "else" -> CodeOf(EndOf(n))
        [] kind = "if" -> CodeOf(IF ElseOf(n) = {} THEN EndOf(n)
                                 ELSE 1 + CHOOSE k \in ElseOf(n) : TRUE)
        [] kind = "switch" ->
             IF code[i].op = "branch"
             THEN CodeOf(CHOOSE k \in cases : Cardinality({j \in cases : j < k}) = rank)
             ELSE IF cases # CasesOf(n) THEN CodeOf(CHOOSE k \in CasesOf(n) : k \notin cases)
             ELSE ExitOf(n)
        [] OTHER -> CodeOf(n + 1)

\* Every jump of the finished code goes where C sends the statement it stands
\* for: patches of nested loops, switches, ifs and labels do not mix
\* (nc_patch_jump_list_from, nc_finish_loop, nc_emit_label).
JumpsLand ==
  Emitted => \A i \in DOMAIN code :
               code[i].op \in {"jump", "branch"} => code[i].to = Destination(i)

\* A name means the declaration that C's scopes make visible, after any
\* shadowing block, loop or case was left (nc_find_symbol, nc_emit_block).
BindsInnermost ==
  (phase = "emit" /\ at <= Len(ast) /\ ast[at].kind \in {"update", "address"}) =>
    LET n == ast[at]
        i == FindSymbol(n.name)
    IN  (IF i = 0 THEN 0 ELSE symbols[i].node) = VisibleAt(at - 1, n.within, n.name)

Instruction == [op : {"alloc", "set", "static", "promote", "take", "update", "store", "free",
                      "save", "restore", "branch", "jump", "ret"},
                r : 0..MaxLocals, to : Nat, node : Nat]
WordOrAddress == [tag : {"word"}, n : 0..Values - 1] \cup [tag : {"object"}, n : 1..MaxObjects]
                   \cup [tag : {"static"}, n : {0}]

\* No table of the generator grows past its capacity, and what the machine
\* holds is a word, an object or the address of a static.
TypeOK ==
  /\ phase \in {"parse", "emit", "run"} \cup Finished
  /\ parser.depth \in 0..MaxScopeDepth /\ parser.epoch \in Nat /\ parser.loops \in Nat
  /\ \A d \in DOMAIN within : within[d] \in DOMAIN ast
  /\ at \in 1 .. Len(ast) + 1 /\ scope \in Nat
  /\ Len(symbols) <= MaxLocals
  /\ Len(breaks) <= MaxBreakDepth /\ Len(loops) <= MaxLoopDepth
  /\ Len(breakPatches) <= MaxLoopPatches /\ Len(continuePatches) <= MaxLoopPatches
  /\ Len(gotoPatches) <= MaxGotoPatches
  /\ phase \in {"emit", "run"} => \A i \in DOMAIN code : code[i] \in Instruction
  /\ labels \in [Labels -> 0..Len(code) + 1]
  /\ pc \in 1 .. Len(code) + 1
  /\ reg \in [1..MaxLocals -> WordOrAddress] /\ Len(saved) <= 1
  /\ heap \in [1..MaxObjects -> 0..Dead]
  /\ src \in [1..MaxLocals -> 0..Values - 1]

\* No run frees or uses what is not there, nor finds another value in a local
\* than the source says (nc_emit_scope_cleanup, nc_promote_scalar_symbol).
NeverFaults == phase # "faulted"

\* Whatever way a function is left, the objects of its locals have been freed.
NothingLeaks == phase = "returned" => \A o \in 1..MaxObjects : heap[o] = Dead
=============================================================================
