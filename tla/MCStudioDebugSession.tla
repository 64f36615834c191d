------------------------ MODULE MCStudioDebugSession ------------------------
(* Two programs: one with a loop below a call, each statement on its line,  *)
(* and one whose recursive function stands on a single line.                *)
EXTENDS StudioDebugSession

CONSTANT Kept          (* given Known, so that TLC computes it only once    *)

Built == INSTANCE NovaImage WITH LocalLast <- 2, TempLast <- 3

LoopingSource == <<
  [params |-> 0, body |-> <<
     Built!Declare(1, Built!Literal(1), 1),
     Built!Assign(1, Built!Calling(2, <<2>>), 2),
     Built!Return(Built!Variable(1), 3)>>],
  [params |-> 1, body |-> <<
     Built!While(<<Built!Declare(2, Built!Literal(0), 5),
                   Built!Assign(2, Built!Variable(1), 5)>>, 4),
     Built!Declare(2, Built!Literal(1), 6),
     Built!Return(Built!Variable(2), 6)>>]>>
RecursiveSource == <<
  [params |-> 0, body |-> <<
     Built!Declare(1, Built!Literal(2), 1),
     Built!Declare(2, Built!Calling(2, <<1>>), 1),
     Built!Return(Built!Variable(1), 1)>>],
  [params |-> 1, body |-> <<
     Built!If(<<Built!Declare(2, Built!Calling(2, <<0>>), 2),
                Built!Assign(1, Built!Variable(2), 2)>>, 2),
     Built!Return(Built!Variable(1), 2)>>]>>

(* Their images: code, source map, lifetimes of locals, functions.          *)
Set(r, v) == [op |-> "movi", reg |-> r, value |-> v, size |-> 6]
Copy(r, s) == [op |-> "mov", reg |-> r, from |-> s, size |-> 3]
Save(r) == [op |-> "push", reg |-> r, size |-> 2]
Take(r) == [op |-> "pop", reg |-> r, size |-> 2]
CallTo(f, a) == [op |-> "call", callee |-> f, target |-> a, size |-> 5]
GoTo(a) == [op |-> "jmp", target |-> a, size |-> 5]
GoIfTo(a) == [op |-> "je", target |-> a, size |-> 5]
Alone(op, size) == [op |-> op, size |-> size]
Statement(f, line, a, b) == [fn |-> f, line |-> line, from |-> a, to |-> b]
Lifetime(f, r, a, b) == [fn |-> f, reg |-> r, from |-> a, to |-> b]
Body(params, a, b) == [params |-> params, from |-> a, to |-> b]
Listed(lines) ==
  [a \in {lines[i][1] : i \in DOMAIN lines} |->
     lines[CHOOSE i \in DOMAIN lines : lines[i][1] = a][2]]

MCLooping ==
  [code |-> Listed(<<
     <<0, CallTo(1, 6)>>, <<5, Alone("halt", 1)>>, <<6, Set(3, 1)>>,
     <<12, Copy(1, 3)>>, <<15, Save(1)>>, <<17, Save(2)>>, <<19, Save(3)>>,
     <<21, Set(3, 2)>>, <<27, Save(3)>>, <<29, Take(1)>>,
     <<31, CallTo(2, 62)>>, <<36, Take(3)>>, <<38, Take(2)>>,
     <<40, Take(1)>>, <<42, Copy(3, 0)>>, <<45, Copy(1, 3)>>,
     <<48, Copy(3, 1)>>, <<51, Copy(0, 3)>>, <<54, Alone("ret", 1)>>,
     <<55, Set(0, 0)>>, <<61, Alone("ret", 1)>>, <<62, Copy(3, 1)>>,
     <<65, Set(4, 0)>>, <<71, Alone("cmp", 3)>>, <<74, GoIfTo(99)>>,
     <<79, Set(3, 0)>>, <<85, Copy(2, 3)>>, <<88, Copy(3, 1)>>,
     <<91, Copy(2, 3)>>, <<94, GoTo(62)>>, <<99, Set(3, 1)>>,
     <<105, Copy(2, 3)>>, <<108, Copy(3, 2)>>, <<111, Copy(0, 3)>>,
     <<114, Alone("ret", 1)>>, <<115, Set(0, 0)>>, <<121, Alone("ret", 1)>>>>),
   size |-> 122,
   rows |-> <<
     Statement(1, 1, 6, 15), Statement(1, 2, 15, 48),
     Statement(1, 3, 48, 55), Statement(2, 4, 62, 99),
     Statement(2, 5, 79, 88), Statement(2, 5, 88, 94),
     Statement(2, 6, 99, 108), Statement(2, 6, 108, 115)>>,
   symbols |-> <<
     Lifetime(1, 1, 6, 55), Lifetime(2, 1, 62, 122), Lifetime(2, 2, 79, 94),
     Lifetime(2, 2, 99, 115)>>,
   functions |-> <<
     Body(0, 6, 62), Body(1, 62, 122)>>]
MCRecursive ==
  [code |-> Listed(<<
     <<0, CallTo(1, 6)>>, <<5, Alone("halt", 1)>>, <<6, Set(3, 2)>>,
     <<12, Copy(1, 3)>>, <<15, Save(1)>>, <<17, Save(2)>>, <<19, Save(3)>>,
     <<21, Set(3, 1)>>, <<27, Save(3)>>, <<29, Take(1)>>,
     <<31, CallTo(2, 62)>>, <<36, Take(3)>>, <<38, Take(2)>>,
     <<40, Take(1)>>, <<42, Copy(3, 0)>>, <<45, Copy(2, 3)>>,
     <<48, Copy(3, 1)>>, <<51, Copy(0, 3)>>, <<54, Alone("ret", 1)>>,
     <<55, Set(0, 0)>>, <<61, Alone("ret", 1)>>, <<62, Copy(3, 1)>>,
     <<65, Set(4, 0)>>, <<71, Alone("cmp", 3)>>, <<74, GoIfTo(118)>>,
     <<79, Save(1)>>, <<81, Save(2)>>, <<83, Save(3)>>, <<85, Set(3, 0)>>,
     <<91, Save(3)>>, <<93, Take(1)>>, <<95, CallTo(2, 62)>>,
     <<100, Take(3)>>, <<102, Take(2)>>, <<104, Take(1)>>,
     <<106, Copy(3, 0)>>, <<109, Copy(2, 3)>>, <<112, Copy(3, 2)>>,
     <<115, Copy(1, 3)>>, <<118, Copy(3, 1)>>, <<121, Copy(0, 3)>>,
     <<124, Alone("ret", 1)>>, <<125, Set(0, 0)>>, <<131, Alone("ret", 1)>>>>),
   size |-> 132,
   rows |-> <<
     Statement(1, 1, 6, 15), Statement(1, 1, 15, 48),
     Statement(1, 1, 48, 55), Statement(2, 2, 62, 118),
     Statement(2, 2, 79, 112), Statement(2, 2, 112, 118),
     Statement(2, 2, 118, 125)>>,
   symbols |-> <<
     Lifetime(1, 1, 6, 55), Lifetime(1, 2, 15, 55), Lifetime(2, 1, 62, 132),
     Lifetime(2, 2, 79, 118)>>,
   functions |-> <<
     Body(0, 6, 62), Body(1, 62, 132)>>]

Compiled == <<MCLooping, MCRecursive>>

(* They are written out because TLC would compile them anew wherever a      *)
(* constant is used.                                                       *)
ASSUME CompiledAssumption ==
  Compiled = <<Built!Image(LoopingSource), Built!Image(RecursiveSource)>>

Both == {MCLooping, MCRecursive}
AddressesOf(image, ops) == {a \in DOMAIN image.code : image.code[a].op \in ops}
RowStarts == UNION {{image.rows[i].from : i \in DOMAIN image.rows} : image \in Both}
Known ==
  [programs |-> Compiled,
   code |-> UNION {DOMAIN image.code : image \in Both},
   targets |-> UNION {{image.code[a].target : a \in AddressesOf(image, {"call", "jmp", "je"})} :
                        image \in Both},
   words |-> {0, 1, 2}       (* values of variables, and return addresses   *)
     \cup UNION {{a + 5 : a \in AddressesOf(image, {"call"})} : image \in Both},
   breaks |-> RowStarts \cup {36},
   images |-> {<<0, image.size>> : image \in Both}]
MCPrograms == Known.programs
MCCode == Known.code
MCTargets == Known.targets
MCWords == Known.words
MCBreakAddresses == Known.breaks
MCImages == Known.images
MCToggleAddresses == {36}
MCToggleLines == {<<2, 5>>, <<2, 2>>}
=============================================================================
