-------------------------- MODULE NovaPreprocessor --------------------------
(***************************************************************************)
(* The preprocessor of NovaC and the order in which the parser reads its    *)
(* output.  A project is scanned first: every .c file, and through #include *)
(* every header it reaches, is read once, in a macro environment of its     *)
(* own.  Two tables shared by the whole project remember what the scan saw, *)
(* one row for each #include (dependencies) and one for each #define and    *)
(* #undef (events); what a header does to its includer is replayed from     *)
(* them.  The second pass reads the same lines again, one file at a time    *)
(* and headers first, and produces the text the parser sees.                *)
(*                                                                          *)
(* A line is the directive it holds, or "text" for anything else.  The text *)
(* of a file is chosen as the scan reads it, so that a behaviour ranges     *)
(* over every project of at most MaxLines lines.                            *)
(***************************************************************************)
EXTENDS Naturals, Sequences, FiniteSets, SequencesExt

CONSTANTS
  Sources, Headers,      \* the file ids of the .c and of the .h files
  Macros, Bodies,        \* macro names; replacements, the numbers #if sees
  None,                  \* no macro, no file, not defined
  MaxDependencies,       \* NOVA_COMPILER_MAX_INCLUDE_DEPENDENCIES
  MaxMacros,             \* NOVA_COMPILER_MAX_MACROS
  MaxConditionalDepth,   \* NOVAC_PP_MAX_CONDITIONAL_DEPTH
  MaxUnits,              \* NOVA_COMPILER_MAX_TRANSLATION_UNITS
  MaxLines               \* bound of the model: lines of a whole project

Units == Sources \cup Headers

ASSUME UnitsAssumption ==
  /\ Units \subseteq Nat
  /\ IsFiniteSet(Units)
  /\ Cardinality(Units) <= MaxUnits
  /\ Sources \cap Headers = {}
ASSUME CapacityAssumption ==
  /\ MaxDependencies \in Nat
  /\ MaxMacros \in Nat
  /\ MaxConditionalDepth \in Nat
  /\ MaxUnits \in Nat
  /\ MaxLines \in Nat
ASSUME NoneAssumption == None \notin Units \cup Macros \cup Bodies

VARIABLES
  source,         \* units[].source: the lines of each file, as far as read
  scanState,      \* 0 not seen, 1 being scanned, 2 scanned
  env,            \* scan_scratch->env: the macros of each file
  conditional,    \* scan_scratch->conditional: the groups open in each file
  dependencies,   \* the include table of the project
  events,         \* the define/undef table of the project
  frames,         \* the calls of nc_pp_scan_file that have not returned
  phase,          \* "scan", "parse", or how the compilation ended
  status,         \* the diagnostic of a compilation that failed
  visibility,     \* include_visibility: the files whose names a file sees
  visits,         \* the calls of nc_parse_..._with_dependencies not returned
  parsed,         \* parsed_units, in the order they were parsed
  output,         \* what the second pass made of each file
  seen            \* history: the text lines the scan passed in active regions

scanVars  == <<source, scanState, env, conditional, dependencies, events, frames, seen>>
parseVars == <<visibility, visits, parsed, output>>
vars == <<scanVars, phase, status, parseVars>>
-----------------------------------------------------------------------------
(* Lines, and the conditional stack that both passes keep.                  *)

Line(kind, arg, body) == [kind |-> kind, arg |-> arg, body |-> body]
Opening == {"if", "ifdef", "ifndef"}
ConditionalKinds == Opening \cup {"else", "endif"}

\* "bad" is a directive of no supported name, with malformed or too long operands
\* or, for #if, with a condition that has no value: every diagnostic that is about
\* the line alone counts as "PREPROCESSOR".  The target None is a path that
\* resolves to no file of the project.
ActiveLines ==
  {Line("include", target, None) : target \in Units \cup {None}}
    \cup {Line("define", name, body) : name \in Macros, body \in Bodies}
    \cup {Line(kind, name, None) : kind \in Opening \cup {"undef"}, name \in Macros}
    \cup {Line(kind, None, None) : kind \in {"else", "endif", "text", "bad"}}

\* In inactive text every directive but the conditional ones is passed over; a
\* "bad" line is an #ifdef with malformed operands or a # without a name.
InactiveLines == {l \in ActiveLines : l.kind \in ConditionalKinds \cup {"text", "bad"}}

Active(stack) == stack = <<>> \/ Last(stack).active

Holds(macros, line) ==
  CASE line.kind = "if"     -> macros[line.arg] \notin {None, 0}
    [] line.kind = "ifdef"  -> macros[line.arg] # None
    [] line.kind = "ifndef" -> macros[line.arg] = None

Refused(stack, line) ==
  \/ line.kind \in Opening /\ Len(stack) >= MaxConditionalDepth
  \/ line.kind \in {"else", "endif"} /\ stack = <<>>
  \/ line.kind = "else" /\ Last(stack).sawElse

Opened(macros, stack, line) ==
  LET taken == Active(stack) /\ Holds(macros, line)
  IN  Append(stack, [parentActive |-> Active(stack), active |-> taken,
                     branchTaken |-> taken, sawElse |-> FALSE])

Flipped(stack) ==
  LET top == Last(stack)
  IN  Append(Front(stack),
             [top EXCEPT !.active = top.parentActive /\ ~top.branchTaken,
                         !.branchTaken = TRUE, !.sawElse = TRUE])

AfterConditional(macros, stack, line) ==
  CASE line.kind \in Opening -> Opened(macros, stack, line)
    [] line.kind = "else"    -> Flipped(stack)
    [] line.kind = "endif"   -> Front(stack)
-----------------------------------------------------------------------------
(* Macro environments, and the replay of what a file did to its own.        *)

Envs == [Macros -> Bodies \cup {None}]
NoMacros == [name \in Macros |-> None]
Defined(macros) == {name \in Macros : macros[name] # None}

Conflicts(macros, name, body) == macros[name] \notin {None, body}
EnvFull(macros, name) ==
  macros[name] = None /\ Cardinality(Defined(macros)) >= MaxMacros

\* An event with the body None is an #undef.
Event(unit, line, name, body) ==
  [unit |-> unit, line |-> line, name |-> name, body |-> body]

Statuses == {"OK", "PREPROCESSOR", "INCLUDE_NOT_FOUND", "INCLUDE_CYCLE",
             "INCLUDE_CAPACITY", "MACRO_CAPACITY", "CONFLICTING_DECLARATION", "TEXT"}

\* An environment while it is replayed into, and what stopped the replay.
Results == [macros : Envs, status : Statuses]

\* mutant: the replay forgets #undef
ApplyDefines(result, event) ==
  IF event.body = None THEN result
  ELSE [result EXCEPT !.macros[event.name] = event.body]

ApplyEvent(result, event) ==
  CASE event.body # None /\ Conflicts(result.macros, event.name, event.body) ->
         [result EXCEPT !.status = "CONFLICTING_DECLARATION"]
    [] event.body # None /\ ~Conflicts(result.macros, event.name, event.body)
         /\ EnvFull(result.macros, event.name) ->
         [result EXCEPT !.status = "MACRO_CAPACITY"]
    [] OTHER -> [result EXCEPT !.macros[event.name] = event.body]

RowsOf(rows, unit) == {i \in DOMAIN rows : rows[i].unit = unit}
RowsAt(rows, unit, line) == {i \in RowsOf(rows, unit) : rows[i].line = line}

\* What a line of a file does to an environment, if it does anything: it includes
\* a file, whose effects are replay[file], or else it is a define or undef event.
ReplayLine(includes, defines, replay, unit, line, result) ==
  LET included == RowsAt(includes, unit, line)
      event    == RowsAt(defines, unit, line)
  IN  IF result.status # "OK" THEN result
      ELSE IF included # {}
           THEN replay[includes[CHOOSE i \in included : TRUE].target][result]
           ELSE IF event # {}
                THEN ApplyEvent(result, defines[CHOOSE i \in event : TRUE])
                ELSE result

\* The lines of a file in their order; no row and no event lies behind the last.
ReplayFile(includes, defines, length, replay, unit, result) ==
  LET Upto[l \in 0..length[unit]] ==
        IF l = 0 THEN result
        ELSE ReplayLine(includes, defines, replay, unit, l, Upto[l - 1])
  IN  Upto[length[unit]]

\* nc_pp_import_file_effects, by the number of nested calls it may still make.
Replays(includes, defines, length) ==
  LET Replay[left \in 0..(MaxUnits + 1)] ==
        IF left = 0
        THEN [u \in Units |-> [r \in Results |-> [r EXCEPT !.status = "INCLUDE_CYCLE"]]]
        ELSE [u \in Units |-> [r \in Results |->
               ReplayFile(includes, defines, length, Replay[left - 1], u, r)]]
  IN  Replay

Lengths == [u \in Units |-> Len(source[u])]
Effects(includes, defines) == Replays(includes, defines, Lengths)[MaxUnits + 1]
Unimpeded(macros) == [macros |-> macros, status |-> "OK"]
Import(includes, defines, unit, macros) ==
  Effects(includes, defines)[unit][Unimpeded(macros)]
-----------------------------------------------------------------------------
Init ==
  /\ source = [u \in Units |-> <<>>]
  /\ scanState = [u \in Units |-> 0]
  /\ env = [u \in Units |-> NoMacros]
  /\ conditional = [u \in Units |-> <<>>]
  /\ dependencies = <<>>
  /\ events = <<>>
  /\ frames = <<>>
  /\ phase = "scan"
  /\ status = "OK"
  /\ visibility = [u \in Units |-> {}]
  /\ visits = <<>>
  /\ parsed = <<>>
  /\ output = [u \in Units |-> <<>>]
  /\ seen = [u \in Units |-> <<>>]

Fail(reason) ==
  /\ phase' = "failed"
  /\ status' = reason
  /\ UNCHANGED <<scanVars, parseVars>>

Frame(unit) == [unit |-> unit, include |-> None]
Top == Last(frames)
Stack == conditional[Top.unit]

\* The source file whose turn it is: the least id not scanned yet.
ScanSource(u) ==
  /\ phase = "scan" /\ frames = <<>>
  /\ u \in Sources /\ scanState[u] = 0
  /\ \A v \in Sources : v < u => scanState[v] # 0
  /\ scanState' = [scanState EXCEPT ![u] = 1]
  /\ env' = [env EXCEPT ![u] = NoMacros]
  /\ frames' = <<Frame(u)>>
  /\ UNCHANGED <<conditional, source, dependencies, events, seen, phase, status, parseVars>>

Reading == phase = "scan" /\ frames # <<>> /\ Top.include = None
TextRead == FoldSet(LAMBDA u, n : n + Len(source[u]), 0, Units)

\* The scan of the file on top reads one more line of it.
Reads(line) == source' = [source EXCEPT ![Top.unit] = Append(@, line)]

Here == Len(source[Top.unit]) + 1

ScanConditional(line) ==
  /\ line.kind \in ConditionalKinds
  /\ ~Refused(Stack, line)
  /\ Reads(line)
  /\ conditional' = [conditional EXCEPT ![Top.unit] =
                       AfterConditional(env[Top.unit], @, line)]
  /\ UNCHANGED <<scanState, env, dependencies, events, frames, seen, phase, status, parseVars>>

ScanText(line) ==
  /\ line.kind = "text"
  /\ Reads(line)
  /\ seen' = IF Active(Stack)
             THEN [seen EXCEPT ![Top.unit] =
                     Append(@, [line |-> Here, macros |-> env[Top.unit]])]
             ELSE seen
  /\ UNCHANGED <<conditional, scanState, env, dependencies, events, frames, phase, status, parseVars>>

\* The room for the row is asked for here, before the header is scanned.
Includable(target) ==
  /\ target \in Headers
  /\ Len(dependencies) < MaxDependencies
  /\ scanState[target] # 1

ScanInclude(line) ==
  /\ line.kind = "include"
  /\ Includable(line.arg)
  /\ Reads(line)
  /\ LET waiting == [frames EXCEPT ![Len(frames)].include = line.arg]
     IN  \/ /\ scanState[line.arg] = 0
            /\ scanState' = [scanState EXCEPT ![line.arg] = 1]
            /\ env' = [env EXCEPT ![line.arg] = NoMacros]
            /\ frames' = Append(waiting, Frame(line.arg))
         \/ /\ scanState[line.arg] # 0
            /\ frames' = waiting
            /\ UNCHANGED <<scanState, env>>
  /\ UNCHANGED <<conditional, dependencies, events, seen, phase, status, parseVars>>

\* The header of an #include is scanned: its row is stored, with no second
\* look at the table, and its effects are imported.
Returned == phase = "scan" /\ frames # <<>> /\ Top.include # None
Row == [unit |-> Top.unit, target |-> Top.include, line |-> Len(source[Top.unit])]

StoreDependency ==
  /\ Returned
  /\ Len(dependencies) < MaxDependencies
  /\ LET longer == Append(dependencies, Row)
         imported == Import(longer, events, Top.include, env[Top.unit])
     IN  \/ /\ imported.status = "OK"
            /\ dependencies' = longer
            /\ env' = [env EXCEPT ![Top.unit] = imported.macros]
            /\ frames' = [frames EXCEPT ![Len(frames)].include = None]
            /\ UNCHANGED <<conditional, source, scanState, events, seen, phase, status, parseVars>>
         \/ /\ imported.status # "OK"
            /\ Fail(imported.status)

\* A row stored behind the table: what memory it lands in is the compiler's
\* choice, and the model says nothing of the compilation from there on.
StoreBehindTable ==
  /\ Returned
  /\ Len(dependencies) >= MaxDependencies
  /\ phase' = "overrun"
  /\ UNCHANGED <<scanVars, status, parseVars>>

EventsFitOffByOne == Len(events) <= MaxMacros    \* mutant: capacity off by one
EventsFit == Len(events) < MaxMacros

ScanDefine(line) ==
  /\ line.kind = "define"
  /\ ~Conflicts(env[Top.unit], line.arg, line.body)
  /\ ~EnvFull(env[Top.unit], line.arg)
  /\ EventsFit
  /\ Reads(line)
  /\ env' = [env EXCEPT ![Top.unit][line.arg] = line.body]
  /\ events' = Append(events, Event(Top.unit, Here, line.arg, line.body))
  /\ UNCHANGED <<conditional, scanState, dependencies, frames, seen, phase, status, parseVars>>

ScanUndef(line) ==
  /\ line.kind = "undef"
  /\ EventsFit
  /\ Reads(line)
  /\ env' = [env EXCEPT ![Top.unit][line.arg] = None]
  /\ events' = Append(events, Event(Top.unit, Here, line.arg, None))
  /\ UNCHANGED <<conditional, scanState, dependencies, frames, seen, phase, status, parseVars>>

\* What ends a compilation at a line, in the order the code looks for it.
Error(line) ==
  CASE line.kind \in ConditionalKinds -> IF Refused(Stack, line) THEN "PREPROCESSOR" ELSE "OK"
    [] line.kind = "include" ->
         CASE line.arg = None -> "INCLUDE_NOT_FOUND"
           [] line.arg \in Sources -> "PREPROCESSOR"
           [] line.arg \in Headers /\ Len(dependencies) >= MaxDependencies -> "INCLUDE_CAPACITY"
           [] line.arg \in Headers /\ Len(dependencies) < MaxDependencies
                /\ scanState[line.arg] = 1 -> "INCLUDE_CYCLE"
           [] OTHER -> "OK"
    [] line.kind = "define" ->
         CASE Conflicts(env[Top.unit], line.arg, line.body) -> "CONFLICTING_DECLARATION"
           [] EnvFull(env[Top.unit], line.arg) \/ ~EventsFit -> "MACRO_CAPACITY"
           [] OTHER -> "OK"
    [] line.kind = "undef" -> IF ~EventsFit THEN "MACRO_CAPACITY" ELSE "OK"
    [] line.kind = "bad" -> "PREPROCESSOR"
    [] line.kind = "text" -> "OK"

ScanError(line) ==
  /\ Error(line) # "OK"
  /\ Fail(Error(line))

ScanLine(line) ==
  \/ ScanConditional(line)
  \/ ScanText(line)
  \/ ScanInclude(line)
  \/ ScanDefine(line)
  \/ ScanUndef(line)
  \/ ScanError(line)

NextLines == IF Active(Stack) THEN ActiveLines ELSE InactiveLines

ReadLine ==
  /\ Reading
  /\ TextRead < MaxLines
  /\ \E line \in NextLines : ScanLine(line)

EndOfFile ==
  /\ Reading
  /\ Stack = <<>>
  /\ scanState' = [scanState EXCEPT ![Top.unit] = 2]
  /\ frames' = Front(frames)
  /\ UNCHANGED <<conditional, source, env, dependencies, events, seen, phase, status, parseVars>>

Unterminated ==
  /\ Reading
  /\ Stack # <<>>
  /\ Fail("PREPROCESSOR")
-----------------------------------------------------------------------------
(* The files a file sees, and the second pass.                              *)

\* One pass over the include table, in its order.
SpreadDirect(sees, row) == [sees EXCEPT ![row.unit] = @ \cup {row.target}]    \* mutant
Spread(sees, row) ==
  [sees EXCEPT ![row.unit] = @ \cup sees[row.target] \cup {row.target}]

SpreadAll(sees, rows) ==
  LET After[n \in 0..Len(rows)] ==
        IF n = 0 THEN sees ELSE Spread(After[n - 1], rows[n])
  IN  After[Len(rows)]

Visibility(rows) ==
  LET After[n \in 0..Cardinality(Units)] ==
        IF n = 0 THEN [u \in Units |-> {u}] ELSE SpreadAll(After[n - 1], rows)
  IN  After[Cardinality(Units)]

ScanDone ==
  /\ phase = "scan" /\ frames = <<>>
  /\ \A u \in Sources : scanState[u] = 2
  /\ phase' = "parse"
  /\ visibility' = Visibility(dependencies)
  /\ UNCHANGED <<scanVars, status, visits, parsed, output>>

\* The state of nc_pp_make_source after one more line of the file.
MakeLine(effects, made, line) ==
  LET now == [made EXCEPT !.line = @ + 1]
      effect == effects[line.arg][Unimpeded(made.macros)]
  IN  CASE made.status # "OK" -> made
        [] made.status = "OK" /\ line.kind \in ConditionalKinds ->
             IF Refused(made.stack, line)
             THEN [now EXCEPT !.status = "PREPROCESSOR"]
             ELSE [now EXCEPT !.stack = AfterConditional(made.macros, made.stack, line)]
        [] made.status = "OK" /\ line.kind \notin ConditionalKinds /\ ~Active(made.stack) -> now
        [] OTHER ->
             CASE line.kind = "include" ->
                    [now EXCEPT !.macros = effect.macros, !.status = effect.status]
               [] line.kind = "define" ->
                    [now EXCEPT !.macros[line.arg] = line.body,
                                !.status = IF Conflicts(made.macros, line.arg, line.body)
                                           THEN "CONFLICTING_DECLARATION"
                                           ELSE IF EnvFull(made.macros, line.arg)
                                                THEN "MACRO_CAPACITY" ELSE "OK"]
               [] line.kind = "undef" -> [now EXCEPT !.macros[line.arg] = None]
               [] line.kind = "text" ->
                    [now EXCEPT !.text = Append(@, [line |-> now.line, macros |-> made.macros])]
               [] line.kind = "bad" -> [now EXCEPT !.status = "PREPROCESSOR"]

Unmade(macros) ==
  [macros |-> macros, stack |-> <<>>, line |-> 0, text |-> <<>>, status |-> "OK"]

MakeLines(effects, lines, macros) ==
  LET Made[n \in 0..Len(lines)] ==
        IF n = 0 THEN Unmade(macros) ELSE MakeLine(effects, Made[n - 1], lines[n])
  IN  Made[Len(lines)]

\* mutant: the second pass starts with the macros the first one ended with
MakeSourceStale(u) == MakeLines(Effects(dependencies, events), source[u], env[u])
MakeSource(u) == MakeLines(Effects(dependencies, events), source[u], NoMacros)

WasParsed(u) == \E i \in DOMAIN parsed : parsed[i] = u
Visit(u) == [unit |-> u, row |-> 1]
Visited == Last(visits)
RowsAfter == {i \in RowsOf(dependencies, Visited.unit) : i > Visited.row}    \* mutant
RowsLeft == {i \in RowsOf(dependencies, Visited.unit) : i >= Visited.row}
FirstRow == CHOOSE i \in RowsLeft : \A j \in RowsLeft : i <= j

ParseSource(u) ==
  /\ phase = "parse" /\ visits = <<>>
  /\ u \in Sources /\ ~WasParsed(u)
  /\ \A v \in Sources : v < u => WasParsed(v)
  /\ visits' = <<Visit(u)>>
  /\ UNCHANGED <<scanVars, phase, status, visibility, parsed, output>>

ParseDependency ==
  /\ phase = "parse" /\ visits # <<>> /\ RowsLeft # {}
  /\ LET target == dependencies[FirstRow].target
         onward == [visits EXCEPT ![Len(visits)].row = FirstRow + 1]
     IN  visits' = IF WasParsed(target) THEN onward ELSE Append(onward, Visit(target))
  /\ UNCHANGED <<scanVars, phase, status, visibility, parsed, output>>

\* Every include of the file has been parsed: the file is made and parsed.  The
\* expansion of its text and the parser, of which nothing is modelled, may
\* refuse it as well: "TEXT".
ParseUnit ==
  /\ phase = "parse" /\ visits # <<>> /\ RowsLeft = {}
  /\ LET made == MakeSource(Visited.unit)
     IN  /\ output' = [output EXCEPT ![Visited.unit] = made.text]
         /\ status' \in {IF made.status = "OK" /\ made.stack # <<>>
                           THEN "PREPROCESSOR" ELSE made.status, "TEXT"}
  /\ parsed' = IF status' = "OK" THEN Append(parsed, Visited.unit) ELSE parsed
  /\ phase' = IF status' = "OK" THEN "parse" ELSE "failed"
  /\ visits' = Front(visits)
  /\ UNCHANGED <<scanVars, visibility>>

ParseDone ==
  /\ phase = "parse" /\ visits = <<>>
  /\ \A u \in Sources : WasParsed(u)
  /\ phase' = "done"
  /\ UNCHANGED <<scanVars, status, parseVars>>

\* The call has returned to its caller, or left what the model describes.
Ended == phase \in {"done", "failed", "overrun"} /\ UNCHANGED vars

Next ==
  \/ \E u \in Sources : ScanSource(u) \/ ParseSource(u)
  \/ ReadLine
  \/ StoreDependency
  \/ StoreBehindTable
  \/ EndOfFile
  \/ Unterminated
  \/ ScanDone
  \/ ParseDependency
  \/ ParseUnit
  \/ ParseDone
  \/ Ended

Spec == Init /\ [][Next]_vars
-----------------------------------------------------------------------------
Phases == {"scan", "parse", "done", "failed", "overrun"}
Rows == [unit : Units, target : Units, line : Nat \ {0}]
Events == [unit : Units, line : Nat \ {0}, name : Macros, body : Bodies \cup {None}]
Conditionals == [parentActive : BOOLEAN, active : BOOLEAN,
                 branchTaken : BOOLEAN, sawElse : BOOLEAN]

\* Every table of the compile workspace stays within its array, and every
\* entry names a file of the project and a line of a text.
TypeOK ==
  /\ source \in [Units -> Seq(ActiveLines)]
  /\ scanState \in [Units -> 0..2]
  /\ env \in [Units -> Envs]
  /\ \A u \in Units : Cardinality(Defined(env[u])) <= MaxMacros
  /\ dependencies \in Seq(Rows) /\ Len(dependencies) <= MaxDependencies
  /\ events \in Seq(Events) /\ Len(events) <= MaxMacros
  /\ conditional \in [Units -> Seq(Conditionals)]
  /\ \A u \in Units : Len(conditional[u]) <= MaxConditionalDepth
  /\ frames \in Seq([unit : Units, include : Headers \cup {None}])
  /\ phase \in Phases /\ status \in Statuses
  /\ visibility \in [Units -> SUBSET Units]
  /\ visits \in Seq([unit : Units, row : Nat \ {0}])
  /\ parsed \in Seq(Units)

\* The include table is in post-order: when a row stands in it, its target is
\* scanned to the end, and every row of the target stands before it.  The
\* table then has no cycle, which is what lets the replay of a header and the
\* parser follow it without a check of their own that they come back.
DependencyOrder ==
  \A i \in DOMAIN dependencies :
    /\ scanState[dependencies[i].target] = 2
    /\ \A j \in RowsOf(dependencies, dependencies[i].target) : j < i

SecondPass == \E u \in Units : visibility[u] # {}

\* A project the scan accepts is never refused by the second pass for one of
\* its directives, and the second pass keeps exactly the lines the scan passed
\* in active regions, each with the macros the scan had there, of every file
\* the scan reached: although it starts from nothing and sees a header only
\* through the two tables.
PassesAgree ==
  /\ SecondPass => status \in {"OK", "TEXT"}
  /\ \A i \in DOMAIN parsed : output[parsed[i]] = seen[parsed[i]]
  /\ phase = "done" => \A u \in Units : scanState[u] = 2 => WasParsed(u)

\* What a file does to its includer, replayed from the two tables, is what the
\* scan of the file itself arrived at, conditionals and nested includes and all:
\* a header of an accepted project means the same wherever it is included.
ReplayIsExact ==
  phase = "done" =>
    \A u \in Units : scanState[u] = 2 =>
      Import(dependencies, events, u, NoMacros) = Unimpeded(env[u])

\* A set of files that holds whatever a file in it includes.
IncludesWithin(files) ==
  \A i \in DOMAIN dependencies :
    dependencies[i].unit \in files => dependencies[i].target \in files

\* A file sees the names of the files it includes, of those they include and
\* so on, and of no others: the passes nc_compute_include_visibility makes over
\* the table reach the least set that holds the file and all its files include.
VisibilityIsClosure ==
  phase \in {"parse", "done"} =>
    \A u \in Units :
      /\ u \in visibility[u] /\ IncludesWithin(visibility[u])
      /\ \A files \in SUBSET Units :
           u \in files /\ IncludesWithin(files) => visibility[u] \subseteq files

\* The parser meets no file twice, and every file after all that it includes:
\* a declaration in a header stands before its use.  It follows the table down
\* and marks a file only on the way back, so this rests on DependencyOrder.
HeadersFirst ==
  /\ \A i, j \in DOMAIN parsed : parsed[i] = parsed[j] => i = j
  /\ \A i \in DOMAIN parsed : \A r \in RowsOf(dependencies, parsed[i]) :
       \E j \in 1..(i - 1) : parsed[j] = dependencies[r].target

\* A full table is reported and never written behind (ARCHITECTURE.md: "The
\* implementation uses fixed-capacity tables for deterministic failure modes").
\* nc_pp_scan_file asks for room before it scans the header and stores after.
IncludesFit == phase # "overrun"
=============================================================================
