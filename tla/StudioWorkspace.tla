--------------------------- MODULE StudioWorkspace ---------------------------
(***************************************************************************)
(* The workspace of Nova Studio: project files in memory, the source files  *)
(* and the manifest on disk, and the flags that say what is unsaved         *)
(* (studio/MainWindow.xaml.cs, Services/NovaWorkspaceService.cs,            *)
(* Models/ProjectSourceFile.cs).                                            *)
(*                                                                         *)
(* Each action is one event handler with the dialogs it shows.  A handler   *)
(* has a set of outcomes, one for every answer of the user and, up to       *)
(* MaxFaults, for every write that throws; a write that throws changes      *)
(* nothing.  The editor's text is the text of the active file, which every  *)
(* keystroke updates.  A manifest is the sequence of paths it lists; graph  *)
(* positions only matter for the flag they set.                            *)
(***************************************************************************)
EXTENDS Naturals, Sequences, FiniteSets, SequencesExt

CONSTANTS
  Names,               (* normalised project paths                          *)
  Sources,             (* those ending in .c; the rest are headers          *)
  Dirs,                (* directories the user picks for a workspace        *)
  Texts,               (* texts of a file; NewText is that of a new one     *)
  NewText,
  DefaultFiles,        (* paths of the default project                      *)
  MaxFiles,            (* NovaWorkspaceService.MaxFiles                     *)
  UnsavedOps,          (* those of "remove" and "rename" that the user also *)
                       (* invokes before the workspace has a directory      *)
  CleanTargets,        (* the user creates workspaces in empty directories  *)
  MaxFaults            (* bound: writes that throw                          *)

Absent == "absent"     (* no such file                                      *)
None == "none"         (* no directory                                      *)

ASSUME WorkspaceAssumption ==
  /\ Sources \subseteq Names /\ NewText \in Texts
  /\ DefaultFiles \in Seq(Names) /\ IsInjective(DefaultFiles)
  /\ Len(DefaultFiles) <= MaxFiles /\ ToSet(DefaultFiles) \cap Sources # {}
  /\ UnsavedOps \subseteq {"remove", "rename"}
  /\ CleanTargets \in BOOLEAN /\ MaxFaults \in Nat /\ MaxFiles \in Nat
  /\ Absent \notin Texts /\ None \notin Dirs

VARIABLES
  studio,              (* the main window's fields, see Fresh               *)
  disk,                (* per directory: path -> text, and the manifest     *)
  ended,               (* how the last handler ended: "ok", "error" shown   *)
                       (* to the user, "crash" for an exception nobody      *)
                       (* caught                                            *)
  answer,              (* history: what the user agreed to lose, if any     *)
  faults               (* writes that may still throw                       *)

vars == <<studio, disk, ended, answer, faults>>

NoManifest == <<>>     (* a manifest lists at least one file                *)

File(name, text) == [name |-> name, text |-> text, saved |-> text]

(* A started Studio.  active and selected are positions in files (FileId is *)
(* the position), 0 for none; a removed file that is still in the editor is *)
(* kept in loose, with the FileId it had.                                  *)
Fresh ==
  [root |-> None, manifestDirty |-> TRUE,
   files |-> [i \in DOMAIN DefaultFiles |-> File(DefaultFiles[i], NewText)],
   active |-> 1, selected |-> 1, loose |-> <<>>]

EmptyDir == [text |-> [n \in Names |-> Absent], manifest |-> NoManifest]

Paths(s) == [i \in DOMAIN s.files |-> s.files[i].name]
Dirty(f) == f.text # f.saved
Unsaved(s) == s.manifestDirty \/ \E i \in DOMAIN s.files : Dirty(s.files[i])
SourceCount(s) == Cardinality({i \in DOMAIN s.files : s.files[i].name \in Sources})

(* Mutant: the last translation unit is not the last one.                   *)
LastSourceOffByOne(s, name) == name \in Sources /\ SourceCount(s) < 1
LastSource(s, name) == name \in Sources /\ SourceCount(s) <= 1

Outcome(s, d, how) == [studio |-> s, disk |-> d, how |-> how, cost |-> 0]
Fault(s, d, how) ==
  IF faults > 0 THEN {[Outcome(s, d, how) EXCEPT !.cost = 1]} ELSE {}
Thrown(s, d) == Fault(s, d, "error")

-----------------------------------------------------------------------------
(* The disk *)

Written(d, dir, name, text) == [d EXCEPT ![dir].text[name] = text]
Exists(d, dir, name) == d[dir].text[name] # Absent
WithManifest(d, dir, paths) == [d EXCEPT ![dir].manifest = paths]

(* The first k files of a list, which have different names, are written.    *)
WrittenUpTo(d, dir, files, k) ==
  LET Position(name) == CHOOSE i \in 1..k : files[i].name = name
      text == [name \in Names |->
                 IF \E i \in 1..k : files[i].name = name THEN files[Position(name)].text
                 ELSE d[dir].text[name]]
  IN  [d EXCEPT ![dir].text = text]

-----------------------------------------------------------------------------
(* The window *)

(* OpenProjectFile returns early when the FileId is the active one's.       *)
FileIdOf(s) == IF s.loose # <<>> THEN s.loose[1].fileId ELSE s.active
Opened(s, i) ==
  IF FileIdOf(s) = i THEN [s EXCEPT !.selected = i]
  ELSE [s EXCEPT !.active = i, !.selected = i, !.loose = <<>>]

(* ApplyLoadedWorkspace *)
Applied(dir, files) ==
  [root |-> dir, manifestDirty |-> FALSE, files |-> files,
   active |-> 1, selected |-> 1, loose |-> <<>>]

(* NovaWorkspaceService.Create writes file by file, refuses the first that  *)
(* exists, then writes the manifest; how says who catches an exception.     *)
(* Mutant: the window shows the new project before its files are written.   *)
CreateShownFirst(s, d, dir, files, how) ==
  LET taken == {i \in DOMAIN files : Exists(d, dir, files[i].name)}
      reach == IF taken # {} THEN Min(taken) - 1 ELSE Len(files)
      paths == [i \in DOMAIN files |-> files[i].name]
      fresh == [i \in DOMAIN files |-> File(files[i].name, files[i].text)]
      all == WrittenUpTo(d, dir, files, reach)
  IN  (UNION {Fault(Applied(dir, fresh), WrittenUpTo(d, dir, files, k), how) : k \in 0..reach})
      \cup {IF taken # {} THEN Outcome(s, all, how)
            ELSE Outcome(Applied(dir, fresh), WithManifest(all, dir, paths), "ok")}

Create(s, d, dir, files, how) ==
  LET taken == {i \in DOMAIN files : Exists(d, dir, files[i].name)}
      reach == IF taken # {} THEN Min(taken) - 1 ELSE Len(files)
      paths == [i \in DOMAIN files |-> files[i].name]
      fresh == [i \in DOMAIN files |-> File(files[i].name, files[i].text)]
      all == WrittenUpTo(d, dir, files, reach)
  IN  (UNION {Fault(s, WrittenUpTo(d, dir, files, k), how) : k \in 0..reach})
      \cup {IF taken # {} THEN Outcome(s, all, how)
            ELSE Outcome(Applied(dir, fresh), WithManifest(all, dir, paths), "ok")}

Targets(d) == {dir \in Dirs : CleanTargets => d[dir] = EmptyDir}

(* A handler's rest runs after a step that went well.                       *)
Then(outcomes, Rest(_)) ==
  UNION {IF o.how = "ok" THEN Rest(o) ELSE {o} : o \in outcomes}

(* EnsureWorkspaceOnDisk; its callers call it outside their try blocks.  It *)
(* writes the manifest a second time, with the graph.                      *)
Ensure(s, d) ==
  IF s.root # None THEN {Outcome(s, d, "ok")}
  ELSE {Outcome(s, d, "cancelled")}
       \cup UNION {Then(Create(s, d, dir, s.files, "crash"), LAMBDA o :
                     {o} \cup Fault(s, o.disk, "crash")) :
                   dir \in Targets(d)}

(* SaveFile for the file at position i of a saved workspace.                *)
(* Mutant: every file is marked.                                            *)
AllSaved(s, i) ==
  [s EXCEPT !.files = [j \in DOMAIN s.files |-> [s.files[j] EXCEPT !.saved = s.files[j].text]]]
FileSaved(s, i) == [s EXCEPT !.files[i].saved = s.files[i].text]

(* SaveManifest with the paths of the files, clearing the dirty flag.       *)
(* Mutant: the flag is cleared first.                                       *)
PersistFlagFirst(s, d) ==
  Thrown([s EXCEPT !.manifestDirty = FALSE], d) \cup
  {Outcome([s EXCEPT !.manifestDirty = FALSE],
           WithManifest(d, s.root, Paths(s)), "ok")}
Persist(s, d) ==
  Thrown(s, d) \cup
  {Outcome([s EXCEPT !.manifestDirty = FALSE],
           WithManifest(d, s.root, Paths(s)), "ok")}

-----------------------------------------------------------------------------
(* The handlers, as sets of outcomes *)

SaveActive(s, d) ==
  Then(Ensure(s, d), LAMBDA o :
    LET t == o.studio
        f == IF t.loose # <<>> THEN t.loose[1].file ELSE t.files[t.active]
        e == Written(o.disk, t.root, f.name, f.text)
        u == IF t.loose # <<>> THEN [t EXCEPT !.loose[1].file.saved = f.text]
             ELSE FileSaved(t, t.active)
    IN  Thrown(t, o.disk) \cup Persist(u, e))

SaveAll(s, d) ==
  Then(Ensure(s, d), LAMBDA o :
    LET t == o.studio
        Some(k) == [t EXCEPT !.files = [i \in DOMAIN t.files |->
                      IF i <= k THEN File(t.files[i].name, t.files[i].text)
                      ELSE t.files[i]]]
        n == Len(t.files)
    IN  (UNION {Thrown(Some(k), WrittenUpTo(o.disk, t.root, t.files, k)) : k \in 0..n})
        \cup Persist(Some(n), WrittenUpTo(o.disk, t.root, t.files, n)))

(* A new file is given a default text, an existing one is read.             *)
AddFile(s, d, name) ==
  Then(Ensure(s, d), LAMBDA o :
    LET t == o.studio
        there == Exists(o.disk, t.root, name)
        text == IF there THEN o.disk[t.root].text[name] ELSE NewText
        e == IF there THEN o.disk ELSE Written(o.disk, t.root, name, text)
        u == [t EXCEPT !.files = Append(@, File(name, text)), !.manifestDirty = TRUE]
    IN  IF Len(t.files) >= MaxFiles \/ name \in ToSet(Paths(t))
        THEN {Outcome(t, o.disk, "error")}
        ELSE Thrown(t, o.disk)
             \cup Then(Persist(u, e), LAMBDA p :
                    {Outcome(Opened(p.studio, Len(u.files)), p.disk, "ok")}))

(* RenameFile and RemoveFile act on the file object that was selected when  *)
(* the handler began.  When Ensure replaces the file objects, this one is   *)
(* no longer in the list: held says whether it still is.                   *)
RenameFile(s, d, name) ==
  Then(Ensure(s, d), LAMBDA o :
    LET t == o.studio
        i == s.selected
        held == s.root # None
        file == s.files[i]
        e == IF Dirty(file) THEN Written(o.disk, t.root, file.name, file.text)
             ELSE o.disk
        u == IF held THEN FileSaved(t, i) ELSE t
        moved == [e EXCEPT ![t.root].text =
                    [@ EXCEPT ![name] = e[t.root].text[file.name],
                              ![file.name] = Absent]]
        v == [u EXCEPT !.manifestDirty = TRUE,
                       !.files = IF held THEN [@ EXCEPT ![i].name = name] ELSE @]
    IN  IF name = file.name THEN {Outcome(t, o.disk, "cancelled")}
        ELSE IF LastSource(t, file.name) /\ name \notin Sources
             THEN {Outcome(t, o.disk, "error")}
        ELSE Thrown(t, o.disk)
             \cup (IF \/ name \in ToSet(Paths(t)) \/ Exists(e, t.root, name)
                      \/ ~Exists(e, t.root, file.name)
                   THEN {Outcome(u, e, "error")}
                   ELSE Thrown(u, e) \cup Persist(v, moved)))

(* The file leaves the list; if it is in the editor it stays there until    *)
(* the next one is opened.                                                 *)
Unlisted(s, i) ==
  [s EXCEPT !.files = RemoveAt(@, i), !.manifestDirty = TRUE, !.selected = 0,
            !.active = IF @ = i THEN 0 ELSE IF @ > i THEN @ - 1 ELSE @,
            !.loose = IF s.active = i THEN <<[file |-> s.files[i], fileId |-> i]>>
                      ELSE @]
(* Mutant: the index is not clamped.                                        *)
NextUnclamped(s, i) == [s EXCEPT !.active = i, !.selected = i, !.loose = <<>>]
NextOpened(s, i) ==
  LET k == IF i > Len(s.files) THEN Len(s.files) ELSE i
  IN  [s EXCEPT !.active = k, !.selected = k, !.loose = <<>>]

RemoveFile(s, d, delete) ==
  Then(Ensure(s, d), LAMBDA o :
    LET t == o.studio
        i == s.selected
        held == s.root # None
        name == s.files[i].name
        u == IF held THEN Unlisted(t, i) ELSE [t EXCEPT !.manifestDirty = TRUE]
    IN  IF Len(t.files) <= 1 \/ LastSource(t, name) THEN {Outcome(t, o.disk, "error")}
        ELSE Then(Persist(u, o.disk), LAMBDA p :
               (IF delete THEN Thrown(p.studio, p.disk) ELSE {})
               \cup {Outcome(NextOpened(p.studio, IF held THEN i ELSE 1),
                             IF delete THEN Written(p.disk, t.root, name, Absent)
                             ELSE p.disk, "ok")}))

(* ConfirmWorkspaceSwitch: Yes saves all, No goes on, Cancel does not.      *)
Confirm(s, d, said) ==
  IF ~Unsaved(s) THEN {Outcome(s, d, "ok")}
  ELSE IF said = "yes" THEN SaveAll(s, d)
  ELSE {Outcome(s, d, IF said = "no" THEN "ok" ELSE "cancelled")}

NewProject(s, d, dir, said) ==
  Then(Confirm(s, d, said), LAMBDA o :
    IF dir \in Targets(o.disk)
    THEN Create(o.studio, o.disk, dir, Fresh.files, "error")
    ELSE {Outcome(o.studio, o.disk, "cancelled")})

(* NovaWorkspaceService.Open throws when there is no manifest or a file is  *)
(* missing.                                                                *)
Openable(d, dir) ==
  /\ d[dir].manifest # NoManifest
  /\ \A i \in DOMAIN d[dir].manifest : Exists(d, dir, d[dir].manifest[i])
Loaded(d, dir) ==
  [i \in DOMAIN d[dir].manifest |->
     File(d[dir].manifest[i], d[dir].text[d[dir].manifest[i]])]

OpenProject(s, d, dir, said) ==
  Then(Confirm(s, d, said), LAMBDA o :
    IF Openable(o.disk, dir)
    THEN {Outcome(Applied(dir, Loaded(o.disk, dir)), o.disk, "ok")}
    ELSE {Outcome(o.studio, o.disk, "error")})

(* Closing ends the process; the next state is a Studio started again.      *)
Close(s, d, said) ==
  Then(Confirm(s, d, said), LAMBDA o : {Outcome(Fresh, o.disk, "ok")})

-----------------------------------------------------------------------------
(* A crash ends the process; the user starts Studio again.                  *)
Handle(outcomes, said) ==
  \E o \in outcomes :
    /\ studio' = IF o.how = "crash" THEN Fresh ELSE o.studio
    /\ disk' = o.disk /\ ended' = o.how /\ answer' = said
    /\ faults' = faults - o.cost

(* Keystrokes: SourceEditor_TextChanged.                                    *)
Edit(text) ==
  /\ studio' = IF studio.loose # <<>>
               THEN [studio EXCEPT !.loose[1].file.text = text]
               ELSE [studio EXCEPT !.files[studio.active].text = text]
  /\ ended' = "typed" /\ answer' = "none"
  /\ UNCHANGED <<disk, faults>>

SelectFile(i) == Handle({Outcome(Opened(studio, i), disk, "ok")}, "none")
MoveNode == Handle({Outcome([studio EXCEPT !.manifestDirty = TRUE], disk, "ok")}, "none")
SaveClick == Handle(SaveActive(studio, disk), "none")
SaveAllClick == Handle(SaveAll(studio, disk), "none")
AddClick(name) == Handle(AddFile(studio, disk, name), "none")

RenameClick(name) ==
  /\ studio.selected # 0 /\ (studio.root # None \/ "rename" \in UnsavedOps)
  /\ Handle(RenameFile(studio, disk, name), "none")

RemoveClick(delete) ==
  /\ studio.selected # 0 /\ (studio.root # None \/ "remove" \in UnsavedOps)
  /\ Handle(RemoveFile(studio, disk, delete), IF delete THEN "delete" ELSE "remove")

Agreed(said) == IF said = "no" THEN "no" ELSE "none"
NewClick(dir, said) == Handle(NewProject(studio, disk, dir, said), Agreed(said))
OpenClick(dir, said) == Handle(OpenProject(studio, disk, dir, said), Agreed(said))
CloseClick(said) == Handle(Close(studio, disk, said), Agreed(said))

Init ==
  /\ studio = Fresh /\ disk = [dir \in Dirs |-> EmptyDir]
  /\ ended = "ok" /\ answer = "none" /\ faults = MaxFaults

Replies == {"yes", "no", "cancel"}

Next ==
  \/ \E text \in Texts : Edit(text)
  \/ \E i \in DOMAIN studio.files : SelectFile(i)
  \/ MoveNode \/ SaveClick \/ SaveAllClick
  \/ \E name \in Names : AddClick(name) \/ RenameClick(name)
  \/ \E delete \in BOOLEAN : RemoveClick(delete)
  \/ \E dir \in Dirs, said \in Replies : NewClick(dir, said) \/ OpenClick(dir, said)
  \/ \E said \in Replies : CloseClick(said)

Spec == Init /\ [][Next]_vars

-----------------------------------------------------------------------------
(* Properties *)

FileType == [name : Names, text : Texts, saved : Texts]

(* The fields of the main window and the disk keep their kinds: an opened or*)
(* selected position is one of the list.                                    *)
TypeOK ==
  /\ studio.root \in Dirs \cup {None} /\ studio.manifestDirty \in BOOLEAN
  /\ studio.files \in Seq(FileType)
  /\ Len(studio.files) \in 1..MaxFiles
  /\ studio.active \in 0..Len(studio.files)
  /\ studio.selected \in 0..Len(studio.files)
  /\ \A dir \in Dirs : disk[dir].text \in [Names -> Texts \cup {Absent}]

(* No write has thrown so far.                                              *)
Flawless == faults = MaxFaults

(* Every workspace on disk can be opened again: its manifest lists distinct *)
(* files that exist, one of them a translation unit, after any sequence of  *)
(* saves, additions, renames and removals.                                 *)
WorkspacesOpen ==
  \A dir \in Dirs : Flawless /\ disk[dir].manifest # NoManifest =>
    LET paths == disk[dir].manifest
    IN  /\ Openable(disk, dir)
        /\ IsInjective(paths) /\ Len(paths) <= MaxFiles
        /\ ToSet(paths) \cap Sources # {}

(* When the title shows no asterisk, opening the workspace again would give *)
(* exactly the files and texts that are in memory.                         *)
CleanMeansSaved ==
  Flawless /\ studio.root # None /\ ~Unsaved(studio) =>
    /\ disk[studio.root].manifest = Paths(studio)
    /\ \A i \in DOMAIN studio.files :
         disk[studio.root].text[studio.files[i].name] = studio.files[i].text

(* While the manifest is not marked as changed, the one on disk lists the   *)
(* project's files and can be opened, even when a write has thrown.        *)
CleanReopens ==
  studio.root # None /\ ~studio.manifestDirty =>
    /\ disk[studio.root].manifest = Paths(studio)
    /\ Openable(disk, studio.root)

(* The unsaved text of a file is still in memory or on disk after a step,   *)
(* under its name unless the file was renamed.                             *)
Survives(f) ==
  \/ \E j \in DOMAIN studio'.files :
       LET g == studio'.files[j]
       IN  g.text = f.text /\ (g.name = f.name \/ f.name \notin ToSet(Paths(studio')))
  \/ \E dir \in Dirs : disk'[dir].text[f.name] = f.text
EditsSurvive ==
  \A i \in DOMAIN studio.files : Dirty(studio.files[i]) => Survives(studio.files[i])

(* Unsaved edits are lost only when the user types over them, removes the   *)
(* file, or answers No to saving and the switch then succeeds: never by     *)
(* saving, creating or renaming, and never by a handler that reports an     *)
(* error, wherever its writes stopped.  A handler that ends Studio with an  *)
(* exception nobody catches takes every unsaved edit with it.              *)
NoSilentLoss ==
  [][/\ ended' \notin {"typed", "crash"}
     /\ answer' = "none" \/ (answer' = "no" /\ ended' = "error")
     => EditsSurvive]_vars
=============================================================================
