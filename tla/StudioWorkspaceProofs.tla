------------------------ MODULE StudioWorkspaceProofs ------------------------
(***************************************************************************)
(* Proofs about StudioWorkspace, for every set of paths, texts and          *)
(* directories, with or without workspaces that are there already.          *)
(*                                                                         *)
(* The invariant is a predicate of the window's fields s and of the disk d: *)
(* Sound, and Whole as long as no write has thrown.  A handler is a set of  *)
(* outcomes, each of which keeps it (Fine) wherever its writes stop.  The   *)
(* files the user removes or renames before the workspace has a directory   *)
(* are left out, UnsavedOps = {}: what happens to them is a finding.        *)
(***************************************************************************)
EXTENDS StudioWorkspace, FiniteSetTheorems, SequenceTheorems, WellFoundedInduction, TLAPS

Disks == [Dirs -> [text : [Names -> Texts \cup {Absent}], manifest : Seq(Names)]]
Window ==
  [root : Dirs \cup {None}, manifestDirty : BOOLEAN, files : Seq(FileType),
   active : Nat, selected : Nat, loose : Seq([file : FileType, fileId : Nat])]

(* The files of a project, and of a manifest.                               *)
ProjectOK(files) ==
  /\ Len(files) \in 1..MaxFiles
  /\ \A i, j \in DOMAIN files : files[i].name = files[j].name => i = j
  /\ \E i \in DOMAIN files : files[i].name \in Sources

ManifestOK(paths) ==
  /\ IsInjective(paths) /\ Len(paths) <= MaxFiles
  /\ ToSet(paths) \cap Sources # {}

(* A file that was removed is in the editor while no file of the list is.   *)
EditorOK(s) ==
  /\ s.active \in 0..Len(s.files) /\ s.selected \in 0..Len(s.files)
  /\ Len(s.loose) <= 1
  /\ s.active = 0 <=> s.loose # <<>>

DiskOK(d) ==
  /\ d \in Disks
  /\ \A dir \in Dirs : d[dir].manifest # NoManifest => ManifestOK(d[dir].manifest)

(* The files of a workspace are on disk, whatever has thrown.               *)
OnDisk(s, d) == s.root # None => \A i \in DOMAIN s.files : Exists(d, s.root, s.files[i].name)
Listed(s, d) == s.root # None /\ ~s.manifestDirty => d[s.root].manifest = Paths(s)

(* As long as nothing has thrown: no removed file stays in the editor, what *)
(* counts as saved is what is on disk, and all workspaces can be opened.    *)
Settled(s, d) ==
  /\ s.loose = <<>>
  /\ s.root # None => \A i \in DOMAIN s.files :
                        d[s.root].text[s.files[i].name] = s.files[i].saved
OpenableAt(d, dir) == d[dir].manifest # NoManifest => Openable(d, dir)

Shape(s, d) == s \in Window /\ ProjectOK(s.files) /\ EditorOK(s) /\ DiskOK(d)

Sound(s, d) == Shape(s, d) /\ OnDisk(s, d) /\ Listed(s, d)
Whole(s, d) == Settled(s, d) /\ \A dir \in Dirs : OpenableAt(d, dir)
Good(s, d) == Sound(s, d) /\ (Flawless => Whole(s, d))

WInv == faults \in 0..MaxFaults /\ Good(studio, disk)

Clean(s) == [s EXCEPT !.manifestDirty = FALSE]

(* A handler that ends with an exception nobody catches ends Studio.        *)
After(o) == IF o.how = "crash" THEN Fresh ELSE o.studio

Fine(o) ==
  /\ o.cost \in {0, 1} /\ (o.cost = 1 => faults > 0 /\ o.how # "ok")
  /\ Sound(After(o), o.disk)
  /\ Flawless /\ o.cost = 0 => Whole(After(o), o.disk)

-----------------------------------------------------------------------------
(* The disk *)

(* One text is set in a directory, and nothing else changes.                *)
TextSet(d, dir, name, text, e) ==
  /\ e \in Disks
  /\ \A x \in Dirs : e[x].manifest = d[x].manifest
  /\ \A x \in Dirs, n \in Names :
       e[x].text[n] = IF x = dir /\ n = name THEN text ELSE d[x].text[n]

LEMMA WrittenDisk ==
  ASSUME NEW d \in Disks, NEW dir \in Dirs, NEW name \in Names, NEW text \in Texts \cup {Absent}
  PROVE  TextSet(d, dir, name, text, Written(d, dir, name, text))
BY DEF Written, Disks, TextSet

LEMMA ManifestDisk ==
  ASSUME NEW d \in Disks, NEW dir \in Dirs, NEW paths \in Seq(Names)
  PROVE  /\ WithManifest(d, dir, paths) \in Disks
         /\ \A x \in Dirs :
              /\ WithManifest(d, dir, paths)[x].text = d[x].text
              /\ WithManifest(d, dir, paths)[x].manifest =
                   IF x = dir THEN paths ELSE d[x].manifest
BY DEF WithManifest, Disks

(* The files that are written have their texts, and nothing else changes.   *)
Rewritten(d, dir, files, k, e) ==
  /\ e \in Disks
  /\ \A x \in Dirs : e[x].manifest = d[x].manifest
  /\ \A x \in Dirs \ {dir} : e[x].text = d[x].text
  /\ \A n \in Names : (\A i \in 1..k : files[i].name # n) => e[dir].text[n] = d[dir].text[n]
  /\ \A i \in 1..k : e[dir].text[files[i].name] = files[i].text

LEMMA WrittenUpToDisk ==
  ASSUME NEW d \in Disks, NEW dir \in Dirs, NEW files \in Seq(FileType), NEW k \in 0..Len(files),
         \A i, j \in DOMAIN files : files[i].name = files[j].name => i = j
  PROVE  Rewritten(d, dir, files, k, WrittenUpTo(d, dir, files, k))
<1> DEFINE Position(name) == CHOOSE i \in 1..k : files[i].name = name
           text == [name \in Names |->
                      IF \E i \in 1..k : files[i].name = name THEN files[Position(name)].text
                      ELSE d[dir].text[name]]
           e == WrittenUpTo(d, dir, files, k)
<1>1. \A i \in 1..k : i \in DOMAIN files /\ files[i] \in FileType
  OBVIOUS
<1>2. \A i \in 1..k : Position(files[i].name) = i
  BY <1>1
<1>3. text \in [Names -> Texts \cup {Absent}]
  <2>1. ASSUME NEW n \in Names PROVE text[n] \in Texts \cup {Absent}
    <3>1. CASE \E i \in 1..k : files[i].name = n
      <4>1. Position(n) \in 1..k  BY <3>1
      <4>2. files[Position(n)].text \in Texts  BY <1>1, <4>1 DEF FileType
      <4> HIDE DEF Position
      <4> QED BY <3>1, <4>2
    <3>2. CASE ~\E i \in 1..k : files[i].name = n
      BY <3>2 DEF Disks
    <3> QED BY <3>1, <3>2
  <2> HIDE DEF Position
  <2> QED BY <2>1
<1>4. e = [d EXCEPT ![dir].text = text]  BY DEF WrittenUpTo
<1>5. \A n \in Names : (\A i \in 1..k : files[i].name # n) => text[n] = d[dir].text[n]
  OBVIOUS
<1>6. \A i \in 1..k : text[files[i].name] = files[i].text
  <2>1. \A i \in 1..k : files[i].name \in Names  BY <1>1 DEF FileType
  <2> HIDE DEF Position
  <2> QED BY <1>2, <2>1
<1> HIDE DEF text, e, Position
<1>7. e \in Disks /\ \A x \in Dirs : e[x].manifest = d[x].manifest
  BY <1>3, <1>4 DEF Disks
<1>8. e[dir].text = text /\ \A x \in Dirs \ {dir} : e[x].text = d[x].text
  BY <1>3, <1>4 DEF Disks
<1>9. \A n \in Names : (\A i \in 1..k : files[i].name # n) => e[dir].text[n] = d[dir].text[n]
  BY <1>5, <1>8
<1>10. \A i \in 1..k : e[dir].text[files[i].name] = files[i].text
  BY <1>6, <1>8
<1> QED BY <1>7, <1>8, <1>9, <1>10 DEF e, Rewritten

LEMMA LeastTaken ==
  ASSUME NEW T \in SUBSET Nat, T # {}
  PROVE  Min(T) \in T /\ \A x \in T : Min(T) <= x
<1>1. \E x \in T : \A y \in T : ~(<<y, x>> \in OpToRel(<, Nat))
  BY WFMin, NatLessThanWellFounded, Zenon
<1>2. PICK x \in T : \A y \in T : ~(<<y, x>> \in OpToRel(<, Nat))  BY <1>1
<1>3. \A y \in T : ~(y < x)  BY <1>2, Zenon DEF OpToRel
<1>4. \E m \in T : \A y \in T : m <= y  BY <1>3
<1> QED BY <1>4 DEF Min

LEMMA NamesOf ==
  ASSUME NEW files \in Seq(FileType), NEW i \in DOMAIN files
  PROVE  /\ files[i] \in FileType /\ files[i].name \in Names
         /\ files[i].text \in Texts /\ files[i].saved \in Texts
<1>1. files[i] \in FileType  OBVIOUS
<1> QED BY <1>1 DEF FileType

-----------------------------------------------------------------------------
(* What keeps a state sound *)

LEMMA PathsOf ==
  ASSUME NEW s \in Window, ProjectOK(s.files)
  PROVE  /\ Paths(s) \in Seq(Names) /\ Len(Paths(s)) = Len(s.files) /\ Paths(s) # NoManifest
         /\ DOMAIN Paths(s) = DOMAIN s.files
         /\ \A i \in DOMAIN s.files : Paths(s)[i] = s.files[i].name
         /\ ManifestOK(Paths(s))
<1>1. s.files \in Seq(FileType)  BY DEF Window
<1>2. \A i \in DOMAIN s.files : s.files[i].name \in Names  BY <1>1, NamesOf
<1>3. /\ Paths(s) \in Seq(Names) /\ Len(Paths(s)) = Len(s.files)
      /\ DOMAIN Paths(s) = DOMAIN s.files
      /\ \A i \in DOMAIN s.files : Paths(s)[i] = s.files[i].name
  BY <1>1, <1>2 DEF Paths
<1>4. Len(s.files) \in 1..MaxFiles /\ MaxFiles \in Nat
  BY WorkspaceAssumption DEF ProjectOK
<1>5. Paths(s) # NoManifest  BY <1>3, <1>4 DEF NoManifest
<1>6. ManifestOK(Paths(s))
  <2>1. IsInjective(Paths(s))  BY <1>3 DEF ProjectOK, IsInjective
  <2>2. ToSet(Paths(s)) \cap Sources # {}  BY <1>3 DEF ProjectOK, ToSet
  <2> QED BY <1>3, <1>4, <2>1, <2>2 DEF ManifestOK
<1> QED BY <1>3, <1>5, <1>6

(* Files that were not there may appear.                                    *)
LEMMA SoundGrows ==
  ASSUME NEW s, NEW d, Sound(s, d), NEW e \in Disks,
         \A x \in Dirs : e[x].manifest = d[x].manifest,
         \A x \in Dirs, n \in Names : d[x].text[n] # Absent => e[x].text[n] = d[x].text[n]
  PROVE  Sound(s, e) /\ (Whole(s, d) => Whole(s, e))
<1>1. Shape(s, e)  BY DEF Sound, Shape, DiskOK
<1>2. s \in Window /\ d \in Disks  BY DEF Sound, Shape, DiskOK
<1>3. \A i \in DOMAIN s.files : s.files[i].name \in Names  BY <1>2, NamesOf DEF Window
<1>4. s.root # None => s.root \in Dirs  BY <1>2 DEF Window
<1>5. OnDisk(s, e)  BY <1>3, <1>4 DEF Sound, OnDisk, Exists
<1>6. Listed(s, e)  BY <1>4 DEF Sound, Listed
<1>7. ASSUME Whole(s, d) PROVE Settled(s, e)
  BY <1>3, <1>4, <1>7 DEF Sound, Whole, Settled, OnDisk, Exists
<1>8. ASSUME Whole(s, d), NEW dir \in Dirs PROVE OpenableAt(e, dir)
  <2>1. OpenableAt(d, dir)  BY <1>8 DEF Whole
  <2>2. d[dir].manifest \in Seq(Names)  BY <1>2 DEF Disks
  <2> QED BY <2>1, <2>2 DEF OpenableAt, Openable, Exists
<1> QED BY <1>1, <1>5, <1>6, <1>7, <1>8 DEF Sound, Whole

(* The project keeps its names, and no file disappears.                     *)
LEMMA SoundKept ==
  ASSUME NEW s, NEW d, Sound(s, d), NEW t \in Window, NEW e \in Disks,
         t.root = s.root, s.manifestDirty => t.manifestDirty, EditorOK(t),
         DOMAIN t.files = DOMAIN s.files,
         \A i \in DOMAIN s.files : t.files[i].name = s.files[i].name,
         \A x \in Dirs : e[x].manifest = d[x].manifest,
         \A x \in Dirs, n \in Names : d[x].text[n] # Absent => e[x].text[n] # Absent
  PROVE  Sound(t, e) /\ (Whole(s, d) /\ Settled(t, e) => Whole(t, e))
<1>1. /\ s \in Window /\ ProjectOK(s.files) /\ d \in Disks /\ DiskOK(d)
      /\ OnDisk(s, d) /\ Listed(s, d)
  BY DEF Sound, Shape, DiskOK
<1>2. /\ s.files \in Seq(FileType) /\ t.files \in Seq(FileType)
      /\ s.root # None => s.root \in Dirs
      /\ s.manifestDirty \in BOOLEAN /\ t.manifestDirty \in BOOLEAN
  BY <1>1 DEF Window
<1>3. \A i \in DOMAIN s.files : s.files[i].name \in Names  BY <1>2, NamesOf
<1>4. Len(t.files) = Len(s.files)  BY <1>2
<1>5. ProjectOK(t.files)  BY <1>1, <1>4 DEF ProjectOK
<1>6. DiskOK(e)  BY <1>1 DEF DiskOK
<1>7. OnDisk(t, e)  BY <1>1, <1>2, <1>3 DEF OnDisk, Exists
<1>8. Paths(t) = Paths(s)  BY DEF Paths
<1>9. Listed(t, e)  BY <1>1, <1>2, <1>8 DEF Listed
<1>10. ASSUME Whole(s, d), NEW dir \in Dirs PROVE OpenableAt(e, dir)
  <2>1. OpenableAt(d, dir)  BY <1>10 DEF Whole
  <2>2. d[dir].manifest \in Seq(Names)  BY <1>1 DEF Disks
  <2> QED BY <2>1, <2>2 DEF OpenableAt, Openable, Exists
<1> QED BY <1>5, <1>6, <1>7, <1>9, <1>10 DEF Sound, Shape, Whole

(* SaveManifest makes a workspace whose files are on disk complete.         *)
LEMMA PersistSound ==
  ASSUME NEW s, NEW d, Sound(s, d), s.root # None
  PROVE  /\ Sound(Clean(s), WithManifest(d, s.root, Paths(s)))
         /\ Settled(s, d) /\ (\A dir \in Dirs \ {s.root} : OpenableAt(d, dir)) =>
              Whole(Clean(s), WithManifest(d, s.root, Paths(s)))
         /\ WithManifest(d, s.root, Paths(s))[s.root].manifest = Paths(s)
<1> DEFINE e == WithManifest(d, s.root, Paths(s))
           t == Clean(s)
<1>1. s \in Window /\ ProjectOK(s.files) /\ EditorOK(s) /\ d \in Disks /\ DiskOK(d)
      /\ s.root \in Dirs /\ OnDisk(s, d)
  BY DEF Sound, Shape, DiskOK, Window
<1>2. /\ Paths(s) \in Seq(Names) /\ Len(Paths(s)) = Len(s.files) /\ Paths(s) # NoManifest
      /\ DOMAIN Paths(s) = DOMAIN s.files
      /\ \A i \in DOMAIN s.files : Paths(s)[i] = s.files[i].name
      /\ ManifestOK(Paths(s))
  BY <1>1, PathsOf
<1>3. e \in Disks /\ \A x \in Dirs : /\ e[x].text = d[x].text
                                     /\ e[x].manifest = IF x = s.root THEN Paths(s)
                                                        ELSE d[x].manifest
  BY <1>1, <1>2, ManifestDisk
<1>4. /\ t \in Window /\ t.files = s.files /\ t.root = s.root /\ ~t.manifestDirty
      /\ t.active = s.active /\ t.selected = s.selected /\ t.loose = s.loose
  BY <1>1 DEF Clean, Window
<1>5. Paths(t) = Paths(s)  BY <1>4 DEF Paths
<1> HIDE DEF e, t
<1>6. Shape(t, e)
  BY <1>1, <1>2, <1>3, <1>4 DEF Shape, DiskOK, EditorOK
<1>7. OnDisk(t, e)  BY <1>1, <1>3, <1>4 DEF OnDisk, Exists
<1>8. Listed(t, e)  BY <1>1, <1>3, <1>4, <1>5 DEF Listed
<1>9. ASSUME Settled(s, d) PROVE Settled(t, e)  BY <1>1, <1>3, <1>4, <1>9 DEF Settled
<1>10. ASSUME \A x \in Dirs \ {s.root} : OpenableAt(d, x), NEW dir \in Dirs
       PROVE  OpenableAt(e, dir)
  <2>1. CASE dir = s.root
    BY <1>1, <1>2, <1>3, <2>1 DEF OpenableAt, Openable, OnDisk, Exists
  <2>2. CASE dir # s.root
    BY <1>3, <1>10, <2>2 DEF OpenableAt, Openable, Exists
  <2> QED BY <2>1, <2>2
<1> QED BY <1>1, <1>3, <1>6, <1>7, <1>8, <1>9, <1>10 DEF Sound, Whole, e, t

LEMMA FreshStarts ==
  ASSUME NEW d, DiskOK(d)
  PROVE  Sound(Fresh, d) /\ ((\A dir \in Dirs : OpenableAt(d, dir)) => Whole(Fresh, d))
<1>1. /\ DefaultFiles \in Seq(Names) /\ IsInjective(DefaultFiles) /\ Len(DefaultFiles) <= MaxFiles
      /\ ToSet(DefaultFiles) \cap Sources # {} /\ NewText \in Texts /\ MaxFiles \in Nat
  BY WorkspaceAssumption
<1>2. Len(DefaultFiles) # 0  BY <1>1 DEF ToSet
<1>3. /\ Fresh.files \in Seq(FileType) /\ Len(Fresh.files) = Len(DefaultFiles)
      /\ \A i \in DOMAIN Fresh.files : Fresh.files[i].name = DefaultFiles[i]
  <2>1. \A i \in DOMAIN DefaultFiles : File(DefaultFiles[i], NewText) \in FileType
    BY <1>1 DEF File, FileType
  <2>2. Fresh.files = [i \in DOMAIN DefaultFiles |-> File(DefaultFiles[i], NewText)]
    BY DEF Fresh
  <2>3. \A i \in DOMAIN DefaultFiles : File(DefaultFiles[i], NewText).name = DefaultFiles[i]
    BY DEF File
  <2>4. DOMAIN DefaultFiles = 1..Len(DefaultFiles) /\ Len(DefaultFiles) \in Nat  BY <1>1
  <2> QED BY <2>1, <2>2, <2>3, <2>4
<1>4. /\ Fresh.root = None /\ Fresh.manifestDirty = TRUE /\ Fresh.active = 1
      /\ Fresh.selected = 1 /\ Fresh.loose = <<>>
  BY DEF Fresh
<1>5. Fresh \in Window  BY <1>3 DEF Fresh, Window
<1>6. ProjectOK(Fresh.files)
  BY <1>1, <1>2, <1>3 DEF ProjectOK, IsInjective, ToSet
<1>7. EditorOK(Fresh)  BY <1>1, <1>2, <1>3, <1>4 DEF EditorOK
<1> QED BY <1>4, <1>5, <1>6, <1>7 DEF Sound, Whole, Shape, OnDisk, Listed, Settled

LEMMA FreshSound ==
  ASSUME NEW s, NEW d, Sound(s, d)
  PROVE  Sound(Fresh, d) /\ (Whole(s, d) => Whole(Fresh, d))
BY FreshStarts DEF Sound, Shape, Whole

-----------------------------------------------------------------------------
(* Outcomes *)

(* Every file of s is still in t, with its text.                            *)
Carries(s, t) ==
  \A i \in DOMAIN s.files :
    /\ i \in DOMAIN t.files
    /\ t.files[i].name = s.files[i].name /\ t.files[i].text = s.files[i].text

LEMMA OutcomeFine ==
  ASSUME NEW s, NEW d, NEW how, Good(s, d)
  PROVE  /\ Fine(Outcome(s, d, how))
         /\ Outcome(s, d, how).studio = s /\ Outcome(s, d, how).disk = d
         /\ Outcome(s, d, how).how = how
<1>1. /\ Outcome(s, d, how).studio = s /\ Outcome(s, d, how).disk = d
      /\ Outcome(s, d, how).how = how /\ Outcome(s, d, how).cost = 0
  BY DEF Outcome
<1>2. Good(Fresh, d)  BY FreshSound DEF Good
<1> QED BY <1>1, <1>2 DEF Fine, After, Good

(* A write that throws need not leave a settled state.                      *)
LEMMA FaultFine ==
  ASSUME NEW s, NEW d, NEW how \in {"error", "crash"},
         NEW t, Sound(t, d), how = "error" => t = s, NEW o \in Fault(s, d, how)
  PROVE  Fine(o) /\ o.how = how /\ o.studio = s /\ o.disk = d
<1>1. /\ o.studio = s /\ o.disk = d /\ o.how = how /\ o.cost = 1 /\ faults > 0
  BY DEF Fault, Outcome
<1>2. Sound(After(o), d)  BY <1>1, FreshSound DEF After
<1> QED BY <1>1, <1>2 DEF Fine

LEMMA PersistFine ==
  ASSUME NEW s, NEW d, Sound(s, d), s.root # None,
         Flawless => Settled(s, d) /\ \A dir \in Dirs \ {s.root} : OpenableAt(d, dir),
         NEW o \in Persist(s, d)
  PROVE  /\ Fine(o) /\ o.how \in {"ok", "error"} /\ Carries(s, o.studio)
         /\ o.studio.files = s.files
         /\ \A x \in Dirs : o.disk[x].text = d[x].text
         /\ o.how = "ok" => /\ o.studio = Clean(s)
                            /\ o.disk = WithManifest(d, s.root, Paths(s))
<1>1. s \in Window /\ s.root \in Dirs /\ d \in Disks /\ Paths(s) \in Seq(Names)
  BY PathsOf DEF Sound, Shape, DiskOK, Window
<1>2. Carries(s, s) /\ Carries(s, Clean(s)) /\ Clean(s).files = s.files
  BY <1>1 DEF Carries, Clean, Window
<1>3. CASE o \in Thrown(s, d)
  <2>1. o \in Fault(s, d, "error")  BY <1>3 DEF Thrown
  <2>2. Fine(o) /\ o.how = "error" /\ o.studio = s /\ o.disk = d
    BY <2>1, FaultFine
  <2> QED BY <1>2, <2>2
<1>4. CASE o = Outcome(Clean(s), WithManifest(d, s.root, Paths(s)), "ok")
  <2>1. Good(Clean(s), WithManifest(d, s.root, Paths(s)))  BY PersistSound DEF Good
  <2>2. /\ Fine(o) /\ o.studio = Clean(s) /\ o.how = "ok"
        /\ o.disk = WithManifest(d, s.root, Paths(s))
    BY <1>4, <2>1, OutcomeFine
  <2>3. \A x \in Dirs : o.disk[x].text = d[x].text  BY <1>1, <2>2, ManifestDisk
  <2> QED BY <1>2, <2>2, <2>3
<1> QED BY <1>3, <1>4 DEF Persist, Clean

(* A new workspace before its manifest is written.                          *)
Pending(dir, files) ==
  [root |-> dir, manifestDirty |-> TRUE, files |-> files,
   active |-> 1, selected |-> 1, loose |-> <<>>]

LEMMA PendingClean ==
  ASSUME NEW dir, NEW files
  PROVE  Clean(Pending(dir, files)) = Applied(dir, files)
<1> DEFINE yes == TRUE
           no == FALSE
           R(flag) == [root |-> dir, manifestDirty |-> flag, files |-> files,
                       active |-> 1, selected |-> 1, loose |-> <<>>]
<1>1. Clean(R(yes)) = [R(yes) EXCEPT !.manifestDirty = no]  BY DEF Clean
<1>2. Applied(dir, files) = R(no)  BY DEF Applied
<1>3. Clean(R(yes)) = Clean(R(TRUE))  OBVIOUS
<1> HIDE DEF yes, no
<1>4. [R(yes) EXCEPT !.manifestDirty = no] = R(no)  OBVIOUS
<1> HIDE DEF R
<1>5. Clean(R(TRUE)) = Applied(dir, files)  BY <1>1, <1>2, <1>3, <1>4
<1> QED BY <1>5 DEF R, Pending

(* Create makes a complete workspace, or leaves the window as it was and    *)
(* some files that were not there before.                                   *)
(* A creation overwrites no file, and unless it succeeds the window stays.  *)
Spared(s, d, o) ==
  /\ \A x \in Dirs, n \in Names : d[x].text[n] # Absent => o.disk[x].text[n] = d[x].text[n]
  /\ o.how # "ok" => o.studio = s

(* A created workspace is shown with its files, which are on disk.          *)
Created(dir, files, o) ==
  /\ o.studio = Applied(dir, [i \in DOMAIN files |-> File(files[i].name, files[i].text)])
  /\ \A i \in DOMAIN files : o.disk[dir].text[files[i].name] = files[i].text

LEMMA CreateFine ==
  ASSUME NEW s, NEW d, Good(s, d), NEW dir \in Dirs,
         NEW files \in Seq(FileType), ProjectOK(files), NEW how \in {"error", "crash"},
         NEW o \in Create(s, d, dir, files, how)
  PROVE  /\ Fine(o) /\ o.how \in {"ok", how}
         /\ Spared(s, d, o)
         /\ o.how = "ok" => Created(dir, files, o)
<1> DEFINE taken == {i \in DOMAIN files : Exists(d, dir, files[i].name)}
           reach == IF taken # {} THEN Min(taken) - 1 ELSE Len(files)
           paths == [i \in DOMAIN files |-> files[i].name]
           fresh == [i \in DOMAIN files |-> File(files[i].name, files[i].text)]
           Up(k) == WrittenUpTo(d, dir, files, k)
<1>1. s \in Window /\ d \in Disks  BY DEF Good, Sound, Shape, DiskOK
<1>2. /\ DOMAIN files = 1..Len(files) /\ Len(files) \in Nat \ {0} /\ Len(files) <= MaxFiles
      /\ \A i, j \in DOMAIN files : files[i].name = files[j].name => i = j
  BY WorkspaceAssumption DEF ProjectOK
<1>3. \A i \in DOMAIN files : /\ files[i].name \in Names /\ files[i].text \in Texts
  BY NamesOf
<1>4. reach \in 0..Len(files) /\ \A i \in 1..reach : i \notin taken
  <2>1. CASE taken = {}  BY <1>2, <2>1
  <2>2. CASE taken # {}
    <3>1. taken \in SUBSET Nat  BY <1>2
    <3>2. Min(taken) \in taken /\ \A x \in taken : Min(taken) <= x  BY <2>2, <3>1, LeastTaken
    <3>3. Min(taken) \in 1..Len(files)  BY <1>2, <3>2
    <3>4. reach = Min(taken) - 1  BY <2>2
    <3> HIDE DEF reach, taken
    <3> QED BY <1>2, <3>2, <3>3, <3>4
  <2> QED BY <2>1, <2>2
<1> HIDE DEF reach
<1>5. ASSUME NEW k \in 0..reach
      PROVE  /\ Up(k) \in Disks /\ Good(s, Up(k))
             /\ \A x \in Dirs, n \in Names : d[x].text[n] # Absent => Up(k)[x].text[n] = d[x].text[n]
             /\ \A i \in 1..k : Up(k)[dir].text[files[i].name] = files[i].text
  <2>1. k \in 0..Len(files)  BY <1>2, <1>4
  <2>2. /\ Up(k) \in Disks /\ \A x \in Dirs : Up(k)[x].manifest = d[x].manifest
        /\ \A x \in Dirs \ {dir} : Up(k)[x].text = d[x].text
        /\ \A n \in Names :
             (\A i \in 1..k : files[i].name # n) => Up(k)[dir].text[n] = d[dir].text[n]
        /\ \A i \in 1..k : Up(k)[dir].text[files[i].name] = files[i].text
    <3>1. Rewritten(d, dir, files, k, Up(k))  BY <1>1, <1>2, <2>1, WrittenUpToDisk
    <3> HIDE DEF Up
    <3> QED BY <3>1 DEF Rewritten
  <2>3. \A i \in 1..k : i \in DOMAIN files /\ i \notin taken  BY <1>2, <1>4, <2>1
  <2>4. ASSUME NEW x \in Dirs, NEW n \in Names, d[x].text[n] # Absent
        PROVE  Up(k)[x].text[n] = d[x].text[n]
    BY <2>2, <2>3, <2>4 DEF Exists
  <2>5. Good(s, Up(k))  BY <2>2, <2>4, SoundGrows DEF Good
  <2> QED BY <2>2, <2>4, <2>5
<1> HIDE DEF Up
<1>6. ASSUME NEW k \in 0..reach, o \in Fault(s, Up(k), how)
      PROVE  Fine(o) /\ o.how = how /\ o.studio = s /\ o.disk = Up(k)
  BY <1>5, <1>6, FaultFine DEF Good
<1>7. CASE \E k \in 0..reach : o \in Fault(s, Up(k), how)
  BY <1>5, <1>6, <1>7 DEF Spared
<1>8. reach \in 0..reach  BY <1>4
<1>9. CASE taken # {} /\ o = Outcome(s, Up(reach), how)
  <2>1. Fine(o) /\ o.how = how /\ o.studio = s /\ o.disk = Up(reach)
    BY <1>5, <1>8, <1>9, OutcomeFine
  <2> QED BY <1>5, <1>8, <2>1 DEF Spared
<1>10. CASE taken = {} /\ o = Outcome(Applied(dir, fresh), WithManifest(Up(reach), dir, paths), "ok")
  <2> DEFINE t == Pending(dir, fresh)
             e == Up(reach)
  <2>1. reach = Len(files)  BY <1>10 DEF reach
  <2>2. /\ e \in Disks /\ Good(s, e)
        /\ \A i \in DOMAIN files : e[dir].text[files[i].name] = files[i].text
        /\ \A x \in Dirs, n \in Names : d[x].text[n] # Absent => e[x].text[n] = d[x].text[n]
    BY <1>2, <1>5, <1>8, <2>1
  <2>3. /\ fresh \in Seq(FileType) /\ Len(fresh) = Len(files) /\ DOMAIN fresh = DOMAIN files
        /\ \A i \in DOMAIN files : /\ fresh[i].name = files[i].name
                                   /\ fresh[i].text = files[i].text
                                   /\ fresh[i].saved = files[i].text
    <3>1. \A i \in DOMAIN files : File(files[i].name, files[i].text) \in FileType
      BY <1>3 DEF File, FileType
    <3>2. \A i \in DOMAIN files : /\ File(files[i].name, files[i].text).name = files[i].name
                                  /\ File(files[i].name, files[i].text).text = files[i].text
                                  /\ File(files[i].name, files[i].text).saved = files[i].text
      BY DEF File
    <3> QED BY <1>2, <3>1, <3>2
  <2> HIDE DEF fresh, e
  <2>4. /\ t.root = dir /\ t.manifestDirty = TRUE /\ t.files = fresh /\ t.active = 1
        /\ t.selected = 1 /\ t.loose = <<>> /\ t \in Window /\ Clean(t) = Applied(dir, fresh)
    BY <2>3, PendingClean DEF Pending, Window
  <2>5. dir # None  BY WorkspaceAssumption
  <2>6. ProjectOK(t.files) /\ EditorOK(t)
    BY <1>2, <2>3, <2>4 DEF ProjectOK, EditorOK
  <2>7. Paths(t) = paths  BY <2>3, <2>4 DEF Paths
  <2> HIDE DEF t
  <2>8. OnDisk(t, e)
    BY <1>3, <2>2, <2>3, <2>4, WorkspaceAssumption DEF OnDisk, Exists
  <2>9. Settled(t, e)  BY <2>2, <2>3, <2>4 DEF Settled
  <2>10. Sound(t, e)
    BY <2>2, <2>4, <2>6, <2>8 DEF Sound, Shape, Listed, Good
  <2>11. Flawless => \A x \in Dirs \ {dir} : OpenableAt(e, x)  BY <2>2 DEF Good, Whole
  <2>12. Good(Applied(dir, fresh), WithManifest(e, dir, paths))
    BY <2>4, <2>5, <2>7, <2>9, <2>10, <2>11, PersistSound DEF Good
  <2>13. /\ Fine(o) /\ o.how = "ok" /\ o.studio = Applied(dir, fresh)
         /\ o.disk = WithManifest(e, dir, paths)
    BY <1>10, <2>12, OutcomeFine DEF e
  <2>14. paths \in Seq(Names)  BY <2>4, <2>6, <2>7, PathsOf
  <2>15. \A x \in Dirs : o.disk[x].text = e[x].text
    BY <2>2, <2>13, <2>14, ManifestDisk
  <2> QED BY <2>2, <2>13, <2>15 DEF fresh, Spared, Created
<1>11. \/ \E k \in 0..reach : o \in Fault(s, Up(k), how)
       \/ taken # {} /\ o = Outcome(s, Up(reach), how)
       \/ taken = {} /\ o = Outcome(Applied(dir, fresh), WithManifest(Up(reach), dir, paths), "ok")
  <2> DEFINE F == UNION {Fault(s, Up(k), how) : k \in 0..reach}
             x == IF taken # {} THEN Outcome(s, Up(reach), how)
                  ELSE Outcome(Applied(dir, fresh), WithManifest(Up(reach), dir, paths), "ok")
  <2>1. Create(s, d, dir, files, how) = F \cup {x}  BY DEF Create, Up, reach
  <2>2. (o \in F => \E k \in 0..reach : o \in Fault(s, Up(k), how))  OBVIOUS
  <2>3. (taken # {} /\ x = Outcome(s, Up(reach), how))
        \/ (taken = {} /\ x = Outcome(Applied(dir, fresh), WithManifest(Up(reach), dir, paths), "ok"))
    OBVIOUS
  <2> HIDE DEF F, x
  <2>4. o \in F \/ o = x  BY <2>1
  <2> HIDE DEF taken, fresh, paths
  <2> QED BY <2>2, <2>3, <2>4
<1> HIDE DEF taken, fresh, paths
<1> QED BY <1>7, <1>9, <1>10, <1>11 DEF fresh

LEMMA FineGood ==
  ASSUME NEW o, Fine(o), o.how = "ok"
  PROVE  Good(o.studio, o.disk) /\ o.cost = 0
BY DEF Fine, After, Good

LEMMA EnsureFine ==
  ASSUME NEW s, NEW d, Good(s, d), NEW o \in Ensure(s, d)
  PROVE  /\ Fine(o) /\ o.how \in {"ok", "cancelled", "crash"}
         /\ s.root # None => o.studio = s /\ o.disk = d /\ o.how = "ok"
         /\ o.how # "crash" => Carries(s, o.studio)
         /\ o.how = "ok" => Good(o.studio, o.disk) /\ o.studio.root # None
<1>1. s \in Window /\ ProjectOK(s.files)  BY DEF Good, Sound, Shape
<1>2. Carries(s, s)  BY DEF Carries
<1>3. CASE s.root # None
  <2>1. o = Outcome(s, d, "ok")  BY <1>3 DEF Ensure
  <2> QED BY <1>2, <1>3, <2>1, OutcomeFine
<1>4. CASE s.root = None /\ o = Outcome(s, d, "cancelled")
  BY <1>2, <1>4, OutcomeFine
<1>5. CASE s.root = None /\ o # Outcome(s, d, "cancelled")
  <2>1. PICK dir \in Targets(d) :
          o \in Then(Create(s, d, dir, s.files, "crash"), LAMBDA p : {p} \cup Fault(s, p.disk, "crash"))
    BY <1>5 DEF Ensure
  <2>2. PICK p \in Create(s, d, dir, s.files, "crash") :
          o \in IF p.how = "ok" THEN {p} \cup Fault(s, p.disk, "crash") ELSE {p}
    BY <2>1 DEF Then
  <2>3. dir \in Dirs /\ dir # None  BY WorkspaceAssumption DEF Targets
  <2> DEFINE fresh == [i \in DOMAIN s.files |-> File(s.files[i].name, s.files[i].text)]
  <2>4. /\ Fine(p) /\ p.how \in {"ok", "crash"}
        /\ p.how = "ok" => p.studio = Applied(dir, fresh)
    <3>1. s.files \in Seq(FileType)  BY <1>1 DEF Window
    <3>2. Fine(p) /\ p.how \in {"ok", "crash"}  BY <1>1, <2>3, <3>1, CreateFine
    <3>3. p.how = "ok" => p.studio = Applied(dir, fresh)
      <4>1. p.how = "ok" => Created(dir, s.files, p)  BY <1>1, <2>3, <3>1, CreateFine
      <4> QED BY <4>1 DEF Created
    <3> QED BY <3>2, <3>3
  <2>5. Carries(s, Applied(dir, fresh)) /\ Applied(dir, fresh).root = dir
    BY DEF Carries, Applied, File
  <2> HIDE DEF fresh
  <2>6. CASE o = p
    BY <1>5, <2>3, <2>4, <2>5, <2>6, FineGood
  <2>7. CASE p.how = "ok" /\ o \in Fault(s, p.disk, "crash")
    <3>1. Sound(p.studio, p.disk)  BY <2>4, <2>7, FineGood DEF Good
    <3> QED BY <1>5, <2>7, <3>1, FaultFine
  <2> QED BY <2>2, <2>6, <2>7
<1> QED BY <1>3, <1>4, <1>5

(* Opening or selecting a file of the list.                                 *)
LEMMA OpenedGood ==
  ASSUME NEW s, NEW d, Good(s, d), NEW i \in DOMAIN s.files
  PROVE  Good(Opened(s, i), d) /\ Carries(s, Opened(s, i))
<1>1. s \in Window /\ EditorOK(s) /\ d \in Disks  BY DEF Good, Sound, Shape, DiskOK
<1>2. i \in 1..Len(s.files) /\ Len(s.files) \in Nat  BY <1>1 DEF Window
<1>w. s \in Window /\ i \in Nat  BY <1>1, <1>2
<1> DEFINE t == Opened(s, i)
<1>3. /\ t \in Window /\ t.root = s.root /\ t.manifestDirty = s.manifestDirty /\ t.files = s.files
      /\ t.selected = i /\ \/ t.active = s.active /\ t.loose = s.loose
                           \/ t.active = i /\ t.loose = <<>>
  <2>1. CASE t = [s EXCEPT !.selected = i]
    <3>1. t \in Window  BY <1>w, <2>1 DEF Window
    <3>2. t.manifestDirty = s.manifestDirty  BY <1>1, <2>1 DEF Window
    <3>3. /\ t.root = s.root /\ t.files = s.files /\ t.selected = i
          /\ t.active = s.active /\ t.loose = s.loose
      BY <1>1, <2>1 DEF Window
    <3> QED BY <3>1, <3>2, <3>3
  <2>2. CASE t = [s EXCEPT !.active = i, !.selected = i, !.loose = <<>>]
    <3>1. t \in Window
      <4>1. <<>> \in Seq([file : FileType, fileId : Nat])  OBVIOUS
      <4> QED BY <1>w, <2>2, <4>1 DEF Window
    <3>2. t.manifestDirty = s.manifestDirty  BY <1>1, <2>2 DEF Window
    <3>3. /\ t.root = s.root /\ t.files = s.files /\ t.selected = i
          /\ t.active = i /\ t.loose = <<>>
      BY <1>1, <2>2 DEF Window
    <3> QED BY <3>1, <3>2, <3>3
  <2> QED BY <2>1, <2>2 DEF Opened
<1> HIDE DEF t
<1>4. EditorOK(t)  BY <1>1, <1>2, <1>3 DEF EditorOK
<1>5. Sound(t, d) /\ (Whole(s, d) /\ Settled(t, d) => Whole(t, d))
  BY <1>1, <1>3, <1>4, SoundKept DEF Good
<1>6. Whole(s, d) => Settled(t, d)  BY <1>3 DEF Whole, Settled
<1>7. Carries(s, t)  BY <1>3 DEF Carries
<1> QED BY <1>5, <1>6, <1>7 DEF Good, t

LEMMA CarriesOn ==
  ASSUME NEW s, NEW t, NEW u, Carries(s, t), Carries(t, u)
  PROVE  Carries(s, u)
BY DEF Carries

(* t differs from s in what counts as saved.                                *)
Resaved(s, t) ==
  /\ t \in Window /\ t.root = s.root /\ t.active = s.active /\ t.selected = s.selected
  /\ t.manifestDirty = s.manifestDirty /\ t.files \in Seq(FileType)
  /\ DOMAIN t.files = DOMAIN s.files
  /\ \A j \in DOMAIN s.files :
       t.files[j].name = s.files[j].name /\ t.files[j].text = s.files[j].text

(* Saving the file at position i.                                           *)
LEMMA FileSavedIs ==
  ASSUME NEW s \in Window, NEW i \in DOMAIN s.files
  PROVE  /\ Resaved(s, FileSaved(s, i)) /\ FileSaved(s, i).loose = s.loose
         /\ \A j \in DOMAIN s.files : FileSaved(s, i).files[j].saved =
              IF j = i THEN s.files[i].text ELSE s.files[j].saved
<1> DEFINE g == [s.files[i] EXCEPT !.saved = s.files[i].text]
           files == [s.files EXCEPT ![i] = g]
           t == [s EXCEPT !.files = files]
<1>1. s.files \in Seq(FileType) /\ s.files[i] \in FileType  BY DEF Window
<1>2. g \in FileType /\ g.name = s.files[i].name /\ g.text = s.files[i].text
      /\ g.saved = s.files[i].text
  BY <1>1 DEF FileType
<1> HIDE DEF g
<1>3. /\ files \in Seq(FileType) /\ DOMAIN files = DOMAIN s.files /\ files[i] = g
      /\ \A j \in DOMAIN s.files \ {i} : files[j] = s.files[j]
  BY <1>1, <1>2
<1> HIDE DEF files
<1>4. t \in Window  BY <1>3 DEF Window
<1>5. t.manifestDirty = s.manifestDirty  BY DEF Window
<1>6. /\ t.root = s.root /\ t.active = s.active /\ t.files = files
      /\ t.selected = s.selected /\ t.loose = s.loose
  BY DEF Window
<1>7. FileSaved(s, i) = t  BY DEF FileSaved, files, g
<1> HIDE DEF t
<1>8. \A j \in DOMAIN s.files :
        /\ t.files[j].name = s.files[j].name /\ t.files[j].text = s.files[j].text
        /\ t.files[j].saved = IF j = i THEN s.files[i].text ELSE s.files[j].saved
  BY <1>2, <1>3, <1>6
<1> QED BY <1>3, <1>4, <1>5, <1>6, <1>7, <1>8 DEF Resaved

LEMMA AtMostOne == \A n \in Nat \ {0} : n <= 1 => n = 1
OBVIOUS

LEMMA OneElement ==
  ASSUME NEW S, NEW seq \in Seq(S), Len(seq) <= 1
  PROVE  seq # <<>> => Len(seq) = 1 /\ seq[1] \in S
<1>1. seq # <<>> => Len(seq) \in Nat \ {0}  BY EmptySeq
<1>2. Len(seq) \in Nat \ {0} => Len(seq) = 1  BY AtMostOne, Zenon
<1>3. Len(seq) = 1 => seq[1] \in S  BY ElementOfSeq
<1> QED BY <1>1, <1>2, <1>3

(* Saving the removed file that is in the editor.                           *)
LooseSaved(s) == [s EXCEPT !.loose[1].file.saved = s.loose[1].file.text]
LEMMA LooseSavedIs ==
  ASSUME NEW s \in Window, EditorOK(s), s.loose # <<>>
  PROVE  /\ Resaved(s, LooseSaved(s)) /\ EditorOK(LooseSaved(s))
         /\ s.loose[1].file \in FileType
<1>1. s.loose \in Seq([file : FileType, fileId : Nat]) /\ s.files \in Seq(FileType)  BY DEF Window
<1>2. Len(s.loose) = 1
  <2>1. Len(s.loose) <= 1  BY DEF EditorOK
  <2> QED BY <1>1, <2>1, OneElement
<1>3. s.loose[1] \in [file : FileType, fileId : Nat]
  <2>1. Len(s.loose) <= 1  BY DEF EditorOK
  <2> QED BY <1>1, <2>1, OneElement
<1>4. s.loose[1].file \in FileType  BY <1>3
<1> DEFINE g == [s.loose[1].file EXCEPT !.saved = s.loose[1].file.text]
           x == [s.loose[1] EXCEPT !.file = g]
           loose == [s.loose EXCEPT ![1] = x]
           t == [s EXCEPT !.loose = loose]
<1>5. g \in FileType  BY <1>4 DEF FileType
<1> HIDE DEF g
<1>6. x \in [file : FileType, fileId : Nat]  BY <1>3, <1>5
<1> HIDE DEF x
<1>7. loose \in Seq([file : FileType, fileId : Nat]) /\ Len(loose) = 1  BY <1>1, <1>2, <1>6
<1>13. loose # <<>>  BY <1>7, EmptySeq
<1> HIDE DEF loose
<1>8. t \in Window  BY <1>7 DEF Window
<1>9. t.manifestDirty = s.manifestDirty  BY DEF Window
<1>10. /\ t.root = s.root /\ t.active = s.active /\ t.files = s.files
       /\ t.selected = s.selected /\ t.loose = loose
  BY DEF Window
<1>11. LooseSaved(s) = t  BY DEF LooseSaved, loose, x, g
<1> HIDE DEF t
<1>12. EditorOK(t)
  <2>1. t.loose # <<>> /\ Len(t.loose) = 1  BY <1>7, <1>10, <1>13
  <2>2. s.active = 0  BY DEF EditorOK
  <2> QED BY <1>10, <2>1, <2>2 DEF EditorOK
<1> QED BY <1>1, <1>4, <1>8, <1>9, <1>10, <1>11, <1>12 DEF Resaved

(* No file disappears and no manifest changes.                              *)
Follows(d, e) ==
  /\ e \in Disks
  /\ \A x \in Dirs : e[x].manifest = d[x].manifest
  /\ \A x \in Dirs, n \in Names : d[x].text[n] # Absent => e[x].text[n] # Absent

LEMMA TextSetFollows ==
  ASSUME NEW d, NEW dir, NEW name, NEW text \in Texts, NEW e, TextSet(d, dir, name, text, e)
  PROVE  Follows(d, e)
<1>1. text # Absent  BY WorkspaceAssumption
<1> QED BY <1>1 DEF TextSet, Follows

LEMMA ResavedKeeps ==
  ASSUME NEW s, NEW d, Good(s, d), NEW t, Resaved(s, t), EditorOK(t), NEW e,
         Follows(d, e)
  PROVE  Sound(t, e) /\ Carries(s, t) /\ (Flawless /\ Settled(t, e) => Whole(t, e))
<1>1. Sound(t, e) /\ (Whole(s, d) /\ Settled(t, e) => Whole(t, e))
  BY SoundKept DEF Good, Resaved, Follows
<1>2. Carries(s, t)  BY DEF Carries, Resaved
<1> QED BY <1>1, <1>2 DEF Good

LEMMA SaveActiveHere ==
  ASSUME NEW s, NEW d, Good(s, d), s.root # None,
         NEW f, f = IF s.loose # <<>> THEN s.loose[1].file ELSE s.files[s.active],
         NEW t, t = IF s.loose # <<>> THEN LooseSaved(s) ELSE FileSaved(s, s.active),
         NEW e, e = Written(d, s.root, f.name, f.text)
  PROVE  Sound(t, e) /\ t.root = s.root /\ Carries(s, t) /\ (Flawless => Whole(t, e))
<1>1. s \in Window /\ ProjectOK(s.files) /\ EditorOK(s) /\ d \in Disks
  BY DEF Good, Sound, Shape, DiskOK
<1>2. s.root \in Dirs /\ s.files \in Seq(FileType)  BY <1>1 DEF Window
<1>3. f \in FileType /\ Resaved(s, t) /\ EditorOK(t)
  <2>1. CASE s.loose # <<>>  BY <1>1, <2>1, LooseSavedIs
  <2>2. CASE s.loose = <<>>
    <3>1. s.active \in DOMAIN s.files  BY <1>1, <1>2, <2>2 DEF EditorOK
    <3>2. /\ Resaved(s, FileSaved(s, s.active)) /\ FileSaved(s, s.active).loose = s.loose
      BY <1>1, <3>1, FileSavedIs
    <3>3. Len(t.files) = Len(s.files)  BY <1>2, <2>2, <3>2 DEF Resaved
    <3>4. EditorOK(t)  BY <1>1, <2>2, <3>2, <3>3 DEF Resaved, EditorOK
    <3> QED BY <1>2, <2>2, <3>1, <3>2, <3>4, NamesOf
  <2> QED BY <2>1, <2>2
<1>4. f.name \in Names /\ f.text \in Texts  BY <1>3 DEF FileType
<1>5. TextSet(d, s.root, f.name, f.text, e)  BY <1>1, <1>2, <1>4, WrittenDisk
<1>6. Sound(t, e) /\ Carries(s, t) /\ (Flawless /\ Settled(t, e) => Whole(t, e))
  <2>1. Follows(d, e)  BY <1>4, <1>5, TextSetFollows
  <2> QED BY <1>3, <2>1, ResavedKeeps
<1>7. ASSUME Flawless PROVE Settled(t, e)
  <2>1. s.loose = <<>> /\ \A i \in DOMAIN s.files : d[s.root].text[s.files[i].name] = s.files[i].saved
    BY <1>7 DEF Good, Whole, Settled
  <2>2. s.active \in DOMAIN s.files  BY <1>1, <1>2, <2>1 DEF EditorOK
  <2>3. /\ t.loose = <<>> /\ f = s.files[s.active]
        /\ \A j \in DOMAIN s.files : t.files[j].saved =
              IF j = s.active THEN s.files[s.active].text ELSE s.files[j].saved
    BY <1>1, <2>1, <2>2, FileSavedIs
  <2>4. ASSUME NEW j \in DOMAIN s.files
        PROVE  e[s.root].text[s.files[j].name] = t.files[j].saved
    <3>1. s.files[j].name \in Names  BY <1>2, NamesOf
    <3>2. s.files[j].name = f.name <=> j = s.active  BY <1>1, <2>2, <2>3 DEF ProjectOK
    <3>3. e[s.root].text[s.files[j].name] =
            IF s.files[j].name = f.name THEN f.text ELSE d[s.root].text[s.files[j].name]
      BY <1>2, <1>5, <3>1 DEF TextSet
    <3> QED BY <2>1, <2>3, <3>2, <3>3
  <2> QED BY <1>3, <2>3, <2>4 DEF Settled, Resaved
<1> QED BY <1>3, <1>6, <1>7 DEF Resaved

(* All texts of the project are in the files of one directory.              *)
Filed(s, d) ==
  \E dir \in Dirs : \A i \in DOMAIN s.files : d[dir].text[s.files[i].name] = s.files[i].text

LEMMA SaveActiveFine ==
  ASSUME NEW s, NEW d, Good(s, d), NEW p \in SaveActive(s, d)
  PROVE  Fine(p) /\ (p.how # "crash" => Carries(s, p.studio))
<1> DEFINE f(t) == IF t.loose # <<>> THEN t.loose[1].file ELSE t.files[t.active]
           e(t, x) == Written(x, t.root, f(t).name, f(t).text)
           u(t) == IF t.loose # <<>> THEN LooseSaved(t) ELSE FileSaved(t, t.active)
<1>1. PICK o \in Ensure(s, d) :
        p \in IF o.how = "ok"
              THEN Thrown(o.studio, o.disk) \cup Persist(u(o.studio), e(o.studio, o.disk)) ELSE {o}
  BY DEF SaveActive, Then, LooseSaved
<1>2. /\ Fine(o) /\ (o.how # "crash" => Carries(s, o.studio))
      /\ o.how = "ok" => Good(o.studio, o.disk) /\ o.studio.root # None
  BY EnsureFine
<1>3. CASE o.how # "ok"  BY <1>1, <1>2, <1>3
<1>4. CASE o.how = "ok" /\ p \in Thrown(o.studio, o.disk)
  BY <1>2, <1>4, FaultFine DEF Thrown, Good
<1>5. CASE o.how = "ok" /\ p \in Persist(u(o.studio), e(o.studio, o.disk))
  <2> DEFINE t == o.studio
             x == o.disk
             v == u(t)
             w == e(t, x)
  <2>1. /\ Sound(v, w) /\ v.root = t.root /\ Carries(t, v)
        /\ Flawless => Whole(v, w)
    BY <1>2, <1>5, SaveActiveHere
  <2>2. Good(t, x) /\ t.root # None /\ Carries(s, t)  BY <1>2, <1>5
  <2>3. p \in Persist(v, w)  BY <1>5
  <2> HIDE DEF t, x, v, w, u, e, f
  <2>4. Fine(p) /\ Carries(v, p.studio)
    BY <2>1, <2>2, <2>3, PersistFine DEF Whole
  <2> QED BY <2>1, <2>2, <2>4, CarriesOn
<1> QED BY <1>1, <1>3, <1>4, <1>5

(* Saving the first k files.                                                *)
FirstSaved(s, k) ==
  [s EXCEPT !.files = [i \in DOMAIN s.files |->
     IF i <= k THEN File(s.files[i].name, s.files[i].text) ELSE s.files[i]]]

LEMMA RewrittenFollows ==
  ASSUME NEW d, NEW dir \in Dirs, NEW files \in Seq(FileType), NEW k \in 0..Len(files), NEW e,
         Rewritten(d, dir, files, k, e)
  PROVE  Follows(d, e)
<1>1. \A i \in 1..k : files[i].text # Absent
  <2>1. \A i \in 1..k : i \in DOMAIN files  OBVIOUS
  <2> QED BY <2>1, NamesOf, WorkspaceAssumption
<1>2. \A x \in Dirs, n \in Names : d[x].text[n] # Absent => e[x].text[n] # Absent
  <2> SUFFICES ASSUME NEW x \in Dirs, NEW n \in Names, d[x].text[n] # Absent
               PROVE  e[x].text[n] # Absent
    OBVIOUS
  <2>1. CASE x # dir  BY <2>1 DEF Rewritten
  <2>2. CASE x = dir /\ \A i \in 1..k : files[i].name # n  BY <2>2 DEF Rewritten
  <2>3. CASE x = dir /\ \E i \in 1..k : files[i].name = n  BY <1>1, <2>3 DEF Rewritten
  <2> QED BY <2>1, <2>2, <2>3
<1> QED BY <1>2 DEF Rewritten, Follows

LEMMA FirstSavedIs ==
  ASSUME NEW s \in Window, EditorOK(s), NEW k \in 0..Len(s.files)
  PROVE  /\ Resaved(s, FirstSaved(s, k)) /\ EditorOK(FirstSaved(s, k))
         /\ FirstSaved(s, k).loose = s.loose
         /\ \A j \in 1..k : FirstSaved(s, k).files[j].saved = s.files[j].text
<1> DEFINE files == [i \in DOMAIN s.files |->
                       IF i <= k THEN File(s.files[i].name, s.files[i].text) ELSE s.files[i]]
           t == [s EXCEPT !.files = files]
<1>1. s.files \in Seq(FileType)  BY DEF Window
<1>2. \A i \in DOMAIN s.files : s.files[i] \in FileType  BY <1>1
<1>3. \A i \in DOMAIN s.files : /\ File(s.files[i].name, s.files[i].text) \in FileType
                                /\ File(s.files[i].name, s.files[i].text).name = s.files[i].name
                                /\ File(s.files[i].name, s.files[i].text).text = s.files[i].text
                                /\ File(s.files[i].name, s.files[i].text).saved = s.files[i].text
  BY <1>2 DEF File, FileType
<1>4. DOMAIN s.files = 1..Len(s.files) /\ Len(s.files) \in Nat  BY <1>1
<1>5. /\ files \in Seq(FileType) /\ DOMAIN files = DOMAIN s.files
      /\ \A i \in DOMAIN s.files : files[i].name = s.files[i].name /\ files[i].text = s.files[i].text
      /\ \A i \in 1..k : files[i].saved = s.files[i].text
  BY <1>2, <1>3, <1>4
<1> HIDE DEF files
<1>6. t \in Window  BY <1>5 DEF Window
<1>7. t.manifestDirty = s.manifestDirty  BY DEF Window
<1>8. /\ t.root = s.root /\ t.active = s.active /\ t.files = files
      /\ t.selected = s.selected /\ t.loose = s.loose
  BY DEF Window
<1>9. FirstSaved(s, k) = t  BY DEF FirstSaved, files
<1> HIDE DEF t
<1>10. Len(t.files) = Len(s.files)  BY <1>1, <1>5, <1>8
<1>11. EditorOK(t)  BY <1>8, <1>10 DEF EditorOK
<1> QED BY <1>5, <1>6, <1>7, <1>8, <1>9, <1>11 DEF Resaved

LEMMA SaveAllHere ==
  ASSUME NEW s, NEW d, Good(s, d), s.root # None, NEW k \in 0..Len(s.files),
         NEW t, t = FirstSaved(s, k), NEW e, e = WrittenUpTo(d, s.root, s.files, k)
  PROVE  /\ Sound(t, e) /\ t.root = s.root /\ Carries(s, t)
         /\ Flawless /\ k = Len(s.files) => Whole(t, e)
         /\ k = Len(s.files) => Filed(s, e)
<1>1. s \in Window /\ ProjectOK(s.files) /\ EditorOK(s) /\ d \in Disks
  BY DEF Good, Sound, Shape, DiskOK
<1>2. s.root \in Dirs /\ s.files \in Seq(FileType) /\ DOMAIN s.files = 1..Len(s.files)
  BY <1>1 DEF Window
<1>3. Rewritten(d, s.root, s.files, k, e)  BY <1>1, <1>2, WrittenUpToDisk DEF ProjectOK
<1>4. Follows(d, e)  BY <1>2, <1>3, RewrittenFollows
<1>5. /\ Resaved(s, t) /\ EditorOK(t) /\ t.loose = s.loose
      /\ \A j \in 1..k : t.files[j].saved = s.files[j].text
  BY <1>1, FirstSavedIs
<1>6. Sound(t, e) /\ Carries(s, t) /\ (Flawless /\ Settled(t, e) => Whole(t, e))
  BY <1>4, <1>5, ResavedKeeps
<1>7. k = Len(s.files) => \A i \in DOMAIN s.files : e[s.root].text[s.files[i].name] = s.files[i].text
  BY <1>2, <1>3 DEF Rewritten
<1>8. ASSUME Flawless, k = Len(s.files) PROVE Settled(t, e)
  <2>1. s.loose = <<>>  BY <1>8 DEF Good, Whole, Settled
  <2> QED BY <1>2, <1>5, <1>7, <1>8, <2>1 DEF Settled, Resaved
<1>9. k = Len(s.files) => Filed(s, e)  BY <1>2, <1>7 DEF Filed
<1> QED BY <1>5, <1>6, <1>8, <1>9 DEF Resaved

LEMMA FiledOn ==
  ASSUME NEW s, NEW t, NEW d, Carries(s, t), Filed(t, d)
  PROVE  Filed(s, d)
BY DEF Filed, Carries

LEMMA FiledKept ==
  ASSUME NEW s, NEW d, NEW e, Filed(s, d), \A x \in Dirs : e[x].text = d[x].text
  PROVE  Filed(s, e)
BY DEF Filed

LEMMA SaveAllFine ==
  ASSUME NEW s, NEW d, Good(s, d), NEW p \in SaveAll(s, d)
  PROVE  /\ Fine(p) /\ (p.how # "crash" => Carries(s, p.studio))
         /\ p.how = "ok" => Filed(s, p.disk)
<1> DEFINE e(t, x, k) == WrittenUpTo(x, t.root, t.files, k)
           n(t) == Len(t.files)
<1>1. PICK o \in Ensure(s, d) :
        p \in IF o.how = "ok"
              THEN (UNION {Thrown(FirstSaved(o.studio, k), e(o.studio, o.disk, k)) :
                             k \in 0..n(o.studio)})
                   \cup Persist(FirstSaved(o.studio, n(o.studio)),
                                e(o.studio, o.disk, n(o.studio)))
              ELSE {o}
  BY DEF SaveAll, Then, FirstSaved
<1>2. /\ Fine(o) /\ (o.how # "crash" => Carries(s, o.studio))
      /\ o.how = "ok" => Good(o.studio, o.disk) /\ o.studio.root # None
  BY EnsureFine
<1>3. CASE o.how # "ok"  BY <1>1, <1>2, <1>3
<1>4. CASE o.how = "ok"
  <2> DEFINE t == o.studio
             x == o.disk
  <2>1. Good(t, x) /\ t.root # None /\ Carries(s, t)  BY <1>2, <1>4
  <2>2. n(t) \in 0..n(t)  BY <2>1 DEF Good, Sound, Shape, Window
  <2>3. \A k \in 0..n(t) :
          /\ Sound(FirstSaved(t, k), e(t, x, k)) /\ FirstSaved(t, k).root = t.root
          /\ Carries(t, FirstSaved(t, k))
          /\ Flawless /\ k = n(t) => Whole(FirstSaved(t, k), e(t, x, k))
          /\ k = n(t) => Filed(t, e(t, x, k))
    BY <2>1, SaveAllHere
  <2>4. CASE \E k \in 0..n(t) : p \in Thrown(FirstSaved(t, k), e(t, x, k))
    <3>1. PICK k \in 0..n(t) : p \in Thrown(FirstSaved(t, k), e(t, x, k))  BY <2>4
    <3>2. p \in Fault(FirstSaved(t, k), e(t, x, k), "error")  BY <3>1 DEF Thrown
    <3>3. Fine(p) /\ p.how = "error" /\ p.studio = FirstSaved(t, k)
      BY <2>3, <3>2, FaultFine
    <3>4. Carries(s, p.studio)  BY <2>1, <2>3, <3>3, CarriesOn
    <3> QED BY <3>3, <3>4
  <2>5. CASE p \in Persist(FirstSaved(t, n(t)), e(t, x, n(t)))
    <3> DEFINE v == FirstSaved(t, n(t))
               w == e(t, x, n(t))
    <3>1. /\ Sound(v, w) /\ v.root = t.root /\ Carries(t, v)
          /\ Flawless => Whole(v, w)
          /\ Filed(t, w)
      BY <2>2, <2>3
    <3>2. p \in Persist(v, w)  BY <2>5
    <3> HIDE DEF t, x, v, w, e, n
    <3>3. Fine(p) /\ Carries(v, p.studio) /\ \A y \in Dirs : p.disk[y].text = w[y].text
      BY <2>1, <3>1, <3>2, PersistFine DEF Whole
    <3>4. Filed(s, p.disk)  BY <2>1, <3>1, <3>3, FiledOn, FiledKept
    <3> QED BY <2>1, <3>1, <3>3, <3>4, CarriesOn
  <2>6. \/ \E k \in 0..n(t) : p \in Thrown(FirstSaved(t, k), e(t, x, k))
        \/ p \in Persist(FirstSaved(t, n(t)), e(t, x, n(t)))
    <3> DEFINE F == UNION {Thrown(FirstSaved(t, k), e(t, x, k)) : k \in 0..n(t)}
               P == Persist(FirstSaved(t, n(t)), e(t, x, n(t)))
    <3>1. p \in F \cup P  BY <1>1, <1>4
    <3>2. p \in F => \E k \in 0..n(t) : p \in Thrown(FirstSaved(t, k), e(t, x, k))
      OBVIOUS
    <3> HIDE DEF F
    <3> QED BY <3>1, <3>2
  <2> QED BY <2>4, <2>5, <2>6
<1> QED BY <1>3, <1>4

(* What AddFile writes, and the window that lists the file.                 *)
FileAdded(d, dir, name, text) ==
  IF Exists(d, dir, name) THEN d ELSE Written(d, dir, name, text)
FileListed(s, name, text) ==
  [s EXCEPT !.files = Append(@, File(name, text)), !.manifestDirty = TRUE]

LEMMA AddFileHere ==
  ASSUME NEW s, NEW d, Good(s, d), s.root # None, NEW name \in Names,
         ~(Len(s.files) >= MaxFiles), name \notin ToSet(Paths(s)),
         NEW text, text = IF Exists(d, s.root, name) THEN d[s.root].text[name] ELSE NewText,
         NEW e, e = FileAdded(d, s.root, name, text), NEW t, t = FileListed(s, name, text)
  PROVE  /\ Sound(t, e) /\ t.root = s.root /\ Carries(s, t) /\ Len(t.files) \in DOMAIN t.files
         /\ Flawless => Whole(t, e)
<1>1. s \in Window /\ ProjectOK(s.files) /\ EditorOK(s) /\ d \in Disks
  BY DEF Good, Sound, Shape, DiskOK
<1>2. s.root \in Dirs /\ s.files \in Seq(FileType) /\ DOMAIN s.files = 1..Len(s.files)
      /\ Len(s.files) \in Nat
  BY <1>1 DEF Window
<1>3. text \in Texts
  <2>1. d[s.root].text[name] \in Texts \cup {Absent}  BY <1>1, <1>2 DEF Disks
  <2> QED BY <2>1, WorkspaceAssumption DEF Exists
<1>4. /\ e \in Disks /\ \A x \in Dirs : e[x].manifest = d[x].manifest
      /\ \A x \in Dirs, n \in Names : d[x].text[n] # Absent => e[x].text[n] = d[x].text[n]
      /\ e[s.root].text[name] = text
  <2>1. CASE Exists(d, s.root, name)  BY <1>1, <2>1 DEF FileAdded
  <2>2. CASE ~Exists(d, s.root, name)
    <3>1. TextSet(d, s.root, name, text, e)  BY <1>1, <1>2, <1>3, <2>2, WrittenDisk DEF FileAdded
    <3>2. e \in Disks /\ \A x \in Dirs : e[x].manifest = d[x].manifest  BY <3>1 DEF TextSet
    <3>3. e[s.root].text[name] = text  BY <1>2, <3>1 DEF TextSet
    <3>4. ASSUME NEW x \in Dirs, NEW n \in Names, d[x].text[n] # Absent
          PROVE  e[x].text[n] = d[x].text[n]
      BY <2>2, <3>1, <3>4 DEF TextSet, Exists
    <3> QED BY <3>2, <3>3, <3>4
  <2> QED BY <2>1, <2>2
<1>5. Sound(s, e) /\ (Flawless => Whole(s, e))  BY <1>4, SoundGrows DEF Good
<1> DEFINE f == File(name, text)
           files == Append(s.files, f)
<1>6. f \in FileType /\ f.name = name /\ f.text = text /\ f.saved = text
  BY <1>3 DEF File, FileType
<1> HIDE DEF f
<1>7. /\ files \in Seq(FileType) /\ Len(files) = Len(s.files) + 1
      /\ files[Len(s.files) + 1] = f /\ \A i \in DOMAIN s.files : files[i] = s.files[i]
      /\ DOMAIN files = 1..(Len(s.files) + 1)
  BY <1>2, <1>6
<1>8. t = [s EXCEPT !.files = files, !.manifestDirty = TRUE]  BY DEF f, FileListed
<1> HIDE DEF files
<1>9. t \in Window
  <2>1. t.files \in Seq(FileType)  BY <1>1, <1>7, <1>8 DEF Window
  <2> QED BY <1>1, <1>7, <1>8, <2>1 DEF Window
<1>10. t.manifestDirty = TRUE  BY <1>1, <1>8 DEF Window
<1>11. /\ t.root = s.root /\ t.active = s.active /\ t.selected = s.selected
       /\ t.loose = s.loose /\ t.files = files
  BY <1>1, <1>8 DEF Window
<1>12. \A i \in DOMAIN s.files : s.files[i].name # name
  BY <1>1, PathsOf DEF ToSet
<1>13. \A i \in DOMAIN files : i \in DOMAIN s.files \/ i = Len(s.files) + 1
  BY <1>2, <1>7
<1>14. ProjectOK(files)
  <2>1. Len(files) \in 1..MaxFiles  BY <1>2, <1>7, WorkspaceAssumption
  <2>2. ASSUME NEW i \in DOMAIN files, NEW j \in DOMAIN files, files[i].name = files[j].name
        PROVE  i = j
    BY <1>1, <1>6, <1>7, <1>12, <1>13, <2>2 DEF ProjectOK
  <2>3. \E i \in DOMAIN files : files[i].name \in Sources
    BY <1>1, <1>2, <1>7 DEF ProjectOK
  <2> QED BY <2>1, <2>2, <2>3 DEF ProjectOK
<1>15. EditorOK(t)  BY <1>1, <1>2, <1>7, <1>11 DEF EditorOK
<1>16. OnDisk(t, e)
  <2>1. ASSUME NEW i \in DOMAIN files PROVE e[s.root].text[files[i].name] # Absent
    <3>1. CASE i \in DOMAIN s.files  BY <1>5, <1>7, <3>1 DEF Sound, OnDisk, Exists
    <3>2. CASE i = Len(s.files) + 1  BY <1>3, <1>4, <1>6, <1>7, <3>2, WorkspaceAssumption
    <3> QED BY <1>13, <3>1, <3>2
  <2> QED BY <1>11, <2>1 DEF OnDisk, Exists
<1>17. Sound(t, e)
  BY <1>5, <1>9, <1>10, <1>11, <1>14, <1>15, <1>16 DEF Sound, Shape, Listed
<1>18. ASSUME Flawless PROVE Whole(t, e)
  <2>1. ASSUME NEW i \in DOMAIN files PROVE e[s.root].text[files[i].name] = files[i].saved
    <3>1. CASE i \in DOMAIN s.files  BY <1>5, <1>7, <1>18, <3>1 DEF Whole, Settled
    <3>2. CASE i = Len(s.files) + 1  BY <1>4, <1>6, <1>7, <3>2
    <3> QED BY <1>13, <3>1, <3>2
  <2>2. s.loose = <<>>  BY <1>5, <1>18 DEF Whole, Settled
  <2>3. Settled(t, e)
    <3>1. t.loose = <<>>  BY <1>11, <2>2
    <3>2. ASSUME NEW i \in DOMAIN t.files
          PROVE  e[t.root].text[t.files[i].name] = t.files[i].saved
      <4>1. t.files = files /\ t.root = s.root  BY <1>11
      <4>2. i \in DOMAIN files  BY <4>1
      <4>3. e[s.root].text[files[i].name] = files[i].saved  BY <2>1, <4>2
      <4> QED BY <4>1, <4>3
    <3> QED BY <3>1, <3>2 DEF Settled
  <2> QED BY <1>5, <1>18, <2>3 DEF Whole
<1>19. Carries(s, t)  BY <1>2, <1>7, <1>11 DEF Carries
<1>20. Len(t.files) \in DOMAIN t.files  BY <1>2, <1>7, <1>11
<1> QED BY <1>11, <1>17, <1>18, <1>19, <1>20

LEMMA AddFileFine ==
  ASSUME NEW s, NEW d, Good(s, d), NEW name \in Names, NEW p \in AddFile(s, d, name)
  PROVE  Fine(p) /\ (p.how # "crash" => Carries(s, p.studio))
<1> DEFINE there(o) == Exists(o.disk, o.studio.root, name)
           text(o) == IF there(o) THEN o.disk[o.studio.root].text[name] ELSE NewText
           e(o) == FileAdded(o.disk, o.studio.root, name, text(o))
           u(o) == FileListed(o.studio, name, text(o))
           full(o) == Len(o.studio.files) >= MaxFiles \/ name \in ToSet(Paths(o.studio))
<1>1. PICK o \in Ensure(s, d) :
        p \in IF o.how = "ok"
              THEN IF full(o) THEN {Outcome(o.studio, o.disk, "error")}
                   ELSE Thrown(o.studio, o.disk)
                        \cup Then(Persist(u(o), e(o)), LAMBDA q :
                               {Outcome(Opened(q.studio, Len(u(o).files)), q.disk, "ok")})
              ELSE {o}
  BY DEF AddFile, Then, FileAdded, FileListed
<1>2. /\ Fine(o) /\ (o.how # "crash" => Carries(s, o.studio))
      /\ o.how = "ok" => Good(o.studio, o.disk) /\ o.studio.root # None
  BY EnsureFine
<1>3. CASE o.how # "ok"  BY <1>1, <1>2, <1>3
<1>4. CASE o.how = "ok" /\ p = Outcome(o.studio, o.disk, "error")
  BY <1>2, <1>4, OutcomeFine
<1>5. CASE o.how = "ok" /\ p \in Thrown(o.studio, o.disk)
  BY <1>2, <1>5, FaultFine DEF Thrown, Good
<1>6. CASE o.how = "ok" /\ ~full(o)
           /\ p \in Then(Persist(u(o), e(o)), LAMBDA q :
                      {Outcome(Opened(q.studio, Len(u(o).files)), q.disk, "ok")})
  <2>1. PICK q \in Persist(u(o), e(o)) :
          p \in IF q.how = "ok" THEN {Outcome(Opened(q.studio, Len(u(o).files)), q.disk, "ok")}
                ELSE {q}
    BY <1>6 DEF Then
  <2> DEFINE t == o.studio
             x == o.disk
             v == u(o)
             w == e(o)
  <2>2. Good(t, x) /\ t.root # None /\ Carries(s, t)  BY <1>2, <1>6
  <2>3. /\ Sound(v, w) /\ v.root = t.root /\ Carries(t, v) /\ Len(v.files) \in DOMAIN v.files
        /\ Flawless => Whole(v, w)
    <3>1. ~(Len(t.files) >= MaxFiles) /\ name \notin ToSet(Paths(t))  BY <1>6
    <3> DEFINE r == text(o)
    <3>2. r = IF Exists(x, t.root, name) THEN x[t.root].text[name] ELSE NewText
      OBVIOUS
    <3>3. w = FileAdded(x, t.root, name, r)  OBVIOUS
    <3>4. v = FileListed(t, name, r)  OBVIOUS
    <3> HIDE DEF t, x, v, w, r, u, e, there, text, full
    <3> QED BY <2>2, <3>1, <3>2, <3>3, <3>4, AddFileHere
  <2>4. q \in Persist(v, w)
        /\ p \in IF q.how = "ok" THEN {Outcome(Opened(q.studio, Len(v.files)), q.disk, "ok")}
                 ELSE {q}
    BY <2>1
  <2> HIDE DEF t, x, v, w, u, e, there, text, full
  <2>5. /\ Fine(q) /\ Carries(v, q.studio) /\ q.how \in {"ok", "error"}
        /\ q.how = "ok" => q.studio = Clean(v)
    BY <2>2, <2>3, <2>4, PersistFine DEF Whole
  <2>6. Carries(s, q.studio)  BY <2>2, <2>3, <2>5, CarriesOn
  <2>7. CASE q.how # "ok"  BY <2>4, <2>5, <2>6, <2>7
  <2>8. CASE q.how = "ok"
    <3>1. Good(q.studio, q.disk)  BY <2>5, <2>8, FineGood
    <3>2. q.studio.files = v.files  BY <2>3, <2>5, <2>8 DEF Clean, Sound, Shape, Window
    <3>3. /\ Good(Opened(q.studio, Len(v.files)), q.disk)
          /\ Carries(q.studio, Opened(q.studio, Len(v.files)))
      BY <2>3, <3>1, <3>2, OpenedGood
    <3>4. p = Outcome(Opened(q.studio, Len(v.files)), q.disk, "ok")  BY <2>4, <2>8
    <3> QED BY <2>6, <3>3, <3>4, OutcomeFine, CarriesOn
  <2> QED BY <2>7, <2>8
<1> QED BY <1>1, <1>3, <1>4, <1>5, <1>6

-----------------------------------------------------------------------------
(* Renaming *)

(* Every text of s is still in t, under its name unless t has no such name. *)
Kept(s, t) ==
  \A i \in DOMAIN s.files : \E j \in DOMAIN t.files :
    /\ t.files[j].text = s.files[i].text
    /\ t.files[j].name = s.files[i].name \/ s.files[i].name \notin ToSet(Paths(t))

LEMMA CarriesKeeps ==
  ASSUME NEW s, NEW t, Carries(s, t)
  PROVE  Kept(s, t)
BY DEF Carries, Kept

(* A project with another translation unit keeps one without this file.     *)
LEMMA OtherSource ==
  ASSUME NEW s \in Window, ProjectOK(s.files), NEW i \in DOMAIN s.files,
         ~LastSource(s, s.files[i].name)
  PROVE  \E j \in DOMAIN s.files : j # i /\ s.files[j].name \in Sources
<1> DEFINE units == {j \in DOMAIN s.files : s.files[j].name \in Sources}
<1>1. s.files \in Seq(FileType) /\ DOMAIN s.files = 1..Len(s.files) /\ Len(s.files) \in Nat
  BY DEF Window
<1>2. CASE s.files[i].name \notin Sources  BY <1>2 DEF ProjectOK
<1>3. CASE s.files[i].name \in Sources
  <2>1. ~(Cardinality(units) <= 1)  BY <1>3 DEF LastSource, SourceCount
  <2>2. units # {i}
    <3>1. Cardinality({i}) = 1  BY FS_Singleton
    <3>2. Cardinality({i}) <= 1  BY <3>1
    <3> HIDE DEF units
    <3> QED BY <2>1, <3>2
  <2>3. i \in units  BY <1>3
  <2> QED BY <2>2, <2>3
<1> QED BY <1>2, <1>3

Moved(d, dir, from, to) ==
  [d EXCEPT ![dir].text = [@ EXCEPT ![to] = d[dir].text[from], ![from] = Absent]]
MovedTo(d, dir, from, to, e) ==
  /\ e \in Disks
  /\ \A x \in Dirs : e[x].manifest = d[x].manifest
  /\ \A x \in Dirs \ {dir} : e[x].text = d[x].text
  /\ e[dir].text[to] = d[dir].text[from]
  /\ \A n \in Names \ {from, to} : e[dir].text[n] = d[dir].text[n]

LEMMA MovedDisk ==
  ASSUME NEW d \in Disks, NEW dir \in Dirs, NEW from \in Names, NEW to \in Names, from # to
  PROVE  MovedTo(d, dir, from, to, Moved(d, dir, from, to))
<1> DEFINE text == [d[dir].text EXCEPT ![to] = d[dir].text[from], ![from] = Absent]
           e == [d EXCEPT ![dir].text = text]
<1>1. d[dir].text \in [Names -> Texts \cup {Absent}]  BY DEF Disks
<1>2. /\ text \in [Names -> Texts \cup {Absent}] /\ text[to] = d[dir].text[from]
      /\ \A n \in Names \ {from, to} : text[n] = d[dir].text[n]
  BY <1>1
<1>3. Moved(d, dir, from, to) = e  BY DEF Moved
<1> HIDE DEF text
<1>4. e \in Disks /\ \A x \in Dirs : e[x].manifest = d[x].manifest  BY <1>2 DEF Disks
<1>5. e[dir].text = text /\ \A x \in Dirs \ {dir} : e[x].text = d[x].text  BY <1>2 DEF Disks
<1> HIDE DEF e
<1> QED BY <1>2, <1>3, <1>4, <1>5 DEF MovedTo

(* The file's text is written first when it is unsaved.                     *)
FileWritten(s, d, i) ==
  IF Dirty(s.files[i]) THEN Written(d, s.root, s.files[i].name, s.files[i].text) ELSE d

LEMMA FileWrittenHere ==
  ASSUME NEW s, NEW d, Good(s, d), s.root # None, NEW i \in DOMAIN s.files,
         NEW t, t = FileSaved(s, i), NEW e, e = FileWritten(s, d, i)
  PROVE  Good(t, e) /\ Resaved(s, t)
<1>1. s \in Window /\ ProjectOK(s.files) /\ EditorOK(s) /\ d \in Disks
  BY DEF Good, Sound, Shape, DiskOK
<1>2. s.root \in Dirs /\ s.files \in Seq(FileType)  BY <1>1 DEF Window
<1>3. /\ Resaved(s, t) /\ t.loose = s.loose
      /\ \A j \in DOMAIN s.files :
           t.files[j].saved = IF j = i THEN s.files[i].text ELSE s.files[j].saved
  BY <1>1, FileSavedIs
<1>4. EditorOK(t)
  <2>1. Len(t.files) = Len(s.files)  BY <1>2, <1>3 DEF Resaved
  <2> QED BY <1>1, <1>3, <2>1 DEF Resaved, EditorOK
<1>5. s.files[i].name \in Names /\ s.files[i].text \in Texts  BY <1>2, NamesOf
<1>6. CASE ~Dirty(s.files[i])
  <2>1. e = d  BY <1>6 DEF FileWritten
  <2>2. Follows(d, e)  BY <1>1, <2>1 DEF Follows
  <2>3. Sound(t, e) /\ (Flawless /\ Settled(t, e) => Whole(t, e))
    BY <1>3, <1>4, <2>2, ResavedKeeps
  <2>4. s.files[i].text = s.files[i].saved  BY <1>6 DEF Dirty
  <2>5. ASSUME Flawless PROVE Settled(t, d)
    <3>1. s.loose = <<>> /\ \A j \in DOMAIN s.files : d[s.root].text[s.files[j].name] = s.files[j].saved
      BY <2>5 DEF Good, Whole, Settled
    <3> QED BY <1>3, <2>4, <3>1 DEF Settled, Resaved
  <2> QED BY <1>3, <2>1, <2>3, <2>5 DEF Good
<1>7. CASE Dirty(s.files[i])
  <2>1. TextSet(d, s.root, s.files[i].name, s.files[i].text, e)
    BY <1>1, <1>2, <1>5, <1>7, WrittenDisk DEF FileWritten
  <2>2. Follows(d, e)  BY <1>5, <2>1, TextSetFollows
  <2>3. Sound(t, e) /\ (Flawless /\ Settled(t, e) => Whole(t, e))
    BY <1>3, <1>4, <2>2, ResavedKeeps
  <2>4. ASSUME Flawless PROVE Settled(t, e)
    <3>1. s.loose = <<>> /\ \A j \in DOMAIN s.files : d[s.root].text[s.files[j].name] = s.files[j].saved
      BY <2>4 DEF Good, Whole, Settled
    <3>2. ASSUME NEW j \in DOMAIN s.files
          PROVE  e[s.root].text[s.files[j].name] = t.files[j].saved
      <4>1. s.files[j].name \in Names  BY <1>2, NamesOf
      <4>2. s.files[j].name = s.files[i].name <=> j = i  BY <1>1 DEF ProjectOK
      <4>3. e[s.root].text[s.files[j].name] =
              IF s.files[j].name = s.files[i].name THEN s.files[i].text
              ELSE d[s.root].text[s.files[j].name]
        BY <1>2, <2>1, <4>1 DEF TextSet
      <4> QED BY <1>3, <3>1, <4>2, <4>3
    <3> QED BY <1>3, <3>1, <3>2 DEF Settled, Resaved
  <2> QED BY <1>3, <2>3, <2>4 DEF Good
<1> QED BY <1>6, <1>7

Renamed(s, i, name) ==
  [s EXCEPT !.manifestDirty = TRUE, !.files = [@ EXCEPT ![i].name = name]]
RenamedTo(s, i, name, t) ==
  /\ t \in Window /\ t.root = s.root /\ t.active = s.active /\ t.selected = s.selected
  /\ t.manifestDirty = TRUE /\ t.loose = s.loose
  /\ t.files \in Seq(FileType) /\ DOMAIN t.files = DOMAIN s.files
  /\ t.files[i].name = name
  /\ \A j \in DOMAIN s.files \ {i} : t.files[j].name = s.files[j].name
  /\ \A j \in DOMAIN s.files :
       t.files[j].text = s.files[j].text /\ t.files[j].saved = s.files[j].saved

LEMMA RenamedIs ==
  ASSUME NEW s \in Window, NEW i \in DOMAIN s.files, NEW name \in Names
  PROVE  RenamedTo(s, i, name, Renamed(s, i, name))
<1> DEFINE g == [s.files[i] EXCEPT !.name = name]
           files == [s.files EXCEPT ![i] = g]
           t == [s EXCEPT !.manifestDirty = TRUE, !.files = files]
<1>1. s.files \in Seq(FileType) /\ s.files[i] \in FileType  BY DEF Window
<1>2. g \in FileType /\ g.name = name /\ g.text = s.files[i].text
      /\ g.saved = s.files[i].saved
  BY <1>1 DEF FileType
<1> HIDE DEF g
<1>3. /\ files \in Seq(FileType) /\ DOMAIN files = DOMAIN s.files /\ files[i] = g
      /\ \A j \in DOMAIN s.files \ {i} : files[j] = s.files[j]
  BY <1>1, <1>2
<1> HIDE DEF files
<1>4. t \in Window  BY <1>3 DEF Window
<1>5. t.manifestDirty = TRUE  BY DEF Window
<1>6. /\ t.root = s.root /\ t.active = s.active /\ t.files = files
      /\ t.selected = s.selected /\ t.loose = s.loose
  BY DEF Window
<1>7. Renamed(s, i, name) = t  BY DEF Renamed, files, g
<1> HIDE DEF t
<1>8. \A j \in DOMAIN s.files :
        t.files[j].text = s.files[j].text /\ t.files[j].saved = s.files[j].saved
  BY <1>2, <1>3, <1>6
<1> QED BY <1>2, <1>3, <1>4, <1>5, <1>6, <1>7, <1>8 DEF RenamedTo

LEMMA RenameMoved ==
  ASSUME NEW s, NEW d, Good(s, d), s.root # None, NEW i \in DOMAIN s.files,
         NEW name \in Names, name \notin ToSet(Paths(s)), Exists(d, s.root, s.files[i].name),
         name \in Sources \/ \E j \in DOMAIN s.files : j # i /\ s.files[j].name \in Sources,
         NEW t, t = Renamed(s, i, name), NEW e, e = Moved(d, s.root, s.files[i].name, name)
  PROVE  /\ Sound(t, e) /\ t.root = s.root /\ Kept(s, t)
         /\ Flawless => Settled(t, e) /\ \A dir \in Dirs \ {s.root} : OpenableAt(e, dir)
<1>1. s \in Window /\ ProjectOK(s.files) /\ EditorOK(s) /\ d \in Disks /\ DiskOK(d) /\ OnDisk(s, d)
  BY DEF Good, Sound, Shape, DiskOK
<1>2. s.root \in Dirs /\ s.files \in Seq(FileType)  BY <1>1 DEF Window
<1>3. \A j \in DOMAIN s.files : s.files[j].name # name
  BY <1>1, PathsOf DEF ToSet
<1>4. \A j \in DOMAIN s.files : s.files[j].name \in Names  BY <1>2, NamesOf
<1>5. RenamedTo(s, i, name, t)  BY <1>1, RenamedIs
<1>6. MovedTo(d, s.root, s.files[i].name, name, e)  BY <1>1, <1>2, <1>3, <1>4, MovedDisk
<1>7. Len(t.files) = Len(s.files)  BY <1>2, <1>5 DEF RenamedTo
<1>8. ProjectOK(t.files)
  <2>1. ASSUME NEW j \in DOMAIN t.files, NEW k \in DOMAIN t.files,
               t.files[j].name = t.files[k].name
        PROVE  j = k
    <3>1. j \in DOMAIN s.files /\ k \in DOMAIN s.files  BY <1>5 DEF RenamedTo
    <3>2. CASE j # i /\ k # i
      <4>1. s.files[j].name = s.files[k].name  BY <1>5, <2>1, <3>1, <3>2 DEF RenamedTo
      <4> QED BY <1>1, <3>1, <4>1 DEF ProjectOK
    <3>3. CASE j = i \/ k = i  BY <1>3, <1>5, <2>1, <3>1, <3>3 DEF RenamedTo
    <3> QED BY <3>2, <3>3
  <2>2. \E j \in DOMAIN t.files : t.files[j].name \in Sources
    BY <1>5 DEF RenamedTo
  <2> QED BY <1>1, <1>7, <2>1, <2>2 DEF ProjectOK
<1>9. EditorOK(t)  BY <1>1, <1>5, <1>7 DEF EditorOK, RenamedTo
<1>10. DiskOK(e)  BY <1>1, <1>6 DEF DiskOK, MovedTo
<1>11. \A j \in DOMAIN s.files \ {i} :
         /\ t.files[j].name = s.files[j].name
         /\ e[s.root].text[s.files[j].name] = d[s.root].text[s.files[j].name]
  <2>1. \A j \in DOMAIN s.files \ {i} : s.files[j].name \in Names \ {s.files[i].name, name}
    BY <1>1, <1>3, <1>4 DEF ProjectOK
  <2> QED BY <1>5, <1>6, <2>1 DEF RenamedTo, MovedTo
<1>12. t.files[i].name = name /\ e[s.root].text[name] = d[s.root].text[s.files[i].name]
  BY <1>5, <1>6 DEF RenamedTo, MovedTo
<1>13. /\ DOMAIN t.files = DOMAIN s.files /\ t.root = s.root /\ t.manifestDirty = TRUE
       /\ t.loose = s.loose /\ t \in Window
       /\ \A j \in DOMAIN s.files :
            t.files[j].text = s.files[j].text /\ t.files[j].saved = s.files[j].saved
  BY <1>5 DEF RenamedTo
<1>14. OnDisk(t, e)
  <2>1. ASSUME NEW j \in DOMAIN s.files PROVE e[s.root].text[t.files[j].name] # Absent
    BY <1>1, <1>11, <1>12 DEF OnDisk, Exists
  <2> QED BY <1>13, <2>1 DEF OnDisk, Exists
<1>15. Sound(t, e)
  BY <1>8, <1>9, <1>10, <1>13, <1>14 DEF Sound, Shape, Listed
<1>16. Kept(s, t)
  <2>1. s.files[i].name \notin ToSet(Paths(t))
    <3>1. \A j \in DOMAIN t.files : t.files[j].name # s.files[i].name
      <4>1. t.files[i].name # s.files[i].name  BY <1>3, <1>12
      <4>2. \A j \in DOMAIN s.files \ {i} : t.files[j].name # s.files[i].name
        BY <1>1, <1>11 DEF ProjectOK
      <4> QED BY <1>13, <4>1, <4>2
    <3> QED BY <1>8, <1>13, <3>1, PathsOf DEF ToSet
  <2>2. ASSUME NEW j \in DOMAIN s.files
        PROVE  /\ j \in DOMAIN t.files /\ t.files[j].text = s.files[j].text
               /\ t.files[j].name = s.files[j].name \/ s.files[j].name \notin ToSet(Paths(t))
    BY <1>11, <1>13, <2>1
  <2> QED BY <2>2 DEF Kept
<1>17. ASSUME Flawless PROVE Settled(t, e)
  <2>1. s.loose = <<>> /\ \A j \in DOMAIN s.files : d[s.root].text[s.files[j].name] = s.files[j].saved
    BY <1>17 DEF Good, Whole, Settled
  <2>2. ASSUME NEW j \in DOMAIN s.files
        PROVE  e[s.root].text[t.files[j].name] = t.files[j].saved
    <3>1. t.files[j].saved = s.files[j].saved  BY <1>13
    <3>2. CASE j = i  BY <1>12, <2>1, <3>1, <3>2
    <3>3. CASE j # i  BY <1>11, <2>1, <3>1, <3>3
    <3> QED BY <3>2, <3>3
  <2> QED BY <1>13, <2>1, <2>2 DEF Settled
<1>18. ASSUME Flawless, NEW dir \in Dirs \ {s.root} PROVE OpenableAt(e, dir)
  <2>1. e[dir].text = d[dir].text /\ e[dir].manifest = d[dir].manifest
    BY <1>6 DEF MovedTo
  <2>2. OpenableAt(d, dir)  BY <1>18 DEF Good, Whole
  <2> QED BY <2>1, <2>2 DEF OpenableAt, Openable, Exists
<1> QED BY <1>13, <1>15, <1>16, <1>17, <1>18

LEMMA RenameFileFine ==
  ASSUME NEW s, NEW d, Good(s, d), s.root # None, s.selected \in DOMAIN s.files,
         NEW name \in Names, NEW p \in RenameFile(s, d, name)
  PROVE  Fine(p) /\ (p.how # "crash" => Kept(s, p.studio))
<1> DEFINE i == s.selected
           file == s.files[i]
           e(t, x) == IF Dirty(file) THEN Written(x, t.root, file.name, file.text) ELSE x
           u(t) == IF s.root # None THEN FileSaved(t, i) ELSE t
           v(t) == [u(t) EXCEPT !.manifestDirty = TRUE,
                                !.files = IF s.root # None THEN [@ EXCEPT ![i].name = name] ELSE @]
           moved(t, x) == [e(t, x) EXCEPT ![t.root].text =
                             [@ EXCEPT ![name] = e(t, x)[t.root].text[file.name],
                                       ![file.name] = Absent]]
           refused(t, x) == \/ name \in ToSet(Paths(t)) \/ Exists(e(t, x), t.root, name)
                            \/ ~Exists(e(t, x), t.root, file.name)
           last(t) == LastSource(t, file.name) /\ name \notin Sources
           Rest(t, x) ==
             IF name = file.name THEN {Outcome(t, x, "cancelled")}
             ELSE IF last(t) THEN {Outcome(t, x, "error")}
             ELSE Thrown(t, x)
                  \cup (IF refused(t, x) THEN {Outcome(u(t), e(t, x), "error")}
                        ELSE Thrown(u(t), e(t, x)) \cup Persist(v(t), moved(t, x)))
<1>1. PICK o \in Ensure(s, d) : p \in IF o.how = "ok" THEN Rest(o.studio, o.disk) ELSE {o}
  BY DEF RenameFile, Then
<1>2. p \in Rest(s, d)
  <2> HIDE DEF Rest
  <2>1. o.studio = s /\ o.disk = d /\ o.how = "ok"  BY EnsureFine
  <2> QED BY <1>1, <2>1
<1> DEFINE w == FileSaved(s, i)
           y == FileWritten(s, d, i)
<1>3. u(s) = w /\ e(s, d) = y /\ moved(s, d) = Moved(y, s.root, file.name, name)
  BY DEF FileWritten, Moved
<1>4. v(s) = Renamed(w, i, name)
  <2> DEFINE yes == TRUE
             files == [w.files EXCEPT ![i].name = name]
  <2>1. v(s) = [w EXCEPT !.manifestDirty = yes, !.files = files]  OBVIOUS
  <2>2. Renamed(w, i, name) = [w EXCEPT !.manifestDirty = yes, !.files = files]  BY DEF Renamed
  <2> HIDE DEF v
  <2> QED BY <2>1, <2>2
<1> HIDE DEF v, u, e, moved
<1>5. \/ p = Outcome(s, d, "cancelled") \/ p = Outcome(s, d, "error")
      \/ ~last(s) /\ p \in Thrown(s, d)
      \/ ~last(s) /\ p = Outcome(w, y, "error")
      \/ ~last(s) /\ p \in Thrown(w, y)
      \/ ~last(s) /\ ~refused(s, d)
         /\ p \in Persist(Renamed(w, i, name), Moved(y, s.root, file.name, name))
  BY <1>2, <1>3, <1>4
<1>6. Good(w, y) /\ Resaved(s, w)  BY FileWrittenHere
<1>7. Kept(s, s) /\ Kept(s, w)
  BY <1>6, CarriesKeeps DEF Carries, Resaved
<1>8. CASE p = Outcome(s, d, "cancelled") \/ p = Outcome(s, d, "error")
  BY <1>7, <1>8, OutcomeFine
<1>9. CASE p \in Thrown(s, d)
  BY <1>7, <1>9, FaultFine DEF Thrown, Good
<1>10. CASE p = Outcome(w, y, "error")
  BY <1>6, <1>7, <1>10, OutcomeFine
<1>11. CASE p \in Thrown(w, y)
  BY <1>6, <1>7, <1>11, FaultFine DEF Thrown, Good
<1>12. CASE ~last(s) /\ ~refused(s, d)
            /\ p \in Persist(Renamed(w, i, name), Moved(y, s.root, file.name, name))
  <2>1. s \in Window /\ ProjectOK(s.files)  BY DEF Good, Sound, Shape
  <2>2. name \notin ToSet(Paths(s)) /\ Exists(y, s.root, file.name)  BY <1>3, <1>12
  <2>3. name \in Sources \/ \E j \in DOMAIN s.files : j # i /\ s.files[j].name \in Sources
    BY <1>12, <2>1, OtherSource
  <2>4. /\ w.root = s.root /\ DOMAIN w.files = DOMAIN s.files
        /\ \A j \in DOMAIN s.files : w.files[j].name = s.files[j].name
    BY <1>6 DEF Resaved
  <2>5. Paths(w) = Paths(s)  BY <2>4 DEF Paths
  <2>6. name \in Sources \/ \E j \in DOMAIN w.files : j # i /\ w.files[j].name \in Sources
    BY <2>3, <2>4
  <2> DEFINE t == Renamed(w, i, name)
             x == Moved(y, s.root, file.name, name)
  <2>7. w.files[i].name = file.name /\ i \in DOMAIN w.files  BY <2>4
  <2> HIDE DEF w, y, file, i, last, refused
  <2>8. /\ Sound(t, x) /\ t.root = s.root /\ Kept(w, t)
        /\ Flawless => Settled(t, x) /\ \A dir \in Dirs \ {s.root} : OpenableAt(x, dir)
    BY <1>6, <2>2, <2>4, <2>5, <2>6, <2>7, RenameMoved
  <2>9. p \in Persist(t, x)  BY <1>12
  <2> HIDE DEF t, x
  <2>10. Fine(p) /\ p.studio.files = t.files
    BY <2>4, <2>8, <2>9, PersistFine
  <2>11. Kept(w, p.studio)  BY <2>8, <2>10 DEF Kept, Paths
  <2>12. \A j \in DOMAIN s.files : w.files[j].text = s.files[j].text
    BY <1>6 DEF Resaved, w
  <2>13. Kept(s, p.studio)  BY <2>4, <2>11, <2>12 DEF Kept
  <2> QED BY <2>10, <2>13
<1> QED BY <1>5, <1>8, <1>9, <1>10, <1>11, <1>12

-----------------------------------------------------------------------------
(* Removing *)

Without(seq, i, r) ==
  /\ Len(r) = Len(seq) - 1
  /\ \A j \in 1 .. Len(seq) - 1 : r[j] = seq[IF j < i THEN j ELSE j + 1]

LEMMA RemoveAtIs ==
  ASSUME NEW S, NEW seq \in Seq(S), NEW i \in 1..Len(seq)
  PROVE  RemoveAt(seq, i) \in Seq(S) /\ Without(seq, i, RemoveAt(seq, i))
<1> DEFINE a == SubSeq(seq, 1, i - 1)
           b == SubSeq(seq, i + 1, Len(seq))
           r == a \o b
<1>1. Len(seq) \in Nat /\ i \in Nat /\ i >= 1 /\ i <= Len(seq)  OBVIOUS
<1>2. a \in Seq(S) /\ Len(a) = i - 1 /\ \A j \in 1 .. i - 1 : a[j] = seq[j]
  BY <1>1, SubSeqProperties
<1>3. b \in Seq(S) /\ Len(b) = Len(seq) - i /\ \A j \in 1 .. Len(seq) - i : b[j] = seq[j + i]
  BY <1>1, SubSeqProperties
<1> HIDE DEF a, b
<1>4. r \in Seq(S) /\ Len(r) = Len(a) + Len(b)
      /\ \A j \in 1 .. Len(a) + Len(b) : r[j] = IF j <= Len(a) THEN a[j] ELSE b[j - Len(a)]
  BY <1>2, <1>3, ConcatProperties
<1> HIDE DEF r
<1>5. Len(r) = Len(seq) - 1  BY <1>1, <1>2, <1>3, <1>4
<1>6. ASSUME NEW j \in 1 .. Len(seq) - 1 PROVE r[j] = seq[IF j < i THEN j ELSE j + 1]
  <2>1. j \in Nat /\ j >= 1 /\ j <= Len(seq) - 1  BY <1>1
  <2>2. j \in 1 .. Len(a) + Len(b)  BY <1>1, <1>2, <1>3, <2>1
  <2>3. CASE j < i
    <3>1. j \in 1 .. i - 1 /\ j <= Len(a)  BY <1>1, <1>2, <2>1, <2>3
    <3> QED BY <1>2, <1>4, <2>2, <2>3, <3>1
  <2>4. CASE ~(j < i)
    <3>1. ~(j <= Len(a)) /\ j - Len(a) = j - (i - 1)  BY <1>1, <1>2, <2>1, <2>4
    <3>2. (j - (i - 1)) \in 1 .. Len(seq) - i /\ (j - (i - 1)) + i = j + 1  BY <1>1, <2>1, <2>4
    <3>3. r[j] = b[j - (i - 1)]  BY <1>4, <2>2, <3>1
    <3>4. b[j - (i - 1)] = seq[j + 1]  BY <1>3, <3>2
    <3> QED BY <2>4, <3>3, <3>4
  <2> QED BY <2>3, <2>4
<1>7. RemoveAt(seq, i) = r  BY DEF RemoveAt, r, a, b
<1> QED BY <1>4, <1>5, <1>6, <1>7 DEF Without

(* The window without the file at position i.                               *)
UnlistedTo(s, i, t) ==
  /\ t \in Window /\ t.root = s.root /\ t.manifestDirty = TRUE
  /\ t.files \in Seq(FileType) /\ Without(s.files, i, t.files) /\ t.selected = 0
  /\ t.active = IF s.active = i THEN 0 ELSE IF s.active > i THEN s.active - 1 ELSE s.active
  /\ t.loose = IF s.active = i THEN <<[file |-> s.files[i], fileId |-> i]>> ELSE s.loose

LEMMA UnlistedIs ==
  ASSUME NEW s \in Window, NEW i \in DOMAIN s.files
  PROVE  UnlistedTo(s, i, Unlisted(s, i))
<1> DEFINE files == RemoveAt(s.files, i)
           active == IF s.active = i THEN 0 ELSE IF s.active > i THEN s.active - 1 ELSE s.active
           loose == IF s.active = i THEN <<[file |-> s.files[i], fileId |-> i]>> ELSE s.loose
           t == [s EXCEPT !.files = files, !.manifestDirty = TRUE, !.selected = 0,
                          !.active = active, !.loose = loose]
<1>1. s.files \in Seq(FileType) /\ s.active \in Nat
      /\ s.loose \in Seq([file : FileType, fileId : Nat])
  BY DEF Window
<1>2. i \in 1..Len(s.files) /\ s.files[i] \in FileType  BY <1>1
<1>3. files \in Seq(FileType) /\ Without(s.files, i, files)  BY <1>1, <1>2, RemoveAtIs
<1>4. active \in Nat  BY <1>1, <1>2
<1>5. loose \in Seq([file : FileType, fileId : Nat])
  <2> DEFINE x == [file |-> s.files[i], fileId |-> i]
             X == [file : FileType, fileId : Nat]
  <2>1. x \in X  BY <1>2
  <2> HIDE DEF x, X
  <2>2. <<x>> \in Seq(X)  BY <2>1
  <2>3. loose = IF s.active = i THEN <<x>> ELSE s.loose  BY DEF x
  <2>4. s.loose \in Seq(X)  BY <1>1 DEF X
  <2> HIDE DEF loose
  <2>5. loose \in Seq(X)  BY <2>2, <2>3, <2>4
  <2> QED BY <2>5 DEF X
<1>6. Unlisted(s, i) = t  BY DEF Unlisted
<1> HIDE DEF files, active, loose
<1>7. t \in Window  BY <1>3, <1>4, <1>5 DEF Window
<1>8. t.manifestDirty = TRUE  BY DEF Window
<1>9. /\ t.root = s.root /\ t.files = files /\ t.selected = 0 /\ t.active = active
      /\ t.loose = loose
  BY DEF Window
<1> HIDE DEF t
<1> QED BY <1>3, <1>6, <1>7, <1>8, <1>9 DEF UnlistedTo, active, loose

LEMMA OneLess ==
  \A n \in Nat : \A m : ~(n <= 1) /\ m = n - 1 => m \in Nat \ {0} /\ n = m + 1
OBVIOUS

LEMMA UnlistedSound ==
  ASSUME NEW s, NEW d, Sound(s, d), NEW i \in DOMAIN s.files, ~(Len(s.files) <= 1),
         \E j \in DOMAIN s.files : j # i /\ s.files[j].name \in Sources,
         NEW t, UnlistedTo(s, i, t)
  PROVE  /\ Sound(t, d) /\ Len(t.files) \in Nat \ {0}
         /\ \A k \in DOMAIN t.files : \E j \in DOMAIN s.files \ {i} : t.files[k] = s.files[j]
<1> DEFINE at(k) == IF k < i THEN k ELSE k + 1
<1>1. s \in Window /\ ProjectOK(s.files) /\ EditorOK(s) /\ DiskOK(d) /\ OnDisk(s, d)
  BY DEF Sound, Shape
<1>2. /\ s.files \in Seq(FileType) /\ Len(s.files) \in Nat /\ DOMAIN s.files = 1..Len(s.files)
  BY <1>1 DEF Window
<1>3. /\ Len(t.files) = Len(s.files) - 1 /\ DOMAIN t.files = 1..Len(t.files)
      /\ \A k \in 1 .. Len(s.files) - 1 : t.files[k] = s.files[at(k)]
  BY DEF UnlistedTo, Without
<1>4. Len(t.files) \in Nat \ {0} /\ Len(s.files) = Len(t.files) + 1
  BY <1>2, <1>3, OneLess, Zenon
<1>5. ASSUME NEW k \in DOMAIN t.files
      PROVE  at(k) \in DOMAIN s.files \ {i} /\ t.files[k] = s.files[at(k)]
  <2>1. k \in 1 .. Len(s.files) - 1  BY <1>3
  <2>2. at(k) \in 1..Len(s.files) /\ at(k) # i  BY <1>2, <2>1
  <2> QED BY <1>2, <1>3, <2>1, <2>2
<1>6. ASSUME NEW k \in DOMAIN t.files, NEW j \in DOMAIN t.files, at(k) = at(j)
      PROVE  k = j
  <2>1. k \in Nat /\ j \in Nat /\ i \in Nat  BY <1>2, <1>3
  <2> QED BY <1>6, <2>1
<1>7. ASSUME NEW j \in DOMAIN s.files, j # i
      PROVE  \E k \in DOMAIN t.files : at(k) = j
  <2>1. j \in Nat /\ i \in Nat /\ j <= Len(s.files) /\ i <= Len(s.files) /\ 1 <= j /\ 1 <= i
    BY <1>2
  <2>2. CASE j < i
    <3>1. at(j) = j /\ j \in 1..Len(t.files)  BY <1>2, <1>3, <2>1, <2>2
    <3> QED BY <1>3, <3>1
  <2>3. CASE j > i
    <3>1. at(j - 1) = j /\ (j - 1) \in 1..Len(t.files)  BY <1>2, <1>3, <2>1, <2>3
    <3> QED BY <1>3, <3>1
  <2> QED BY <1>7, <2>1, <2>2, <2>3
<1> HIDE DEF at
<1>8. ProjectOK(t.files)
  <2>1. Len(t.files) \in 1..MaxFiles  BY <1>1, <1>2, <1>4, WorkspaceAssumption DEF ProjectOK
  <2>2. ASSUME NEW k \in DOMAIN t.files, NEW j \in DOMAIN t.files, t.files[k].name = t.files[j].name
        PROVE  k = j
    <3>1. at(k) = at(j)  BY <1>1, <1>5, <2>2 DEF ProjectOK
    <3> QED BY <1>6, <3>1
  <2>3. \E k \in DOMAIN t.files : t.files[k].name \in Sources
    <3>1. PICK j \in DOMAIN s.files : j # i /\ s.files[j].name \in Sources  OBVIOUS
    <3>2. PICK k \in DOMAIN t.files : at(k) = j  BY <1>7, <3>1
    <3> QED BY <1>5, <3>1, <3>2
  <2> QED BY <2>1, <2>2, <2>3 DEF ProjectOK
<1>9. EditorOK(t)
  <2>1. s.active \in 0..Len(s.files) /\ i \in 1..Len(s.files)  BY <1>1, <1>2 DEF EditorOK
  <2>2. t.active = (IF s.active = i THEN 0 ELSE IF s.active > i THEN s.active - 1 ELSE s.active)
        /\ t.selected = 0
    BY DEF UnlistedTo
  <2>3. t.active \in 0..Len(t.files) /\ t.selected \in 0..Len(t.files)
    BY <1>4, <2>1, <2>2
  <2>4. t.active = 0 <=> (s.active = i \/ s.active = 0)  BY <2>1, <2>2
  <2>5. CASE s.active = i
    <3>1. t.loose = <<[file |-> s.files[i], fileId |-> i]>>  BY <2>5 DEF UnlistedTo
    <3>2. Len(t.loose) <= 1 /\ t.loose # <<>>  BY <3>1
    <3> QED BY <2>3, <2>4, <2>5, <3>2 DEF EditorOK
  <2>6. CASE s.active # i
    <3>1. t.loose = s.loose  BY <2>6 DEF UnlistedTo
    <3>2. Len(s.loose) <= 1 /\ (s.active = 0 <=> s.loose # <<>>)  BY <1>1 DEF EditorOK
    <3> QED BY <2>3, <2>4, <2>6, <3>1, <3>2 DEF EditorOK
  <2> QED BY <2>5, <2>6
<1>10. OnDisk(t, d)
  <2>1. t.root = s.root  BY DEF UnlistedTo
  <2> QED BY <1>1, <1>5, <2>1 DEF OnDisk
<1>11. Sound(t, d)
  <2>1. t \in Window /\ t.manifestDirty = TRUE  BY DEF UnlistedTo
  <2> QED BY <1>1, <1>8, <1>9, <1>10, <2>1 DEF Sound, Shape, Listed
<1> QED BY <1>4, <1>5, <1>11

(* A workspace whose manifest is current can be opened.                     *)
LEMMA ListedOpenable ==
  ASSUME NEW s, NEW d, Sound(s, d), s.root # None, ~s.manifestDirty
  PROVE  Openable(d, s.root) /\ d[s.root].manifest = Paths(s)
<1>1. s \in Window /\ ProjectOK(s.files) /\ OnDisk(s, d) /\ d[s.root].manifest = Paths(s)
  BY DEF Sound, Shape, Listed
<1>2. /\ Paths(s) # NoManifest /\ DOMAIN Paths(s) = DOMAIN s.files
      /\ \A i \in DOMAIN s.files : Paths(s)[i] = s.files[i].name
  BY <1>1, PathsOf
<1> QED BY <1>1, <1>2 DEF OnDisk, Openable

(* Deleting a file that a complete workspace does not list.                 *)
LEMMA DeletedGood ==
  ASSUME NEW s, NEW d, Good(s, d), s.root # None, ~s.manifestDirty, NEW name \in Names,
         \A i \in DOMAIN s.files : s.files[i].name # name,
         NEW e, e = Written(d, s.root, name, Absent)
  PROVE  Good(s, e)
<1>1. s \in Window /\ ProjectOK(s.files) /\ EditorOK(s) /\ d \in Disks /\ DiskOK(d)
      /\ OnDisk(s, d) /\ Listed(s, d)
  BY DEF Good, Sound, Shape, DiskOK
<1>2. s.root \in Dirs /\ s.files \in Seq(FileType)  BY <1>1 DEF Window
<1>3. TextSet(d, s.root, name, Absent, e)  BY <1>1, <1>2, WrittenDisk
<1>4. \A i \in DOMAIN s.files : s.files[i].name \in Names  BY <1>2, NamesOf
<1>5. \A i \in DOMAIN s.files : e[s.root].text[s.files[i].name] = d[s.root].text[s.files[i].name]
  BY <1>2, <1>3, <1>4 DEF TextSet
<1>6. e \in Disks /\ \A x \in Dirs : e[x].manifest = d[x].manifest  BY <1>3 DEF TextSet
<1>7. Sound(s, e)
  BY <1>1, <1>2, <1>5, <1>6 DEF Sound, Shape, DiskOK, OnDisk, Listed, Exists
<1>8. ASSUME Flawless PROVE Settled(s, e)
  BY <1>5, <1>8 DEF Good, Whole, Settled
<1>9. ASSUME Flawless, NEW dir \in Dirs PROVE OpenableAt(e, dir)
  <2>1. CASE dir = s.root  BY <1>7, <2>1, ListedOpenable DEF OpenableAt
  <2>2. CASE dir # s.root
    <3>1. OpenableAt(d, dir)  BY <1>9 DEF Good, Whole
    <3>2. d[dir].manifest \in Seq(Names)  BY <1>1 DEF Disks
    <3>3. \A n \in Names : e[dir].text[n] = d[dir].text[n]  BY <1>3, <2>2 DEF TextSet
    <3> QED BY <1>6, <3>1, <3>2, <3>3 DEF OpenableAt, Openable, Exists
  <2> QED BY <2>1, <2>2
<1> QED BY <1>7, <1>8, <1>9 DEF Good, Whole

(* The next file is opened: one of the list, the last if there is no other. *)
LEMMA NextOpenedIs ==
  ASSUME NEW s \in Window, Len(s.files) \in Nat \ {0}, NEW i \in Nat \ {0}
  PROVE  LET t == NextOpened(s, i)
         IN  /\ t \in Window /\ t.root = s.root /\ t.manifestDirty = s.manifestDirty
             /\ t.files = s.files /\ t.loose = <<>> /\ EditorOK(t)
<1> DEFINE k == IF i > Len(s.files) THEN Len(s.files) ELSE i
           t == [s EXCEPT !.active = k, !.selected = k, !.loose = <<>>]
<1>1. k \in Nat /\ k # 0 /\ k <= Len(s.files) /\ Len(s.files) \in Nat  OBVIOUS
<1>2. NextOpened(s, i) = t  BY DEF NextOpened
<1> HIDE DEF k
<1>3. t \in Window
  <2>1. <<>> \in Seq([file : FileType, fileId : Nat])  OBVIOUS
  <2> QED BY <1>1, <2>1 DEF Window
<1>4. t.manifestDirty = s.manifestDirty  BY DEF Window
<1>5. /\ t.root = s.root /\ t.active = k /\ t.selected = k /\ t.files = s.files
      /\ t.loose = <<>>
  BY DEF Window
<1> HIDE DEF t
<1>6. EditorOK(t)
  <2>1. k \in 0..Len(s.files)  BY <1>1
  <2>2. Len(<<>>) <= 1  OBVIOUS
  <2> QED BY <1>1, <1>5, <2>1, <2>2 DEF EditorOK
<1> QED BY <1>2, <1>3, <1>4, <1>5, <1>6

LEMMA RemoveFileFine ==
  ASSUME NEW s, NEW d, Good(s, d), s.root # None, s.selected \in DOMAIN s.files,
         NEW delete \in BOOLEAN, NEW p \in RemoveFile(s, d, delete)
  PROVE  Fine(p)
<1> DEFINE i == s.selected
           name == s.files[i].name
           u(t) == IF s.root # None THEN Unlisted(t, i) ELSE [t EXCEPT !.manifestDirty = TRUE]
           After2(t, q) ==
             (IF delete THEN Thrown(q.studio, q.disk) ELSE {})
             \cup {Outcome(NextOpened(q.studio, IF s.root # None THEN i ELSE 1),
                           IF delete THEN Written(q.disk, t.root, name, Absent)
                           ELSE q.disk, "ok")}
           Rest(t, x) ==
             IF Len(t.files) <= 1 \/ LastSource(t, name) THEN {Outcome(t, x, "error")}
             ELSE Then(Persist(u(t), x), LAMBDA q : After2(t, q))
<1>1. PICK o \in Ensure(s, d) : p \in IF o.how = "ok" THEN Rest(o.studio, o.disk) ELSE {o}
  BY DEF RemoveFile, Then
<1>2. p \in Rest(s, d)
  <2> HIDE DEF Rest
  <2>1. o.studio = s /\ o.disk = d /\ o.how = "ok"  BY EnsureFine
  <2> QED BY <1>1, <2>1
<1>3. s \in Window /\ ProjectOK(s.files) /\ d \in Disks /\ s.files \in Seq(FileType)
      /\ s.root \in Dirs
  BY DEF Good, Sound, Shape, DiskOK, Window
<1>4. CASE p = Outcome(s, d, "error")  BY <1>4, OutcomeFine
<1>5. CASE p # Outcome(s, d, "error")
  <2> DEFINE t == Unlisted(s, i)
             e == WithManifest(d, s.root, Paths(t))
  <2>1. ~(Len(s.files) <= 1) /\ ~LastSource(s, name)
        /\ p \in Then(Persist(t, d), LAMBDA q : After2(s, q))
    BY <1>2, <1>5
  <2>2. PICK q \in Persist(t, d) : p \in IF q.how = "ok" THEN After2(s, q) ELSE {q}
    BY <2>1 DEF Then
  <2>3. UnlistedTo(s, i, t)  BY <1>3, UnlistedIs
  <2>4. \E j \in DOMAIN s.files : j # i /\ s.files[j].name \in Sources
    BY <1>3, <2>1, OtherSource
  <2>5. /\ Sound(t, d) /\ Len(t.files) \in Nat \ {0}
        /\ \A k \in DOMAIN t.files : \E j \in DOMAIN s.files \ {i} : t.files[k] = s.files[j]
    <3>1. Sound(s, d) /\ i \in DOMAIN s.files /\ ~(Len(s.files) <= 1)  BY <2>1 DEF Good
    <3> HIDE DEF i, name, t, Rest, After2
    <3>2. Sound(t, d) /\ Len(t.files) \in Nat \ {0}  BY <2>3, <2>4, <3>1, UnlistedSound
    <3>3. \A k \in DOMAIN t.files : \E j \in DOMAIN s.files \ {i} : t.files[k] = s.files[j]
      BY <2>3, <2>4, <3>1, UnlistedSound
    <3> QED BY <3>2, <3>3
  <2> HIDE DEF t
  <2>6. t.root = s.root /\ t \in Window  BY <2>3 DEF UnlistedTo
  <2>7. /\ Sound(Clean(t), e) /\ e[s.root].manifest = Paths(t)
    BY <2>5, <2>6, PersistSound
  <2>8. Paths(t) \in Seq(Names)  BY <2>5, <2>6, PathsOf DEF Sound, Shape
  <2>9. e \in Disks /\ \A x \in Dirs : /\ e[x].text = d[x].text
                                       /\ e[x].manifest = IF x = s.root THEN Paths(t)
                                                          ELSE d[x].manifest
    BY <1>3, <2>8, ManifestDisk
  <2>10. /\ Clean(t) \in Window /\ Clean(t).files = t.files /\ Clean(t).root = s.root
         /\ ~Clean(t).manifestDirty
    BY <2>6 DEF Clean, Window
  <2> HIDE DEF e
  <2>11. CASE q \in Thrown(t, d)
    <3>1. q \in Fault(t, d, "error")  BY <2>11 DEF Thrown
    <3>2. Fine(q) /\ q.how = "error"  BY <2>5, <3>1, FaultFine
    <3> QED BY <2>2, <3>2
  <2>12. CASE q = Outcome(Clean(t), e, "ok")
    <3> DEFINE c == Clean(t)
               v == NextOpened(c, i)
    <3>1. q.studio = c /\ q.disk = e /\ q.how = "ok"  BY <2>12 DEF Outcome
    <3>2. \/ p \in Thrown(c, e)
          \/ p = Outcome(v, IF delete THEN Written(e, s.root, name, Absent) ELSE e, "ok")
      BY <2>2, <3>1
    <3>3. CASE p \in Thrown(c, e)
      <4>1. p \in Fault(c, e, "error")  BY <3>3 DEF Thrown
      <4> QED BY <2>7, <4>1, FaultFine
    <3> HIDE DEF c
    <3>4. /\ v \in Window /\ v.root = c.root /\ v.manifestDirty = c.manifestDirty
          /\ v.files = c.files /\ v.loose = <<>> /\ EditorOK(v)
      <4>1. i \in Nat \ {0}  BY <1>3
      <4> QED BY <2>5, <2>10, <4>1, NextOpenedIs DEF c
    <3> HIDE DEF v
    <3>5. Sound(v, e)
      BY <2>7, <2>9, <3>4, SoundKept DEF c
    <3>6. v.root = s.root /\ ~v.manifestDirty /\ v.files = t.files  BY <2>10, <3>4 DEF c
    <3>7. ASSUME Flawless PROVE Whole(v, e)
      <4>1. \A k \in DOMAIN t.files : d[s.root].text[t.files[k].name] = t.files[k].saved
        <5>1. \A j \in DOMAIN s.files : d[s.root].text[s.files[j].name] = s.files[j].saved
          BY <3>7 DEF Good, Whole, Settled
        <5> QED BY <2>5, <5>1
      <4>2. Settled(v, e)  BY <1>3, <2>9, <3>4, <3>6, <4>1 DEF Settled
      <4>3. OpenableAt(e, s.root)  BY <3>5, <3>6, ListedOpenable DEF OpenableAt
      <4>4. ASSUME NEW dir \in Dirs \ {s.root} PROVE OpenableAt(e, dir)
        <5>1. OpenableAt(d, dir)  BY <3>7 DEF Good, Whole
        <5> QED BY <2>9, <5>1 DEF OpenableAt, Openable, Exists
      <4> QED BY <4>2, <4>3, <4>4 DEF Whole
    <3>8. Good(v, e)  BY <3>5, <3>7 DEF Good
    <3>9. name \in Names /\ \A k \in DOMAIN v.files : v.files[k].name # name
      <4>1. \A j \in DOMAIN s.files \ {i} : s.files[j].name # name  BY <1>3 DEF ProjectOK
      <4> QED BY <1>3, <2>5, <3>6, <4>1, NamesOf
    <3>10. Good(v, Written(e, s.root, name, Absent))
      BY <3>6, <3>8, <3>9, DeletedGood
    <3>11. CASE p = Outcome(v, IF delete THEN Written(e, s.root, name, Absent) ELSE e, "ok")
      BY <3>8, <3>10, <3>11, OutcomeFine
    <3> QED BY <3>2, <3>3, <3>11 DEF v, c
  <2> QED BY <2>6, <2>11, <2>12 DEF Persist, Clean, e
<1> QED BY <1>4, <1>5

-----------------------------------------------------------------------------
(* Switching the workspace *)

(* The unsaved texts are in files.                                          *)
EditsFiled(s, d) ==
  \A i \in DOMAIN s.files : Dirty(s.files[i]) =>
    \E dir \in Dirs : d[dir].text[s.files[i].name] = s.files[i].text

LEMMA ConfirmFine ==
  ASSUME NEW s, NEW d, Good(s, d), NEW said, NEW o \in Confirm(s, d, said)
  PROVE  /\ Fine(o) /\ (o.how # "crash" => Carries(s, o.studio))
         /\ o.how = "ok" /\ said # "no" => EditsFiled(s, o.disk)
<1>1. Carries(s, s)  BY DEF Carries
<1>2. CASE ~Unsaved(s)
  <2>1. o = Outcome(s, d, "ok")  BY <1>2 DEF Confirm
  <2>2. EditsFiled(s, d)  BY <1>2 DEF Unsaved, EditsFiled
  <2> QED BY <1>1, <2>1, <2>2, OutcomeFine
<1>3. CASE Unsaved(s) /\ said = "yes"
  <2>1. o \in SaveAll(s, d)  BY <1>3 DEF Confirm
  <2>2. o.how = "ok" => EditsFiled(s, o.disk)  BY <2>1, SaveAllFine DEF Filed, EditsFiled
  <2> QED BY <2>1, <2>2, SaveAllFine
<1>4. CASE Unsaved(s) /\ said # "yes"
  <2>1. o = Outcome(s, d, IF said = "no" THEN "ok" ELSE "cancelled")  BY <1>4 DEF Confirm
  <2> QED BY <1>1, <2>1, OutcomeFine
<1> QED BY <1>2, <1>3, <1>4

(* A handler that switches keeps the edits, or files them, or was told No   *)
(* and has switched.                                                        *)
Switched(s, said, p) ==
  p.how # "crash" /\ (said # "no" \/ p.how # "ok") =>
    Kept(s, p.studio) \/ EditsFiled(s, p.disk)

LEMMA ConfirmSwitched ==
  ASSUME NEW s, NEW d, Good(s, d), NEW said, NEW o \in Confirm(s, d, said)
  PROVE  Switched(s, said, o)
BY ConfirmFine, CarriesKeeps DEF Switched

LEMMA NewProjectFine ==
  ASSUME NEW s, NEW d, Good(s, d), NEW dir \in Dirs, NEW said, NEW p \in NewProject(s, d, dir, said)
  PROVE  Fine(p) /\ Switched(s, said, p)
<1>1. PICK o \in Confirm(s, d, said) :
        p \in IF o.how = "ok"
              THEN IF dir \in Targets(o.disk)
                   THEN Create(o.studio, o.disk, dir, Fresh.files, "error")
                   ELSE {Outcome(o.studio, o.disk, "cancelled")}
              ELSE {o}
  BY DEF NewProject, Then
<1>2. /\ Fine(o) /\ (o.how # "crash" => Carries(s, o.studio))
      /\ o.how = "ok" /\ said # "no" => EditsFiled(s, o.disk)
  BY ConfirmFine
<1>3. CASE o.how # "ok"  BY <1>1, <1>2, <1>3, ConfirmSwitched
<1>4. CASE o.how = "ok"
  <2>1. Good(o.studio, o.disk) /\ Kept(s, o.studio)  BY <1>2, <1>4, FineGood, CarriesKeeps
  <2>2. CASE p = Outcome(o.studio, o.disk, "cancelled")
    BY <2>1, <2>2, OutcomeFine DEF Switched
  <2>3. CASE p \in Create(o.studio, o.disk, dir, Fresh.files, "error")
    <3>1. Sound(Fresh, o.disk)  BY <2>1, FreshSound DEF Good
    <3>2. Fresh.files \in Seq(FileType) /\ ProjectOK(Fresh.files)
      BY <3>1 DEF Sound, Shape, Window
    <3> DEFINE e == o.disk
               files == Fresh.files
    <3> HIDE DEF e, files
    <3>3. Good(o.studio, e) /\ p \in Create(o.studio, e, dir, files, "error")
          /\ files \in Seq(FileType) /\ ProjectOK(files)
      BY <2>1, <2>3, <3>2 DEF e, files
    <3>4. Fine(p)  BY <3>3, CreateFine
    <3>5. Spared(o.studio, e, p)  BY <3>3, CreateFine
    <3>6. p.how # "ok" => p.studio = o.studio  BY <3>5 DEF Spared
    <3>7. \A x \in Dirs, n \in Names :
            o.disk[x].text[n] # Absent => p.disk[x].text[n] = o.disk[x].text[n]
      BY <3>5 DEF e, Spared
    <3>8. ASSUME said # "no" PROVE EditsFiled(s, p.disk)
      <4>1. s.files \in Seq(FileType)  BY DEF Good, Sound, Shape, Window
      <4>2. \A i \in DOMAIN s.files : s.files[i].name \in Names /\ s.files[i].text # Absent
        BY <4>1, NamesOf, WorkspaceAssumption
      <4> QED BY <1>2, <1>4, <3>7, <3>8, <4>2 DEF EditsFiled
    <3> QED BY <2>1, <3>4, <3>6, <3>8 DEF Switched
  <2> QED BY <1>1, <1>4, <2>2, <2>3
<1> QED BY <1>3, <1>4

(* Opening a workspace that can be opened.                                  *)
LEMMA LoadedGood ==
  ASSUME NEW s, NEW d, Good(s, d), NEW dir \in Dirs, Openable(d, dir)
  PROVE  Good(Applied(dir, Loaded(d, dir)), d)
<1> DEFINE paths == d[dir].manifest
           files == Loaded(d, dir)
           t == Applied(dir, files)
<1>1. d \in Disks /\ DiskOK(d) /\ dir # None
  BY WorkspaceAssumption DEF Good, Sound, Shape, DiskOK
<1>2. /\ paths \in Seq(Names) /\ paths # NoManifest /\ ManifestOK(paths)
      /\ d[dir].text \in [Names -> Texts \cup {Absent}]
      /\ \A i \in DOMAIN paths : d[dir].text[paths[i]] # Absent
  BY <1>1 DEF Openable, Exists, DiskOK, Disks
<1>3. /\ DOMAIN paths = 1..Len(paths) /\ Len(paths) \in Nat \ {0}
      /\ \A i \in DOMAIN paths : paths[i] \in Names
  BY <1>2, EmptySeq DEF NoManifest
<1>4. \A i \in DOMAIN paths : d[dir].text[paths[i]] \in Texts  BY <1>2, <1>3
<1>5. \A i \in DOMAIN paths : LET f == File(paths[i], d[dir].text[paths[i]])
                              IN  /\ f \in FileType /\ f.name = paths[i]
                                  /\ f.text = d[dir].text[paths[i]]
                                  /\ f.saved = d[dir].text[paths[i]]
  BY <1>3, <1>4 DEF File, FileType
<1>6. files = [i \in DOMAIN paths |-> File(paths[i], d[dir].text[paths[i]])]  BY DEF Loaded
<1> HIDE DEF files
<1>7. /\ files \in Seq(FileType) /\ Len(files) = Len(paths) /\ DOMAIN files = DOMAIN paths
      /\ \A i \in DOMAIN paths : /\ files[i].name = paths[i]
                                 /\ files[i].saved = d[dir].text[paths[i]]
  BY <1>3, <1>5, <1>6
<1>8. /\ t.root = dir /\ t.files = files /\ t.active = 1 /\ t.selected = 1 /\ t.loose = <<>>
      /\ ~t.manifestDirty /\ t \in Window
  BY <1>7 DEF Applied, Window
<1> HIDE DEF t
<1>9. ProjectOK(t.files)
  <2>1. Len(files) \in 1..MaxFiles  BY <1>2, <1>3, <1>7, WorkspaceAssumption DEF ManifestOK
  <2>2. \A i, j \in DOMAIN files : files[i].name = files[j].name => i = j
    BY <1>2, <1>7 DEF ManifestOK, IsInjective
  <2>3. \E i \in DOMAIN files : files[i].name \in Sources
    BY <1>2, <1>7 DEF ManifestOK, ToSet
  <2> QED BY <1>8, <2>1, <2>2, <2>3 DEF ProjectOK
<1>10. EditorOK(t)  BY <1>3, <1>7, <1>8 DEF EditorOK
<1>11. OnDisk(t, d)  BY <1>2, <1>7, <1>8 DEF OnDisk, Exists
<1>12. Paths(t) = paths
  <2>1. paths = [i \in DOMAIN paths |-> paths[i]]  BY <1>2
  <2> QED BY <1>7, <1>8, <2>1 DEF Paths
<1>13. Sound(t, d)
  BY <1>1, <1>8, <1>9, <1>10, <1>11, <1>12 DEF Sound, Shape, Listed
<1>14. ASSUME Flawless PROVE Whole(t, d)
  <2>1. Settled(t, d)  BY <1>7, <1>8 DEF Settled
  <2> QED BY <1>14, <2>1 DEF Good, Whole
<1> QED BY <1>13, <1>14 DEF Good, t, files

LEMMA OpenProjectFine ==
  ASSUME NEW s, NEW d, Good(s, d), NEW dir \in Dirs, NEW said, NEW p \in OpenProject(s, d, dir, said)
  PROVE  Fine(p) /\ Switched(s, said, p)
<1>1. PICK o \in Confirm(s, d, said) :
        p \in IF o.how = "ok"
              THEN IF Openable(o.disk, dir)
                   THEN {Outcome(Applied(dir, Loaded(o.disk, dir)), o.disk, "ok")}
                   ELSE {Outcome(o.studio, o.disk, "error")}
              ELSE {o}
  BY DEF OpenProject, Then
<1>2. /\ Fine(o) /\ (o.how # "crash" => Carries(s, o.studio))
      /\ o.how = "ok" /\ said # "no" => EditsFiled(s, o.disk)
  BY ConfirmFine
<1>3. CASE o.how # "ok"  BY <1>1, <1>2, <1>3, ConfirmSwitched
<1>4. CASE o.how = "ok"
  <2>1. Good(o.studio, o.disk) /\ Kept(s, o.studio)  BY <1>2, <1>4, FineGood, CarriesKeeps
  <2>2. CASE p = Outcome(o.studio, o.disk, "error")
    BY <2>1, <2>2, OutcomeFine DEF Switched
  <2>3. CASE Openable(o.disk, dir) /\ p = Outcome(Applied(dir, Loaded(o.disk, dir)), o.disk, "ok")
    <3>1. Good(Applied(dir, Loaded(o.disk, dir)), o.disk)  BY <2>1, <2>3, LoadedGood
    <3>2. Fine(p) /\ p.how = "ok" /\ p.disk = o.disk  BY <2>3, <3>1, OutcomeFine
    <3> QED BY <1>2, <1>4, <3>2 DEF Switched
  <2> QED BY <1>1, <1>4, <2>2, <2>3
<1> QED BY <1>3, <1>4

LEMMA CloseFine ==
  ASSUME NEW s, NEW d, Good(s, d), NEW said, NEW p \in Close(s, d, said)
  PROVE  Fine(p) /\ Switched(s, said, p)
<1>1. PICK o \in Confirm(s, d, said) :
        p \in IF o.how = "ok" THEN {Outcome(Fresh, o.disk, "ok")} ELSE {o}
  BY DEF Close, Then
<1>2. /\ Fine(o) /\ (o.how = "ok" /\ said # "no" => EditsFiled(s, o.disk))
  BY ConfirmFine
<1>3. CASE o.how # "ok"  BY <1>1, <1>2, <1>3, ConfirmSwitched
<1>4. CASE o.how = "ok"
  <2>1. Good(o.studio, o.disk)  BY <1>2, <1>4, FineGood
  <2>2. Good(Fresh, o.disk)  BY <2>1, FreshSound DEF Good
  <2>3. p = Outcome(Fresh, o.disk, "ok")  BY <1>1, <1>4
  <2>4. Fine(p) /\ p.how = "ok" /\ p.disk = o.disk  BY <2>2, <2>3, OutcomeFine
  <2> QED BY <1>2, <1>4, <2>4 DEF Switched
<1> QED BY <1>3, <1>4

-----------------------------------------------------------------------------
(* Keystrokes, and the graph *)

(* Typing changes the text of the file in the editor.                       *)
Typed(s, text) ==
  IF s.loose # <<>> THEN [s EXCEPT !.loose[1].file.text = text]
  ELSE [s EXCEPT !.files[s.active].text = text]

LEMMA LooseTyped ==
  ASSUME NEW s, NEW d, Good(s, d), NEW text \in Texts, s.loose # <<>>
  PROVE  Good(Typed(s, text), d)
<1>1. /\ s \in Window /\ EditorOK(s) /\ d \in Disks
      /\ s.loose \in Seq([file : FileType, fileId : Nat]) /\ Len(s.loose) <= 1
  BY DEF Good, Sound, Shape, DiskOK, Window, EditorOK
<1>2. Len(s.loose) = 1 /\ s.loose[1] \in [file : FileType, fileId : Nat]
  BY <1>1, OneElement
<1> DEFINE g == [s.loose[1].file EXCEPT !.text = text]
           x == [s.loose[1] EXCEPT !.file = g]
           loose == [s.loose EXCEPT ![1] = x]
           t == [s EXCEPT !.loose = loose]
<1>3. g \in FileType  BY <1>2 DEF FileType
<1> HIDE DEF g
<1>4. x \in [file : FileType, fileId : Nat]  BY <1>2, <1>3
<1> HIDE DEF x
<1>5. loose \in Seq([file : FileType, fileId : Nat]) /\ Len(loose) = 1  BY <1>1, <1>2, <1>4
<1>6. loose # <<>>  BY <1>5, EmptySeq
<1> HIDE DEF loose
<1>7. t \in Window  BY <1>1, <1>5 DEF Window
<1>8. t.manifestDirty = s.manifestDirty  BY <1>1 DEF Window
<1>9. /\ t.root = s.root /\ t.active = s.active /\ t.files = s.files
      /\ t.selected = s.selected /\ t.loose = loose
  BY <1>1 DEF Window
<1>10. Typed(s, text) = t  BY DEF Typed, loose, x, g
<1> HIDE DEF t
<1>11. EditorOK(t)
  <2>1. t.loose # <<>> /\ Len(t.loose) = 1  BY <1>5, <1>6, <1>9
  <2>2. s.active = 0  BY <1>1 DEF EditorOK
  <2> QED BY <1>1, <1>9, <2>1, <2>2 DEF EditorOK
<1>12. Sound(t, d)  BY <1>1, <1>7, <1>8, <1>9, <1>11, SoundKept DEF Good
<1>13. ~Flawless  BY DEF Good, Whole, Settled
<1> QED BY <1>10, <1>12, <1>13 DEF Good

LEMMA FileTyped ==
  ASSUME NEW s, NEW d, Good(s, d), NEW text \in Texts, s.loose = <<>>
  PROVE  Good(Typed(s, text), d)
<1>1. s \in Window /\ EditorOK(s) /\ d \in Disks  BY DEF Good, Sound, Shape, DiskOK
<1>2. s.files \in Seq(FileType) /\ s.active \in DOMAIN s.files
  <2>1. s.files \in Seq(FileType)  BY <1>1 DEF Window
  <2>2. s.active \in 0..Len(s.files) /\ s.active # 0  BY <1>1 DEF EditorOK
  <2> QED BY <2>1, <2>2
<1> DEFINE i == s.active
           g == [s.files[i] EXCEPT !.text = text]
           files == [s.files EXCEPT ![i] = g]
           t == [s EXCEPT !.files = files]
<1>3. s.files[i] \in FileType  BY <1>2
<1>4. g \in FileType /\ g.name = s.files[i].name /\ g.saved = s.files[i].saved
  BY <1>3 DEF FileType
<1> HIDE DEF g
<1>5. /\ files \in Seq(FileType) /\ DOMAIN files = DOMAIN s.files /\ Len(files) = Len(s.files)
      /\ \A j \in DOMAIN s.files : /\ files[j].name = s.files[j].name
                                   /\ files[j].saved = s.files[j].saved
  BY <1>2, <1>4
<1> HIDE DEF files
<1>6. t \in Window  BY <1>1, <1>5 DEF Window
<1>7. t.manifestDirty = s.manifestDirty  BY <1>1 DEF Window
<1>8. /\ t.root = s.root /\ t.active = s.active /\ t.files = files
      /\ t.selected = s.selected /\ t.loose = s.loose
  BY <1>1 DEF Window
<1>9. Typed(s, text) = t  BY DEF Typed, files, g
<1> HIDE DEF t
<1>10. EditorOK(t)  BY <1>1, <1>5, <1>8 DEF EditorOK
<1>11. Sound(t, d) /\ (Whole(s, d) /\ Settled(t, d) => Whole(t, d))
  BY <1>1, <1>5, <1>6, <1>7, <1>8, <1>10, SoundKept DEF Good
<1>12. Whole(s, d) => Settled(t, d)  BY <1>5, <1>8 DEF Whole, Settled
<1> QED BY <1>9, <1>11, <1>12 DEF Good

(* Moving a node of the graph marks the manifest.                           *)
Marked(s) == [s EXCEPT !.manifestDirty = TRUE]

LEMMA MarkedGood ==
  ASSUME NEW s, NEW d, Good(s, d)
  PROVE  Good(Marked(s), d) /\ Carries(s, Marked(s))
<1>1. s \in Window /\ EditorOK(s) /\ d \in Disks  BY DEF Good, Sound, Shape, DiskOK
<1> DEFINE yes == TRUE
           t == [s EXCEPT !.manifestDirty = yes]
<1>2. t = Marked(s)  BY DEF Marked
<1>3. yes \in BOOLEAN /\ yes  OBVIOUS
<1>4. t.manifestDirty  BY <1>1 DEF Window
<1> HIDE DEF yes
<1>5. t \in Window  BY <1>1, <1>3 DEF Window
<1>6. /\ t.root = s.root /\ t.active = s.active /\ t.files = s.files
      /\ t.selected = s.selected /\ t.loose = s.loose
  BY <1>1 DEF Window
<1> HIDE DEF t
<1>7. EditorOK(t)  BY <1>1, <1>6 DEF EditorOK
<1>8. Sound(t, d) /\ (Whole(s, d) /\ Settled(t, d) => Whole(t, d))
  BY <1>1, <1>4, <1>5, <1>6, <1>7, SoundKept DEF Good
<1>9. Whole(s, d) => Settled(t, d)  BY <1>6 DEF Whole, Settled
<1>10. Carries(s, t)  BY <1>6 DEF Carries
<1> QED BY <1>2, <1>8, <1>9, <1>10 DEF Good

-----------------------------------------------------------------------------
(* The steps *)

(* What NoSilentLoss says of one step, and what it asks of an outcome.      *)
Keeps ==
  /\ ended' \notin {"typed", "crash"}
  /\ answer' = "none" \/ (answer' = "no" /\ ended' = "error")
  => EditsSurvive

Safe(s, said, o) ==
  o.how # "crash" /\ (said = "none" \/ (said = "no" /\ o.how = "error")) =>
    Kept(s, o.studio) \/ EditsFiled(s, o.disk)

LEMMA Surviving ==
  ASSUME Kept(studio, studio') \/ EditsFiled(studio, disk')
  PROVE  EditsSurvive
BY DEF Kept, EditsFiled, EditsSurvive, Survives

LEMMA CarriesSafe ==
  ASSUME NEW s, NEW said, NEW o, o.how # "crash" => Carries(s, o.studio)
  PROVE  Safe(s, said, o)
BY CarriesKeeps DEF Safe

LEMMA SwitchedSafe ==
  ASSUME NEW s, NEW reply, NEW o, Switched(s, reply, o)
  PROVE  Safe(s, Agreed(reply), o)
BY DEF Switched, Safe, Agreed

LEMMA OutcomeStep ==
  ASSUME WInv, NEW o, NEW said, Fine(o), Safe(studio, said, o),
         studio' = After(o), disk' = o.disk, ended' = o.how, answer' = said,
         faults' = faults - o.cost
  PROVE  WInv' /\ Keeps
<1>1. faults \in 0..MaxFaults /\ MaxFaults \in Nat  BY WorkspaceAssumption DEF WInv
<1>2. o.cost \in {0, 1} /\ (o.cost = 1 => faults > 0)  BY DEF Fine
<1>3. faults' \in 0..MaxFaults  BY <1>1, <1>2
<1>4. Flawless' => Flawless /\ o.cost = 0  BY <1>1, <1>2 DEF Flawless
<1>5. Sound(studio', disk') /\ (Flawless' => Whole(studio', disk'))  BY <1>4 DEF Fine
<1>6. Good(studio, disk)'  BY <1>5 DEF Good
<1>7. Keeps
  <2>1. ASSUME o.how # "crash" PROVE studio' = o.studio  BY <2>1 DEF After
  <2> QED BY <2>1, Surviving DEF Keeps, Safe
<1> QED BY <1>3, <1>6, <1>7 DEF WInv

(* Every step keeps the invariant and the unsaved edits.                    *)
LEMMA WorkspaceStep ==
  ASSUME UnsavedOps = {}, WInv, Next
  PROVE  WInv' /\ Keeps
<1>1. Good(studio, disk)  BY DEF WInv
<1>2. /\ studio \in Window /\ EditorOK(studio) /\ studio.files \in Seq(FileType)
      /\ faults \in 0..MaxFaults
  BY <1>1 DEF Good, Sound, Shape, Window, WInv
<1>3. ASSUME NEW text \in Texts, Edit(text) PROVE WInv' /\ Keeps
  <2>1. Good(Typed(studio, text), disk)  BY <1>1, LooseTyped, FileTyped
  <2>2. studio' = Typed(studio, text) /\ disk' = disk /\ faults' = faults /\ ended' = "typed"
    BY <1>3 DEF Edit, Typed
  <2>3. Flawless' <=> Flawless  BY <2>2 DEF Flawless
  <2>4. Good(studio, disk)'  BY <2>1, <2>2, <2>3 DEF Good
  <2> QED BY <1>2, <2>2, <2>4 DEF WInv, Keeps
<1>4. ASSUME NEW i \in DOMAIN studio.files, SelectFile(i) PROVE WInv' /\ Keeps
  <2>1. PICK o \in {Outcome(Opened(studio, i), disk, "ok")} :
          /\ studio' = After(o) /\ disk' = o.disk /\ ended' = o.how /\ answer' = "none"
          /\ faults' = faults - o.cost
    BY <1>4 DEF SelectFile, Handle, After
  <2>2. Fine(o) /\ Carries(studio, o.studio)  BY <1>1, <2>1, OpenedGood, OutcomeFine
  <2> QED BY <2>1, <2>2, CarriesSafe, OutcomeStep
<1>5. CASE MoveNode
  <2>1. PICK o \in {Outcome(Marked(studio), disk, "ok")} :
          /\ studio' = After(o) /\ disk' = o.disk /\ ended' = o.how /\ answer' = "none"
          /\ faults' = faults - o.cost
    BY <1>5 DEF MoveNode, Handle, After, Marked
  <2>2. Fine(o) /\ Carries(studio, o.studio)  BY <1>1, <2>1, MarkedGood, OutcomeFine
  <2> QED BY <2>1, <2>2, CarriesSafe, OutcomeStep
<1>6. CASE SaveClick
  <2>1. PICK o \in SaveActive(studio, disk) :
          /\ studio' = After(o) /\ disk' = o.disk /\ ended' = o.how /\ answer' = "none"
          /\ faults' = faults - o.cost
    BY <1>6 DEF SaveClick, Handle, After
  <2>2. Fine(o) /\ (o.how # "crash" => Carries(studio, o.studio))  BY <1>1, SaveActiveFine
  <2> QED BY <2>1, <2>2, CarriesSafe, OutcomeStep
<1>7. CASE SaveAllClick
  <2>1. PICK o \in SaveAll(studio, disk) :
          /\ studio' = After(o) /\ disk' = o.disk /\ ended' = o.how /\ answer' = "none"
          /\ faults' = faults - o.cost
    BY <1>7 DEF SaveAllClick, Handle, After
  <2>2. Fine(o) /\ (o.how # "crash" => Carries(studio, o.studio))  BY <1>1, SaveAllFine
  <2> QED BY <2>1, <2>2, CarriesSafe, OutcomeStep
<1>8. ASSUME NEW name \in Names, AddClick(name) PROVE WInv' /\ Keeps
  <2>1. PICK o \in AddFile(studio, disk, name) :
          /\ studio' = After(o) /\ disk' = o.disk /\ ended' = o.how /\ answer' = "none"
          /\ faults' = faults - o.cost
    BY <1>8 DEF AddClick, Handle, After
  <2>2. Fine(o) /\ (o.how # "crash" => Carries(studio, o.studio))  BY <1>1, AddFileFine
  <2> QED BY <2>1, <2>2, CarriesSafe, OutcomeStep
<1>9. ASSUME NEW name \in Names, RenameClick(name) PROVE WInv' /\ Keeps
  <2>1. studio.root # None /\ studio.selected # 0  BY <1>9 DEF RenameClick
  <2>2. studio.selected \in DOMAIN studio.files  BY <1>2, <2>1 DEF EditorOK
  <2>3. PICK o \in RenameFile(studio, disk, name) :
          /\ studio' = After(o) /\ disk' = o.disk /\ ended' = o.how /\ answer' = "none"
          /\ faults' = faults - o.cost
    BY <1>9 DEF RenameClick, Handle, After
  <2>4. Fine(o) /\ (o.how # "crash" => Kept(studio, o.studio))
    BY <1>1, <2>1, <2>2, RenameFileFine
  <2> QED BY <2>3, <2>4, OutcomeStep DEF Safe
<1>10. ASSUME NEW delete \in BOOLEAN, RemoveClick(delete) PROVE WInv' /\ Keeps
  <2>1. studio.root # None /\ studio.selected # 0  BY <1>10 DEF RemoveClick
  <2>2. studio.selected \in DOMAIN studio.files  BY <1>2, <2>1 DEF EditorOK
  <2> DEFINE said == IF delete THEN "delete" ELSE "remove"
  <2>3. said # "none" /\ said # "no"  OBVIOUS
  <2>4. Handle(RemoveFile(studio, disk, delete), said)  BY <1>10 DEF RemoveClick
  <2> HIDE DEF said
  <2>5. PICK o \in RemoveFile(studio, disk, delete) :
          /\ studio' = After(o) /\ disk' = o.disk /\ ended' = o.how /\ answer' = said
          /\ faults' = faults - o.cost
    BY <2>4 DEF Handle, After
  <2>6. Fine(o)  BY <1>1, <2>1, <2>2, RemoveFileFine
  <2>7. Safe(studio, said, o)  BY <2>3 DEF Safe
  <2> QED BY <2>5, <2>6, <2>7, OutcomeStep
<1>11. ASSUME NEW dir \in Dirs, NEW reply \in Replies, NewClick(dir, reply) PROVE WInv' /\ Keeps
  <2>1. PICK o \in NewProject(studio, disk, dir, reply) :
          /\ studio' = After(o) /\ disk' = o.disk /\ ended' = o.how /\ answer' = Agreed(reply)
          /\ faults' = faults - o.cost
    BY <1>11 DEF NewClick, Handle, After
  <2>2. Fine(o) /\ Switched(studio, reply, o)  BY <1>1, NewProjectFine
  <2> QED BY <2>1, <2>2, SwitchedSafe, OutcomeStep
<1>12. ASSUME NEW dir \in Dirs, NEW reply \in Replies, OpenClick(dir, reply) PROVE WInv' /\ Keeps
  <2>1. PICK o \in OpenProject(studio, disk, dir, reply) :
          /\ studio' = After(o) /\ disk' = o.disk /\ ended' = o.how /\ answer' = Agreed(reply)
          /\ faults' = faults - o.cost
    BY <1>12 DEF OpenClick, Handle, After
  <2>2. Fine(o) /\ Switched(studio, reply, o)  BY <1>1, OpenProjectFine
  <2> QED BY <2>1, <2>2, SwitchedSafe, OutcomeStep
<1>13. ASSUME NEW reply \in Replies, CloseClick(reply) PROVE WInv' /\ Keeps
  <2>1. PICK o \in Close(studio, disk, reply) :
          /\ studio' = After(o) /\ disk' = o.disk /\ ended' = o.how /\ answer' = Agreed(reply)
          /\ faults' = faults - o.cost
    BY <1>13 DEF CloseClick, Handle, After
  <2>2. Fine(o) /\ Switched(studio, reply, o)  BY <1>1, CloseFine
  <2> QED BY <2>1, <2>2, SwitchedSafe, OutcomeStep
<1> QED
  BY <1>3, <1>4, <1>5, <1>6, <1>7, <1>8, <1>9, <1>10, <1>11, <1>12, <1>13 DEF Next

LEMMA WorkspaceStarts == Init => WInv
<1> SUFFICES ASSUME Init PROVE WInv  OBVIOUS
<1>1. disk \in Disks /\ \A dir \in Dirs : disk[dir].manifest = NoManifest
  BY DEF Init, EmptyDir, Disks, NoManifest
<1>2. DiskOK(disk) /\ \A dir \in Dirs : OpenableAt(disk, dir)  BY <1>1 DEF DiskOK, OpenableAt
<1>3. Good(studio, disk)  BY <1>2, FreshStarts DEF Init, Good
<1>4. faults \in 0..MaxFaults  BY WorkspaceAssumption DEF Init
<1> QED BY <1>3, <1>4 DEF WInv

(* What the invariant says of the model's properties.                       *)
LEMMA WInvShows ==
  WInv => TypeOK /\ WorkspacesOpen /\ CleanMeansSaved /\ CleanReopens
<1> SUFFICES ASSUME WInv PROVE TypeOK /\ WorkspacesOpen /\ CleanMeansSaved /\ CleanReopens
  OBVIOUS
<1>1. /\ Good(studio, disk) /\ studio \in Window /\ ProjectOK(studio.files) /\ EditorOK(studio)
      /\ DiskOK(disk) /\ Listed(studio, disk)
  BY DEF WInv, Good, Sound, Shape
<1>2. TypeOK  BY <1>1 DEF TypeOK, Window, ProjectOK, EditorOK, DiskOK, Disks
<1>3. WorkspacesOpen
  BY <1>1 DEF WorkspacesOpen, Good, Whole, OpenableAt, DiskOK, ManifestOK
<1>4. CleanMeansSaved
  BY <1>1 DEF CleanMeansSaved, Listed, Good, Whole, Settled, Unsaved, Dirty
<1>5. CleanReopens  BY <1>1, ListedOpenable DEF CleanReopens, Good
<1> QED BY <1>2, <1>3, <1>4, <1>5

LEMMA WorkspaceInvariant ==
  ASSUME UnsavedOps = {}
  PROVE  Spec => []WInv
<1>1. WInv /\ [Next]_vars => WInv'
  <2> SUFFICES ASSUME WInv, [Next]_vars PROVE WInv'  OBVIOUS
  <2>1. CASE Next  BY <2>1, WorkspaceStep
  <2>2. CASE UNCHANGED vars
    <3>1. studio' = studio /\ disk' = disk /\ faults' = faults  BY <2>2 DEF vars
    <3>2. Good(studio, disk)'  BY <3>1 DEF WInv, Good, Flawless
    <3> QED BY <3>1, <3>2 DEF WInv
  <2> QED BY <2>1, <2>2
<1> QED BY WorkspaceStarts, <1>1, PTL DEF Spec

(* MainWindow's fields and the disk keep their kinds.                       *)
THEOREM WorkspaceTyped ==
  ASSUME UnsavedOps = {}
  PROVE  Spec => []TypeOK
BY WorkspaceInvariant, WInvShows, PTL

(* Whatever the user does, as long as no write throws, NovaWorkspaceService *)
(* can open every workspace that has a manifest.                           *)
THEOREM EveryWorkspaceOpens ==
  ASSUME UnsavedOps = {}
  PROVE  Spec => []WorkspacesOpen
BY WorkspaceInvariant, WInvShows, PTL

(* A title without an asterisk means that memory and disk agree: no handler *)
(* clears a flag or marks a text as saved that is not on disk.              *)
THEOREM TitleIsTrue ==
  ASSUME UnsavedOps = {}
  PROVE  Spec => []CleanMeansSaved
BY WorkspaceInvariant, WInvShows, PTL

(* Writes may throw anywhere: the manifest's flag is clear only while the   *)
(* manifest on disk lists the project and opens.                            *)
THEOREM FlagIsTrue ==
  ASSUME UnsavedOps = {}
  PROVE  Spec => []CleanReopens
BY WorkspaceInvariant, WInvShows, PTL

(* No handler loses an unsaved edit the user did not agree to lose, unless  *)
(* it ends Studio, wherever one of its writes throws.                       *)
THEOREM NoEditIsLost ==
  ASSUME UnsavedOps = {}
  PROVE  Spec => NoSilentLoss
<1>1. WInv /\ [Next]_vars => [Keeps]_vars  BY WorkspaceStep
<1>2. [][Keeps]_vars => NoSilentLoss  BY PTL DEF NoSilentLoss, Keeps
<1> QED BY WorkspaceInvariant, <1>1, <1>2, PTL DEF Spec
=============================================================================
