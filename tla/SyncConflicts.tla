---------------------------- MODULE SyncConflicts ----------------------------
(***************************************************************************)
(* What syncing leaves in the settings folder, and moving that folder      *)
(* (opensesh-core/src/sync.rs from `Change` on, and the `SettingsSync`     *)
(* singleton, opensesh-app/src/bridge/settings_sync.rs).  Two lanes.       *)
(* "conflict": Syncthing brings copies, a pull leaves markers, the app     *)
(* saves, scans look for conflicts on threads of their own, the dialog     *)
(* shows one, and a job writes what it resolves to.  "folder": the pointer *)
(* to another settings folder, with or without copying the settings there; *)
(* the copy of a file may break off and leave a part of it.                *)
(*                                                                         *)
(* A file's content is a function from what it holds (records by id, plain *)
(* values by key) to their version, Absent for what is not there.  A file  *)
(* of WholeFiles is not TOML and has one entry, "*".                       *)
(***************************************************************************)
EXTENDS Integers, Sequences, SequencesExt, FiniteSets

CONSTANTS None, Absent,
          Git,            \* ConflictSource::Git
          Files,          \* the files of the folder, in the order of their names
          WholeFiles,     \* those that are not TOML
          Ids,            \* what a TOML file can hold
          Mine,           \* what this computer's TOML files hold at first
          Contents,       \* what another computer's version may be
          CopyNames,      \* the names a Syncthing copy can have: 1, 2...
          Budgets         \* bounds: arrivals, saves, opens (and choices), faults

VARIABLES lane,
          disk,       \* file -> [here, marks]: its content, and the other side of
                      \* Git's conflict markers (None without)
          copies,     \* <<file, name>> -> a Syncthing copy's content, None without
          scans,      \* the scans that have not been applied: [read, found]
          watch,      \* a settings file changed and the watcher has not fired
          found,      \* the singleton's conflicts, in its order
          dialog,     \* the dialog: None, or what it shows and the choices made
          job,        \* the job under way (`busy`), None without
          budget,     \* what the bounds leave
          history,    \* the copies OpenSesh removed, and the resolutions it wrote
          fold        \* the folder lane's state

syncVars == <<lane, disk, copies, scans, watch, found, dialog, job, budget, history, fold>>
conflictVars == <<disk, copies, scans, watch, found, dialog, job, budget, history>>

FileSet == ToSet(Files)
ContentsOf(f) == IF f \in WholeFiles THEN [{"*"} -> {1, 2}] ELSE Contents

\* [file, source]: ConflictFile, its source a copy's name or Git.
Conflict(f, source) == [file |-> f, source |-> source]
-----------------------------------------------------------------------------
(* core/src/sync.rs                                                        *)

\* Mutant: without a choice this computer's version is kept.
DefaultHere(here, there) == "here"

\* Change and default_side: what only the other version has is kept.
default_side(here, there) == IF here = Absent /\ there # Absent THEN "there" ELSE "here"

\* differences: the entries that are not the same on both sides.
differences(here, there) == {k \in DOMAIN here : here[k] # there[k]}

\* resolve: each difference takes the side chosen, else its default.
resolve(here, there, choices) ==
    [k \in DOMAIN here |->
        LET side == IF k \in DOMAIN choices THEN choices[k]
                    ELSE default_side(here[k], there[k])
        IN  IF k \in differences(here, there) /\ side = "there" THEN there[k] ELSE here[k]]

\* resolved_text: a file that is not TOML keeps one whole side.
resolved_text(f, sides, choices) ==
    IF f \in WholeFiles
    THEN IF "*" \in DOMAIN choices /\ choices["*"] = "there" THEN sides.there ELSE sides.here
    ELSE resolve(sides.here, sides.there, choices)

\* find_conflicts: copies and files with markers, by name ("a.sync-conflict-..."
\* comes before "a.toml"); markers only in .toml files.
ConflictsOf(f) ==
    SelectSeq([n \in 1..Cardinality(CopyNames) |-> Conflict(f, n)],
              LAMBDA c : copies[<<c.file, c.source>>] # None)
        \o (IF disk[f].marks # None /\ f \notin WholeFiles
            THEN <<Conflict(f, Git)>> ELSE <<>>)
find_conflicts == FlattenSeq([i \in DOMAIN Files |-> ConflictsOf(Files[i])])

\* sides: None when the copy or the markers are gone (split_git_conflict).
sides(c) ==
    IF c.source = Git
    THEN IF disk[c.file].marks = None THEN None
         ELSE [here |-> disk[c.file].here, there |-> disk[c.file].marks]
    ELSE IF copies[<<c.file, c.source>>] = None THEN None
         ELSE [here |-> disk[c.file].here, there |-> copies[<<c.file, c.source>>]]
-----------------------------------------------------------------------------
(* The other computers and this app                                        *)

InConflicts == lane = "conflict" /\ UNCHANGED <<lane, fold>>
Spend(what) == budget[what] > 0 /\ budget' = [budget EXCEPT ![what] = @ - 1]
\* The watcher sees .toml files only.
Seen(f) == watch' = (watch \/ f \notin WholeFiles)

\* Syncthing brings a copy of the other computer's version, each under a name
\* of its own.
CopyArrives(f, n, content) ==
    /\ InConflicts /\ copies[<<f, n>>] = None /\ n \notin history.names[f]
    /\ Spend("arrivals")
    /\ copies' = [copies EXCEPT ![<<f, n>>] = content]
    /\ history' = [history EXCEPT !.names[f] = @ \cup {n}]
    /\ Seen(f)
    /\ UNCHANGED <<disk, scans, found, dialog, job>>

\* Another computer resolved it: its copy goes here too.
CopyGoes(f, n) ==
    /\ InConflicts /\ copies[<<f, n>>] # None
    /\ Spend("arrivals")
    /\ copies' = [copies EXCEPT ![<<f, n>>] = None]
    /\ Seen(f)
    /\ UNCHANGED <<disk, scans, found, dialog, job, history>>

\* A pull (by the app's button or a terminal) leaves markers in a file.
PullLeavesMarkers(f, content) ==
    /\ InConflicts /\ disk[f].marks = None
    /\ Spend("arrivals")
    /\ disk' = [disk EXCEPT ![f].marks = content]
    /\ Seen(f)
    /\ UNCHANGED <<copies, scans, found, dialog, job, history>>

\* The app saves one value (write_merging: what it doesn't change stays as it is
\* on disk; a file with markers can't be read, and the app's version wins).
AppSaves(f, k, v) ==
    /\ InConflicts /\ f \notin WholeFiles
    /\ Spend("saves")
    /\ disk' = [disk EXCEPT ![f].here[k] = v, ![f].marks = None]
    /\ Seen(f)
    /\ UNCHANGED <<copies, scans, found, dialog, job, history>>
-----------------------------------------------------------------------------
(* The singleton                                                           *)

Scan == [read |-> FALSE, found |-> <<>>]

\* refresh: a thread of its own for each scan.
Refresh(s) == Append(s, Scan)

\* initialize's watcher.
WatcherFires ==
    /\ InConflicts /\ watch /\ Len(scans) < 2
    /\ watch' = FALSE /\ scans' = Refresh(scans)
    /\ UNCHANGED <<disk, copies, found, dialog, job, budget, history>>

\* scan: what it finds; the program it then asks for Git's status is left out.
ScanReads(i) ==
    /\ InConflicts /\ i \in DOMAIN scans /\ ~scans[i].read
    /\ scans' = [scans EXCEPT ![i] = [read |-> TRUE, found |-> find_conflicts]]
    /\ UNCHANGED <<disk, copies, watch, found, dialog, job, budget, history>>

\* apply_scan, in the order the threads finish.
ApplyScan(i) ==
    /\ InConflicts /\ i \in DOMAIN scans /\ scans[i].read
    /\ found' = scans[i].found
    /\ scans' = SubSeq(scans, 1, i - 1) \o SubSeq(scans, i + 1, Len(scans))
    /\ UNCHANGED <<disk, copies, watch, dialog, job, budget, history>>

\* ConflictDialog's show: what each difference starts with.
InitialSide(here, there) == IF here = Absent /\ there # Absent THEN "there" ELSE "here"

\* conflict_details and ConflictDialog's show: the sides are read now, and each
\* difference starts with its default.  The dialog keeps the index.
OpenDialog(i) ==
    /\ InConflicts /\ i \in DOMAIN found /\ dialog = None
    /\ Spend("opens")
    /\ sides(found[i]) # None
    /\ LET s == sides(found[i])
           keys == IF found[i].file \in WholeFiles THEN {"*"} ELSE differences(s.here, s.there)
       IN  dialog' = [index |-> i, shown |-> found[i], working |-> FALSE,
                      choices |-> [k \in keys |->
                          IF k = "*" THEN "here" ELSE InitialSide(s.here[k], s.there[k])]]
    /\ UNCHANGED <<disk, copies, scans, watch, found, job, history>>

Choose(k, side) ==
    /\ InConflicts /\ dialog # None /\ ~dialog.working
    /\ k \in DOMAIN dialog.choices /\ dialog.choices[k] # side
    /\ Spend("opens")
    /\ dialog' = [dialog EXCEPT !.choices[k] = side]
    /\ UNCHANGED <<disk, copies, scans, watch, found, job, history>>

CloseDialog ==
    /\ InConflicts /\ dialog # None
    /\ dialog' = None
    /\ UNCHANGED <<disk, copies, scans, watch, found, job, budget, history>>

\* resolve_conflict: the conflict that has the index now, if there is one.
Accept ==
    /\ InConflicts /\ dialog # None /\ ~dialog.working
    /\ IF dialog.index \in DOMAIN found /\ job = None
       THEN /\ job' = [conflict |-> found[dialog.index], choices |-> dialog.choices,
                       shown |-> dialog.shown, step |-> "read", sides |-> None, text |-> None]
            /\ dialog' = [dialog EXCEPT !.working = TRUE]
       ELSE \* "busy" lets the user try again; without a conflict nothing answers
            /\ dialog' = [dialog EXCEPT !.working = (job = None)]
            /\ UNCHANGED job
    /\ UNCHANGED <<disk, copies, scans, watch, found, budget, history>>

\* The job reads both sides again and works the text out.
JobReads ==
    /\ InConflicts /\ job # None /\ job.step = "read"
    /\ LET s == sides(job.conflict)
       IN  job' = IF s = None THEN [job EXCEPT !.step = "failed"]
                  ELSE [job EXCEPT !.step = "write", !.sides = s,
                                   !.text = resolved_text(job.conflict.file, s, job.choices)]
    /\ UNCHANGED <<disk, copies, scans, watch, found, dialog, budget, history>>

\* finish: the text over the file.
FinishWrites ==
    /\ InConflicts /\ job # None /\ job.step = "write"
    /\ disk' = [disk EXCEPT ![job.conflict.file] = [here |-> job.text, marks |-> None]]
    /\ Seen(job.conflict.file)
    /\ history' = [history EXCEPT !.written = @ \cup {job.text}]
    /\ job' = [job EXCEPT !.step = "written"]
    /\ UNCHANGED <<copies, scans, found, dialog, budget>>

\* The file can't be written: the copy is left.
FinishFails ==
    /\ InConflicts /\ job # None /\ job.step \in {"write", "written"}
    /\ Spend("faults")
    /\ job' = [job EXCEPT !.step = "failed"]
    /\ UNCHANGED <<disk, copies, scans, watch, found, dialog, history>>

\* finish: then Syncthing's copy.
FinishRemoves ==
    /\ InConflicts /\ job # None /\ job.step = "written"
    /\ LET c == job.conflict
       IN  IF c.source = Git THEN UNCHANGED <<copies, history, watch>>
           ELSE /\ copies' = [copies EXCEPT ![<<c.file, c.source>>] = None]
                /\ history' = [history EXCEPT !.removed = @ \cup {job}]
                /\ Seen(c.file)
    /\ job' = [job EXCEPT !.step = "done"]
    /\ UNCHANGED <<disk, scans, found, dialog, budget>>

\* run's end on the GUI thread: not busy, `finished` for the dialog, a refresh.
JobEnds ==
    /\ InConflicts /\ job # None /\ job.step \in {"done", "failed"} /\ Len(scans) < 2
    /\ job' = None
    /\ dialog' = IF dialog = None THEN None
                 ELSE IF job.step = "done" THEN None ELSE [dialog EXCEPT !.working = FALSE]
    /\ scans' = Refresh(scans)
    /\ UNCHANGED <<disk, copies, watch, found, budget, history>>

\* The app stops anywhere and starts again (initialize).
Restart ==
    /\ InConflicts /\ Spend("faults")
    /\ job' = None /\ dialog' = None /\ found' = <<>> /\ scans' = Refresh(<<>>)
    /\ watch' = FALSE
    /\ UNCHANGED <<disk, copies, history>>
-----------------------------------------------------------------------------
(* folder.  Folders: "default" (local_config_dir), "a", "b" (not mounted    *)
(* at first or later).  holds[folder][file]: whose version is there, "part" *)
(* of one that was not copied to its end, None without the file.            *)

InFolder == lane = "folder" /\ UNCHANGED <<lane, conflictVars>>
Folders == {"default", "a", "b"}

\* location: the folder the pointer names; AppPaths::with_location uses it when
\* it is there.
location(s) == IF s.pointer = None THEN "default" ELSE s.pointer
with_location(s) == IF location(s) \in s.there THEN location(s) ELSE "default"

\* set_folder, run on a worker thread.  A folder that is not there is made (a
\* drive's is as it was left).
SetFolder(target, mode) ==
    /\ InFolder /\ fold.job = None /\ fold.uses > 0
    /\ mode = "default" => target = "default"
    /\ fold' = [fold EXCEPT !.uses = @ - 1,
          !.job = [target |-> target, mode |-> mode, left |-> IF mode = "copy" THEN FileSet ELSE {},
                   now |-> None,
                   had |-> fold.holds[target], from |-> fold.holds[fold.dir]],
          !.there = IF mode = "default" THEN @ ELSE @ \cup {target}]

\* copy_settings: one file, never over one that is there.  std::fs::copy makes
\* the file and then fills it, in place.
CopyFile(f) ==
    /\ InFolder /\ fold.job # None /\ fold.job.now = None /\ f \in fold.job.left
    /\ LET t == fold.job.target
       IN  fold' = IF fold.holds[t][f] # None \/ fold.holds[fold.dir][f] = None
                   THEN [fold EXCEPT !.job.left = @ \ {f}]
                   ELSE [fold EXCEPT !.job.now = f, !.holds[t][f] = "part"]
FileCopied ==
    /\ InFolder /\ fold.job # None /\ fold.job.now # None
    /\ LET f == fold.job.now
       IN  fold' = [fold EXCEPT !.job.left = @ \ {f}, !.job.now = None,
                       !.holds[fold.job.target][f] = fold.holds[fold.dir][f]]

\* The pointer is written once every file is copied.
PointerReady(j) == j.left = {}

\* set_location, update_folders.
SetLocation ==
    /\ InFolder /\ fold.job # None /\ PointerReady(fold.job)
    /\ LET j == fold.job
           s == [fold EXCEPT !.pointer = IF j.mode = "default" \/ j.target = "default"
                                         THEN None ELSE j.target]
       IN  fold' = [s EXCEPT !.job = None, !.moved = [last |-> j, at |-> s.holds[j.target]],
                             !.next = location(s), !.needed = location(s) # s.dir]

\* A copy or the pointer fails, or the app stops: the pointer stays as it was, and
\* so does what was copied of a file.
FolderFails(stops) ==
    /\ InFolder /\ fold.faults > 0 /\ (fold.job # None \/ stops)
    /\ fold' = [fold EXCEPT !.job = None, !.faults = @ - 1,
                   !.dir = IF stops THEN with_location(fold) ELSE @,
                   !.next = location(fold),
                   !.needed = location(fold) # (IF stops THEN with_location(fold) ELSE fold.dir)]

\* A drive is plugged in or out.
DriveChanges ==
    /\ InFolder /\ fold.faults > 0 /\ fold.job = None
    /\ fold' = [fold EXCEPT !.faults = @ - 1, !.there = (@ \cup {"b"}) \ (@ \cap {"b"})]

NoFolder == [dir |-> "default", pointer |-> None, there |-> {"default"}, job |-> None,
             holds |-> [d \in Folders |-> [f \in FileSet |-> None]],
             next |-> "default", needed |-> FALSE, uses |-> 0, faults |-> 0, moved |-> None]
-----------------------------------------------------------------------------
SyncInit ==
    /\ lane \in {"conflict", "folder"}
    /\ disk = [f \in FileSet |-> [here |-> IF f \in WholeFiles THEN [k \in {"*"} |-> 1] ELSE Mine,
                                 marks |-> None]]
    /\ copies = [c \in FileSet \X CopyNames |-> None]
    /\ scans = IF lane = "conflict" THEN <<Scan>> ELSE <<>>
    /\ watch = FALSE /\ found = <<>> /\ dialog = None /\ job = None
    /\ budget \in IF lane = "conflict" THEN Budgets
                  ELSE {[arrivals |-> 0, saves |-> 0, opens |-> 0, faults |-> 0]}
    /\ history = [names |-> [f \in FileSet |-> {}], removed |-> {}, written |-> {}]
    /\ fold \in IF lane = "conflict" THEN {NoFolder}
                ELSE {[NoFolder EXCEPT !.there = {"default"} \cup other,
                                       !.uses = 2, !.faults = 2,
                                       !.holds = [d \in Folders |-> [f \in FileSet |->
                                           IF d = "default" THEN "mine"
                                           ELSE IF d \in other /\ f \in theirs THEN "theirs"
                                           ELSE None]]] :
                      other \in SUBSET {"a", "b"}, theirs \in SUBSET FileSet}

SyncNext ==
    \/ \E f \in FileSet, n \in CopyNames :
          CopyGoes(f, n) \/ \E content \in ContentsOf(f) : CopyArrives(f, n, content)
    \/ \E f \in FileSet : \E content \in ContentsOf(f) : PullLeavesMarkers(f, content)
    \/ \E f \in FileSet, k \in Ids : AppSaves(f, k, 3)
    \/ WatcherFires \/ \E i \in 1..2 : ScanReads(i) \/ ApplyScan(i)
    \/ (\E i \in 1..3 : OpenDialog(i)) \/ CloseDialog \/ Accept
    \/ \E k \in Ids \cup {"*"}, side \in {"here", "there"} : Choose(k, side)
    \/ JobReads \/ FinishWrites \/ FinishFails \/ FinishRemoves \/ JobEnds \/ Restart
    \/ \E target \in Folders, mode \in {"default", "copy", "use"} : SetFolder(target, mode)
    \/ (\E f \in FileSet : CopyFile(f)) \/ FileCopied \/ SetLocation
    \/ (\E stops \in BOOLEAN : FolderFails(stops)) \/ DriveChanges

SyncSpec == SyncInit /\ [][SyncNext]_syncVars
-----------------------------------------------------------------------------
\* "Records on one side only are kept by default, so nothing is lost": a copy
\* OpenSesh removed was first written into its file, with everything the choices
\* asked of the other version, everything of this computer's that they did not
\* give up and, where they say nothing, with everything this computer did not
\* have, also when the choices were made for what the files held earlier, or the
\* app stopped between the two steps.  (The versions are those the job read: what
\* is saved between its reading and its writing is written over.)
NothingLost ==
    \A r \in history.removed :
        /\ r.text \in history.written
        /\ \A k \in DOMAIN r.text :
              LET chosen == k \in DOMAIN r.choices
              IN  /\ (chosen /\ r.choices[k] = "there") => r.text[k] = r.sides.there[k]
                  /\ ((~chosen \/ r.choices[k] = "here") /\ r.sides.here[k] # Absent) =>
                         r.text[k] = r.sides.here[k]
                  /\ (~chosen /\ "*" \notin DOMAIN r.text /\ r.sides.here[k] = Absent) =>
                         r.text[k] = r.sides.there[k]
                  /\ r.text[k] = Absent => Absent \in {r.sides.here[k], r.sides.there[k]}

\* Moving the settings never writes over a file of the folder they move to, and
\* the pointer names a folder the settings were to be copied to only once every
\* one of them is there, whole unless an earlier copy that broke off had left a
\* part of it (which is a file that is there); what the page says of the next
\* start is what the pointer says.
MoveKeeps ==
    lane = "folder" =>
        /\ fold.moved # None =>
               \A f \in FileSet :
                   LET j == fold.moved.last
                   IN  /\ j.had[f] # None => fold.moved.at[f] = j.had[f]
                       /\ (j.mode = "copy" /\ j.from[f] # None) => fold.moved.at[f] # None
                       /\ fold.moved.at[f] = "part" => "part" \in {j.had[f], j.from[f]}
        /\ fold.job = None => fold.next = location(fold)
        /\ fold.job = None => (fold.needed <=> fold.next # fold.dir)

\* "Resolve... shows what differs, by host, group or snippet, and lets you keep
\* either side of each" (docs/sync.md): the conflict a job resolves is the one
\* whose differences the dialog showed.
ResolvesWhatWasShown == job # None => job.conflict = job.shown
=============================================================================
