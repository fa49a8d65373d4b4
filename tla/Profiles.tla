------------------------------ MODULE Profiles ------------------------------
(***************************************************************************)
(* Terminal profiles, themes and highlighting rules: many small files held *)
(* in one library (app/src/terminal/profiles.rs), edited and saved by the  *)
(* TerminalProfiles singleton (app/src/bridge/terminal_profiles.rs)        *)
(* through the background writer (core/src/writer.rs) with ONE SaveTracker *)
(* for all of them, and read again when somebody else changes a file.      *)
(*                                                                         *)
(* A file is Absent, Broken (not TOML) or a table of four keys: the schema *)
(* version, the name, one option and one key only a newer version knows.   *)
(***************************************************************************)
EXTENDS Naturals, Sequences, TLC

CONSTANTS
    None, Absent, Broken, \* no value, no file, a file that is not TOML
    Budgets,    \* bound: how many changes by the user and by somebody else, and
                \* how many failing writes, a run has
    MaxReaders  \* bound: reload threads at once

Default == "default"
Profiles == {Default, "ops", "ops-2"}
Themes == {"mine"}
Rules == "highlights"
Out == "exported"   \* a theme exported to a folder of the user's
Files == Profiles \cup Themes \cup {Rules}

Bad == 9   \* a value that fails its option's check

Doc(newer, name, opt, new) == [newer |-> newer, name |-> name, opt |-> opt, new |-> new]
IsDoc(file) == file \notin {Absent, Broken}

VARIABLES
    disk,     \* the files
    base,     \* Baselines: what each file held when last read or written here
    lib,      \* the library: an entry for each file that was read, or None
    queued, finished, wanted,   \* the SaveTracker
    chan,     \* messages to the writer
    waiting,  \* writes the writer debounces, by file
    passing,  \* the writer is inside write_all
    gui,      \* closures queued on the GUI thread
    readers,  \* what the reload threads have read and not posted yet
    dirty,    \* a watcher has seen a change it has not reported
    budget,   \* what is left of them
    unsaved,  \* history: the user's text of each file that is not on disk yet
    gone,     \* history: files the user deleted and nobody made again
    failed    \* history: a failed save was reported

saveVars == <<queued, finished, wanted>>
writerVars == <<chan, waiting, passing>>
reloadVars == <<gui, readers, dirty>>
ghostVars == <<unsaved, gone, failed>>
profileVars == <<disk, base, lib, saveVars, writerVars, reloadVars, budget, ghostVars>>

-----------------------------------------------------------------------------
\* The documents.

\* Profile::new, HighlightLibrary::default
Empty == [name |-> 0, opt |-> 0, new |-> FALSE, ro |-> FALSE]

\* SettingValue::from_toml and the options' checks.
Valid(opt) == opt # Bad

\* TerminalOverrides::from_table: a value that fails is left out; a key this
\* version does not know is kept (`new`).
FromTable(opt) == IF Valid(opt) THEN opt ELSE 0

\* parse_set, parse_rule: a rule whose pattern does not compile is left out.
ParseSet(opt) == IF Valid(opt) THEN opt ELSE 0

\* Profile::from_toml_str
ReadProfile(file) ==
    [name |-> file.name, opt |-> FromTable(file.opt), new |-> file.new, ro |-> file.newer]

\* TerminalTheme::from_toml_str: no unknown key is kept, no version is refused;
\* without its text color the theme is skipped.
ReadTheme(file) ==
    IF FromTable(file.opt) = 0 THEN None
    ELSE [name |-> file.name, opt |-> file.opt, new |-> FALSE, ro |-> FALSE]

\* HighlightLibrary::load_file and from_toml_str: "Never overwrite a file we
\* couldn't read."
ReadRules(file) ==
    CASE file = Absent -> Empty
      [] file = Broken -> [Empty EXCEPT !.ro = TRUE]
      [] OTHER -> [ReadProfile(file) EXCEPT !.opt = ParseSet(file.opt)]

\* ProfileSet::load_dir, ThemeSet::load_dir and load_disk: a broken file is
\* skipped; the default profile is always there.
Read(f, file) ==
    CASE f = Rules -> ReadRules(file)
      [] f # Rules /\ ~IsDoc(file) -> IF f = Default THEN Empty ELSE None
      [] f \in Profiles /\ IsDoc(file) -> ReadProfile(file)
      [] f \in Themes /\ IsDoc(file) -> ReadTheme(file)

LoadDisk(files) == [f \in Files |-> Read(f, files[f])]

\* Profile, HighlightLibrary and TerminalTheme::to_toml_string: always this
\* version's schema.
ToText(entry) == Doc(FALSE, entry.name, entry.opt, entry.new)

\* sync::merge3 of the four keys.
Merge3(b, ours, theirs) ==
    IF Broken \in {b, theirs} THEN ours
    ELSE [k \in DOMAIN ours |-> IF ours[k] = b[k] THEN theirs[k] ELSE ours[k]]

-----------------------------------------------------------------------------
PInit ==
    /\ disk \in {[f \in Files \cup {Out} |->
                    CASE f = Default -> d [] f = "ops" -> Doc(FALSE, 1, 1, TRUE)
                      [] f = Rules -> r [] OTHER -> Absent] :
                   <<d, r>> \in {<<Absent, Absent>>, <<Doc(TRUE, 1, 1, TRUE), Broken>>}}
    /\ lib = LoadDisk(disk)
    /\ base = [f \in Files \cup {Out} |-> IF disk[f] = Absent THEN None ELSE disk[f]]
    /\ queued = 0 /\ finished = 0 /\ wanted = FALSE
    /\ chan = <<>> /\ waiting = [f \in Files \cup {Out} |-> None] /\ passing = FALSE
    /\ gui = <<>> /\ readers = <<>> /\ dirty = FALSE
    /\ budget \in Budgets
    /\ unsaved = [f \in Files |-> None] /\ gone = {} /\ failed = FALSE

\* SaveTracker::pending
Pending(done) == done < queued

\* queue_write: the tracker's next number, and the message.
QueueWrite(f, text) ==
    /\ queued' = queued + 1
    /\ chan' = Append(chan, [op |-> "write", file |-> f, text |-> text, seq |-> queued + 1])
    /\ gone' = gone \ {f}

\* queue_remove
QueueRemove(f) ==
    /\ queued' = queued + 1
    /\ chan' = Append(chan, [op |-> "remove", file |-> f, text |-> None, seq |-> queued + 1])
    /\ unsaved' = [unsaved EXCEPT ![f] = None]
    /\ gone' = gone \cup {f}

Spend(k) == budget[k] > 0 /\ budget' = [budget EXCEPT ![k] = @ - 1]

Edits ==
    /\ Spend("edits")
    /\ UNCHANGED <<disk, base, finished, wanted, waiting, passing, reloadVars, failed>>

\* profiles::update and save_profile, save_theme_file or save_highlights.
Put(f, entry) ==
    /\ Edits
    /\ lib' = [lib EXCEPT ![f] = entry]
    /\ QueueWrite(f, ToText(entry))
    /\ unsaved' = [unsaved EXCEPT ![f] = ToText(entry)]

\* update and queue_remove
Drop(f) ==
    /\ Edits
    /\ lib' = [lib EXCEPT ![f] = None]
    /\ QueueRemove(f)

Writable(f) == lib[f] # None /\ ~lib[f].ro

\* set_option and reset_option (opt 0): refused on a read-only profile, nothing
\* is saved when nothing changes.
SetOption(f, opt) ==
    /\ f \in Profiles /\ Writable(f)
    /\ opt # lib[f].opt
    /\ Put(f, [lib[f] EXCEPT !.opt = opt])

RenameProfile(f, name) ==
    /\ f \in Profiles /\ Writable(f)
    /\ Put(f, [lib[f] EXCEPT !.name = name])

\* ProfileSet::unique_id: the first id of the name that no profile uses.
UniqueId == IF lib["ops"] = None THEN "ops" ELSE "ops-2"

\* create_profile: a copy of another profile's options, never of the default's.
CreateProfile(from) ==
    /\ lib[UniqueId] = None   \* bound: a third id is not modelled
    /\ Put(UniqueId, [Empty EXCEPT !.name = 2, !.opt =
         IF from \in Profiles \ {Default} /\ lib[from] # None THEN lib[from].opt ELSE 0])

\* delete_profile: never the default; read-only ones too.
DeleteProfile(f) ==
    /\ f \in Profiles \ {Default} /\ lib[f] # None
    /\ Drop(f)

\* save_theme, duplicate_theme: colors_from_json takes whole themes only.
SaveTheme(f, opt) ==
    /\ f \in Themes /\ opt # 0
    /\ Put(f, [Empty EXCEPT !.name = IF lib[f] = None THEN 2 ELSE lib[f].name, !.opt = opt])

DeleteTheme(f) ==
    /\ f \in Themes /\ lib[f] # None
    /\ Drop(f)

\* save_highlight_set, duplicate_highlight_set, delete_highlight_set (opt 0):
\* refused while the rules are read-only.
SaveHighlightSet(opt) ==
    /\ ~lib[Rules].ro
    /\ opt # lib[Rules].opt
    /\ Put(Rules, [lib[Rules] EXCEPT !.opt = opt])

\* import_theme: its thread reads the file and posts finish_import.
ImportTheme(opt) ==
    /\ Spend("edits")
    /\ gui' = Append(gui, [do |-> "import", seq |-> opt, files |-> None])
    /\ UNCHANGED <<disk, base, lib, saveVars, writerVars, readers, dirty, ghostVars>>

\* export_theme: through the same writer, but not counted by the tracker.
ExportTheme(f) ==
    /\ f \in Themes /\ lib[f] # None
    /\ Edits
    /\ chan' = Append(chan, [op |-> "write", file |-> Out, text |-> ToText(lib[f]), seq |-> 0])
    /\ UNCHANGED <<lib, queued, unsaved, gone>>

\* import_bundle: a profile file whose name is free on disk is written as it is;
\* the library reads it once the writes settle.
ImportBundle(f, file) ==
    /\ f \in Profiles \ {Default} /\ disk[f] = Absent
    /\ Spend("edits")
    /\ QueueWrite(f, file)
    /\ wanted' = TRUE
    /\ UNCHANGED <<disk, base, lib, finished, waiting, passing, reloadVars, unsaved, failed>>

-----------------------------------------------------------------------------
\* The writer thread.

\* Mutant: a removal leaves the write that waits for the file.
ReceiveKeepsPending ==
    /\ chan # <<>> /\ ~passing
    /\ chan' = Tail(chan)
    /\ LET m == Head(chan) IN
       IF m.op = "write"
       THEN /\ waiting' = [waiting EXCEPT ![m.file] = m]
            /\ UNCHANGED <<disk, base, gui, dirty, budget>>
       ELSE /\ UNCHANGED <<waiting, budget>>
            /\ base' = [base EXCEPT ![m.file] = None]
            /\ disk' = [disk EXCEPT ![m.file] = Absent]
            /\ gui' = Append(gui, [do |-> "saved", seq |-> m.seq, files |-> None])
            /\ dirty' = (dirty \/ disk' # disk)
    /\ UNCHANGED <<passing, lib, saveVars, readers, ghostVars>>

\* A write waits (a newer one takes its place, its callback is dropped); a
\* removal is done at once: it drops the write that waits for the file, and may
\* fail.
Receive ==
    /\ chan # <<>> /\ ~passing
    /\ chan' = Tail(chan)
    /\ LET m == Head(chan) IN
       IF m.op = "write"
       THEN /\ waiting' = [waiting EXCEPT ![m.file] = m]
            /\ UNCHANGED <<disk, base, gui, dirty, budget>>
       ELSE \E ok \in BOOLEAN :
            /\ IF ok THEN UNCHANGED budget ELSE Spend("failures")
            /\ waiting' = [waiting EXCEPT ![m.file] = None]
            /\ base' = [base EXCEPT ![m.file] = None]
            /\ disk' = IF ok THEN [disk EXCEPT ![m.file] = Absent] ELSE disk
            /\ gui' = Append(gui, [do |-> IF ok THEN "saved" ELSE "failed", seq |-> m.seq,
                                   files |-> None])
            /\ dirty' = (dirty \/ disk' # disk)
    /\ UNCHANGED <<passing, lib, saveVars, readers, ghostVars>>

\* What write_merging puts in the file, and the callback's closure.
Written(m) ==
    IF base[m.file] # None /\ disk[m.file] \notin {Absent, base[m.file], m.text}
    THEN Merge3(base[m.file], m.text, disk[m.file])
    ELSE m.text

\* No message for the debounce time: write_all begins...
Debounced ==
    /\ chan = <<>> /\ ~passing
    /\ \E f \in DOMAIN waiting : waiting[f] # None
    /\ passing' = TRUE
    /\ UNCHANGED <<disk, base, lib, saveVars, chan, waiting, reloadVars, budget, ghostVars>>

\* ... with the files in the order of their paths...
PathOrder == <<Rules, Default, "ops-2", "ops", "mine", Out>>
FirstWaiting == PathOrder[CHOOSE k \in DOMAIN PathOrder :
                     /\ waiting[PathOrder[k]] # None
                     /\ \A j \in 1..(k - 1) : waiting[PathOrder[j]] = None]

\* ... one after another; what is sent meanwhile stays in the channel.
WriteOne(f) ==
    /\ passing /\ f = FirstWaiting
    /\ \E ok \in BOOLEAN :
        /\ IF ok THEN UNCHANGED budget ELSE Spend("failures")
        /\ disk' = IF ok THEN [disk EXCEPT ![f] = Written(waiting[f])] ELSE disk
        /\ base' = IF ok /\ (base[f] # None) THEN [base EXCEPT ![f] = waiting[f].text]
                   ELSE base
        /\ gui' = IF f = Out THEN gui
                  ELSE Append(gui, [do |-> IF ok THEN "saved" ELSE "failed",
                                    seq |-> waiting[f].seq, files |-> None])
    /\ waiting' = [waiting EXCEPT ![f] = None]
    /\ passing' = (\E g \in DOMAIN waiting : waiting'[g] # None)
    /\ unsaved' = IF f \in Files /\ unsaved[f] = waiting[f].text
                  THEN [unsaved EXCEPT ![f] = None] ELSE unsaved
    /\ dirty' = (dirty \/ (f # Out /\ disk' # disk))
    /\ UNCHANGED <<lib, saveVars, chan, readers, gone, failed>>

\* Somebody else edits a file, breaks it, or removes it.
External(f, file) ==
    /\ Spend("changes")
    /\ disk[f] # file
    /\ disk' = [disk EXCEPT ![f] = file]
    /\ dirty' = TRUE
    /\ gone' = gone \ {f}
    /\ UNCHANGED <<base, lib, saveVars, writerVars, gui, readers, unsaved,
                   failed>>

\* FileWatcher: quiet for the debounce time.
WatcherFires ==
    /\ dirty /\ dirty' = FALSE
    /\ gui' = Append(gui, [do |-> "reload", seq |-> 0, files |-> None])
    /\ UNCHANGED <<disk, base, lib, saveVars, writerVars, readers, budget, ghostVars>>

-----------------------------------------------------------------------------
\* The GUI thread runs its closures in order.

\* reload_in_background
Spawn ==
    /\ Len(readers) < MaxReaders
    /\ readers' = Append(readers, None)

Reload ==
    /\ Head(gui).do = "reload"
    /\ Spawn
    /\ UNCHANGED <<lib, saveVars, chan, dirty, unsaved, gone, failed>>

\* save_done: SaveTracker::finished, the failure is told, take_reload.
SaveDone ==
    /\ Head(gui).do \in {"saved", "failed"}
    /\ finished' = IF Head(gui).seq > finished THEN Head(gui).seq ELSE finished
    /\ failed' = (failed \/ Head(gui).do = "failed")
    /\ IF wanted /\ ~Pending(finished')
       THEN Spawn /\ wanted' = FALSE
       ELSE UNCHANGED <<readers, wanted>>
    /\ UNCHANGED <<lib, queued, chan, dirty, unsaved, gone>>

\* apply_disk
ApplyDisk ==
    /\ Head(gui).do = "apply"
    /\ IF Pending(finished)
       THEN wanted' = TRUE /\ UNCHANGED lib
       ELSE lib' = LoadDisk(Head(gui).files) /\ UNCHANGED wanted
    /\ UNCHANGED <<queued, finished, chan, readers, dirty, unsaved, gone, failed>>

\* finish_import: a new theme under an id that is free (when the modelled one is
\* taken, under one that is not modelled).
FinishImport ==
    /\ Head(gui).do = "import"
    /\ LET f == CHOOSE t \in Themes : TRUE
           entry == [Empty EXCEPT !.name = 2, !.opt = Head(gui).seq]
       IN IF lib[f] # None
          THEN UNCHANGED <<lib, queued, chan, unsaved, gone>>
          ELSE
          /\ lib' = [lib EXCEPT ![f] = entry]
          /\ QueueWrite(f, ToText(entry))
          /\ unsaved' = [unsaved EXCEPT ![f] = ToText(entry)]
    /\ UNCHANGED <<finished, wanted, readers, dirty, failed>>

Gui ==
    /\ gui # <<>>
    /\ gui' = Tail(gui)
    /\ Reload \/ SaveDone \/ ApplyDisk \/ FinishImport
    /\ UNCHANGED <<disk, base, waiting, passing, budget>>

\* load_disk on a reload thread: every file is read through the baselines...
ThreadReads(t) ==
    /\ readers[t] = None
    /\ readers' = [readers EXCEPT ![t] = disk]
    /\ base' = [f \in DOMAIN base |-> IF f = Out \/ disk[f] = Absent THEN base[f] ELSE disk[f]]
    /\ UNCHANGED <<disk, lib, saveVars, writerVars, gui, dirty, budget, ghostVars>>

\* ... and the result is posted, in whatever order the threads get there.
ThreadPosts(t) ==
    /\ readers[t] # None
    /\ gui' = Append(gui, [do |-> "apply", seq |-> 0, files |-> readers[t]])
    /\ readers' = SubSeq(readers, 1, t - 1) \o SubSeq(readers, t + 1, Len(readers))
    /\ UNCHANGED <<disk, base, lib, saveVars, writerVars, dirty, budget, ghostVars>>

User ==
    \/ \E f \in Profiles : \/ \E v \in {0, 2} : SetOption(f, v)
                           \/ RenameProfile(f, 2)
                           \/ CreateProfile(f)
                           \/ DeleteProfile(f)
                           \/ ImportBundle(f, Doc(TRUE, 1, 1, TRUE))
    \/ \E f \in Themes : SaveTheme(f, 2) \/ DeleteTheme(f) \/ ExportTheme(f)
    \/ \E v \in {0, 2} : SaveHighlightSet(v)
    \/ ImportTheme(1)

PNext ==
    \/ User \/ Receive \/ Debounced \/ WatcherFires \/ Gui
    \/ \E f \in Files \cup {Out} : WriteOne(f)
    \/ External("ops", Broken) \/ External("ops", Absent)
    \/ External(Rules, Doc(FALSE, 1, Bad, FALSE))
    \/ \E t \in DOMAIN readers : ThreadReads(t) \/ ThreadPosts(t)

PSpec == PInit /\ [][PNext]_profileVars

-----------------------------------------------------------------------------
\* Nothing is on its way to or from the disk.
Quiet ==
    /\ chan = <<>> /\ gui = <<>> /\ readers = <<>> /\ ~dirty
    /\ \A f \in DOMAIN waiting : waiting[f] = None

(***************************************************************************)
(* When everything has settled the terminals use what the files hold, for  *)
(* all the files at once although one tracker counts their saves, and no   *)
(* reload is left wanted.  Claimed for runs without a failed save, and   *)
(* for one reload thread at a time: the code does not order two.          *)
(***************************************************************************)
LibrarySettles ==
    Quiet /\ ~failed => lib = LoadDisk(disk) /\ ~wanted

(***************************************************************************)
(* A profile or theme the user deleted stays deleted, in memory and on     *)
(* disk, whatever saves of it were waiting and whatever a reload thread    *)
(* had read before ("A write still waiting for this file would bring it    *)
(* back").                                                                 *)
(***************************************************************************)
DeletedStays ==
    Quiet /\ ~failed =>
        \A f \in gone : disk[f] = Absent /\ lib[f] = None

=============================================================================
