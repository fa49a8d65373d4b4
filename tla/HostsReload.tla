----------------------------- MODULE HostsReload -----------------------------
(***************************************************************************)
(* The Hosts singleton (opensesh-app/src/bridge/hosts.rs) over the         *)
(* settings writer of SettingsSync: a SaveTracker (app/src/saves.rs), the  *)
(* file watcher (core/src/watch.rs), and reload threads that read the file *)
(* and post it back to the GUI thread.  Snippets and Tunnels follow the    *)
(* same code.  Somebody else (an editor, Syncthing, git pull) also changes *)
(* the file, without the folder's lock.                                    *)
(***************************************************************************)
EXTENDS SettingsSync

CONSTANTS
    Slots,        \* bound: reload threads that can run at once
    MaxExternal   \* bound: changes made by somebody else

VARIABLES
    done,    \* SaveTracker::done
    wanted,  \* SaveTracker::reload_wanted
    locked,  \* the file could not be parsed: never saved over
    noticed, \* the watcher has an event it has not reported yet
    posted,  \* closures queued on the GUI thread
    thr,     \* the reload threads
    changes, \* changes made by somebody else so far
    intact,  \* what the file held before somebody else broke it
    overlap  \* two reload threads ran at once, or one moved the baseline under a
             \* write (a history variable)

reloadVars == <<done, wanted, locked, noticed, posted, thr, changes, intact, overlap>>
allVars == <<vars, reloadVars>>

NoThread == [st |-> "none", text |-> Missing]

ReloadEvent == [kind |-> "reload", seq |-> 0, text |-> Missing]
DoneEvent(seq) == [kind |-> "done", seq |-> seq, text |-> Missing]
ApplyEvent(text) == [kind |-> "apply", seq |-> 0, text |-> text]

\* SaveTracker::pending
Pending(i) == done[i] < queued[i]

HInit ==
    /\ Init
    /\ done = [i \in Instances |-> 0]
    /\ wanted = [i \in Instances |-> FALSE]
    /\ locked = [i \in Instances |-> FALSE]
    /\ noticed = [i \in Instances |-> FALSE]
    /\ posted = [i \in Instances |-> <<>>]
    /\ thr = [i \in Instances |-> [t \in Slots |-> NoThread]]
    /\ changes = 0
    /\ intact = Content(disk)
    /\ overlap = [i \in Instances |-> FALSE]

-----------------------------------------------------------------------------
\* Hosts::modify: refused while the file is locked; publishes the new list and
\* saves it with the tracker's next sequence number.
Modify(i, x, v) ==
    /\ ~locked[i]
    /\ Edit(i, x, v)
    /\ UNCHANGED reloadVars

\* notify tells every watcher of the folder when the file is replaced; the
\* watcher's debounce makes one report of any number of events.
Notify == noticed' = IF disk' = disk THEN noticed ELSE [i \in Instances |-> TRUE]

\* The writer's thread works on; the callback of a finished save is queued on
\* the GUI thread.
WriterWorks(i) ==
    /\ \/ Receive(i) \/ Debounced(i) \/ LockAndRead(i) \/ Rename(i)
    /\ Notify
    /\ UNCHANGED <<done, wanted, locked, posted, thr, changes, intact, overlap>>

WriterFinishes(i) ==
    /\ \/ WriteAsGiven(i) \/ Remember(i) \/ WriteFails(i) \/ DirSyncFailed(i)
    /\ Notify
    /\ posted' = [posted EXCEPT ![i] = Append(@, DoneEvent(wr[i].job.seq))]
    /\ UNCHANGED <<done, wanted, locked, thr, changes, intact, overlap>>

\* Somebody else changes a record that is theirs, or leaves the file broken (a
\* half-done edit, Git's conflict markers), or mends it.
External(file) ==
    /\ changes < MaxExternal
    /\ file # disk
    /\ intact' = IF disk \in Docs THEN disk ELSE intact
    /\ \/ file = Broken
       \/ /\ file \in Docs
          /\ \A x \in Ids : Owner[x] \in Instances => file[x] = intact'[x]
    /\ disk' = file
    /\ changes' = changes + 1
    /\ Notify
    /\ UNCHANGED <<lock, mem, base, queued, chan, pend, wr, failed, first, stale>>
    /\ UNCHANGED <<done, wanted, locked, posted, thr, overlap>>

\* Mutant: an event while saves are pending is taken for their echo.
TakenForEcho(i) ==
    /\ noticed[i]
    /\ noticed' = [noticed EXCEPT ![i] = FALSE]
    /\ posted' = [posted EXCEPT ![i] = IF Pending(i) THEN @ ELSE Append(@, ReloadEvent)]
    /\ UNCHANGED <<done, wanted, locked, thr, changes, intact, overlap>>
    /\ UNCHANGED vars

\* FileWatcher: no event for the debounce time, the callback queues a reload.
WatcherFires(i) ==
    /\ noticed[i]
    /\ noticed' = [noticed EXCEPT ![i] = FALSE]
    /\ posted' = [posted EXCEPT ![i] = Append(@, ReloadEvent)]
    /\ UNCHANGED <<done, wanted, locked, thr, changes, intact, overlap>>
    /\ UNCHANGED vars

-----------------------------------------------------------------------------
\* Hosts::reload_in_background, in slot t.
Spawn(i, t) ==
    /\ thr[i][t].st = "none"
    /\ thr' = [thr EXCEPT ![i][t].st = "start"]
    /\ overlap' = [overlap EXCEPT ![i] = @ \/ \E u \in Slots : thr[i][u].st # "none"]

OnReload(i, t) ==
    /\ posted[i] # <<>> /\ Head(posted[i]).kind = "reload"
    /\ Spawn(i, t)
    /\ posted' = [posted EXCEPT ![i] = Tail(@)]
    /\ UNCHANGED <<done, wanted, locked, noticed, changes, intact>>
    /\ UNCHANGED vars

\* Mutant: counts the finished saves instead of remembering the newest one.
CountedDone(i, seq) == done[i] + 1

\* SaveTracker::finished
Finished(i, seq) == IF seq > done[i] THEN seq ELSE done[i]

\* Hosts::save_done, with SaveTracker::take_reload.
OnSaveDone(i, t) ==
    /\ posted[i] # <<>> /\ Head(posted[i]).kind = "done"
    /\ done' = [done EXCEPT ![i] = Finished(i, Head(posted[i]).seq)]
    /\ IF wanted[i] /\ ~(done'[i] < queued[i])
       THEN /\ Spawn(i, t)
            /\ wanted' = [wanted EXCEPT ![i] = FALSE]
       ELSE UNCHANGED <<thr, wanted, overlap>>
    /\ posted' = [posted EXCEPT ![i] = Tail(@)]
    /\ UNCHANGED <<locked, noticed, changes, intact>>
    /\ UNCHANGED vars

\* Hosts::apply_disk: skipped while saves are pending, else memory becomes what
\* the thread read (nothing, when it could not be parsed).
OnApply(i) ==
    /\ posted[i] # <<>> /\ Head(posted[i]).kind = "apply"
    /\ IF Pending(i)
       THEN /\ wanted' = [wanted EXCEPT ![i] = TRUE]
            /\ UNCHANGED <<mem, locked>>
       ELSE /\ mem' = [mem EXCEPT ![i] = Content(Head(posted[i]).text)]
            /\ locked' = [locked EXCEPT ![i] = Head(posted[i]).text = Broken]
            /\ UNCHANGED wanted
    /\ posted' = [posted EXCEPT ![i] = Tail(@)]
    /\ UNCHANGED <<disk, lock, base, queued, chan, pend, wr, failed, first, stale>>
    /\ UNCHANGED <<done, noticed, thr, changes, intact, overlap>>

\* The reload thread, load_disk: fs::read_to_string...
ThreadReads(i, t) ==
    /\ thr[i][t].st = "start"
    /\ thr' = [thr EXCEPT ![i][t] = [st |-> "read", text |-> disk]]
    /\ UNCHANGED <<done, wanted, locked, noticed, posted, changes, intact, overlap>>
    /\ UNCHANGED vars

\* ... then Baselines::remember (a missing file remembers nothing), which nothing
\* keeps from coming between the two ends of a write...
ThreadRemembers(i, t) ==
    /\ thr[i][t].st = "read"
    /\ RememberRead(i, thr[i][t].text)
    /\ thr' = [thr EXCEPT ![i][t].st = "loaded"]
    /\ overlap' = [overlap EXCEPT ![i] = @ \/ wr[i].st # "idle"]
    /\ UNCHANGED <<disk, lock, mem, queued, chan, pend, wr, failed, first>>
    /\ UNCHANGED <<done, wanted, locked, noticed, posted, changes, intact>>

\* ... then the linked ssh_config files, and the result is queued.
ThreadPosts(i, t) ==
    /\ thr[i][t].st = "loaded"
    /\ posted' = [posted EXCEPT ![i] = Append(@, ApplyEvent(thr[i][t].text))]
    /\ thr' = [thr EXCEPT ![i][t] = NoThread]
    /\ UNCHANGED <<done, wanted, locked, noticed, changes, intact, overlap>>
    /\ UNCHANGED vars

Gui(i) == OnApply(i) \/ \E t \in Slots : OnReload(i, t) \/ OnSaveDone(i, t)

ReloadThread(i, t) ==
    ThreadReads(i, t) \/ ThreadRemembers(i, t) \/ ThreadPosts(i, t)

HNext ==
    \/ \E i \in Instances :
         \/ \E x \in Ids, v \in Values \cup {Absent} : Modify(i, x, v)
         \/ WriterWorks(i) \/ WriterFinishes(i) \/ WatcherFires(i)
         \/ Gui(i)
         \/ \E t \in Slots : ReloadThread(i, t)
    \/ \E file \in Docs \cup {Broken} : External(file)

\* The GUI loop, the writer thread, the watcher thread and the reload threads
\* all run; edits and other programs' changes may stop.
HFairness ==
    \A i \in Instances :
        /\ WF_allVars(WriterWorks(i)) /\ WF_allVars(WriterFinishes(i))
        /\ WF_allVars(WatcherFires(i)) /\ WF_allVars(Gui(i))
        /\ \A t \in Slots : WF_allVars(ReloadThread(i, t))

HSpec == HInit /\ [][HNext]_allVars
HFairSpec == HSpec /\ HFairness

-----------------------------------------------------------------------------
\* A callback of a finished save waits on the GUI thread.
DoneWaits(i) == \E k \in 1..Len(posted[i]) : posted[i][k].kind = "done"

(***************************************************************************)
(* The tracker is exact although the writer drops the callbacks of the     *)
(* saves it replaces (saves.rs: "the tracker only compares the newest      *)
(* sequence number queued with the newest one finished"): saves are        *)
(* pending exactly when one is still on its way to the disk or back.       *)
(***************************************************************************)
TrackerExact ==
    \A i \in Instances : Pending(i) <=> ~Settled(i) \/ DoneWaits(i)

(***************************************************************************)
(* A skipped reload is never left behind: as long as one is wanted, a save *)
(* is pending whose end will start it (save_done, take_reload).            *)
(***************************************************************************)
WantedHasATrigger == \A i \in Instances : wanted[i] => Pending(i)

\* Nothing is on its way to or from the disk.
HostsQuiet(i) ==
    /\ Settled(i) /\ posted[i] = <<>> /\ ~noticed[i]
    /\ \A t \in Slots : thr[i][t].st = "none"

(***************************************************************************)
(* When everything has settled, the hosts shown are the hosts on disk, the *)
(* merge of a save with somebody else's changes included, and the list is  *)
(* read-only exactly when the file can not be parsed.  The code does not   *)
(* keep two reload threads from posting in the other order, nor a reload   *)
(* thread from moving the baseline while a save is being written (after    *)
(* which a merge may take an edit back without a word), so the claim is    *)
(* about runs in which neither happened.                                   *)
(***************************************************************************)
QuietAgrees ==
    \A i \in Instances : HostsQuiet(i) /\ ~failed[i] /\ ~overlap[i] =>
        mem[i] = Content(disk) /\ (locked[i] <=> disk = Broken)

\* HostsReload: the tracker knows exactly which saves are on their way, a
\* reload that was put off has a save that will start it, and when all is
\* quiet the hosts shown are those on disk.
HostsTrue == TrackerExact /\ WantedHasATrigger /\ QuietAgrees

Follows(i) == failed[i] \/ overlap[i] \/ mem[i] = Content(disk)

(***************************************************************************)
(* The hosts shown follow the disk in the end (hosts.rs: "Files are read   *)
(* at startup and again when they change on disk (after our own saves      *)
(* settle)"), unless a save failed or two reload threads ran at once.      *)
(***************************************************************************)
FollowsDisk == \A i \in Instances : <>[]Follows(i)
=============================================================================
