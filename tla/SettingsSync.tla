---------------------------- MODULE SettingsSync ----------------------------
(***************************************************************************)
(* Several OpenSesh instances that share one settings file (hosts.toml,    *)
(* snippets.toml, tunnels.toml...).  Each instance keeps the file's        *)
(* records in memory, hands every new version to its background writer     *)
(* (opensesh-core/src/writer.rs), and the writer merges it with what is on *)
(* disk (opensesh-core/src/sync.rs, write_merging) under the folder lock.  *)
(*                                                                         *)
(* A document is a function from record ids to values; Absent is "no such  *)
(* record".  A record is merged as a whole here; the merge inside records  *)
(* and the order of records are the subject of module MergeRecords.        *)
(***************************************************************************)
EXTENDS Naturals, Sequences

CONSTANTS
    Instances,  \* the running OpenSesh instances
    Ids,        \* record ids (host.id, snippet.id...)
    Values,     \* what a record can hold
    Absent,     \* the value of a record that is not in the document
    Owner,      \* the one party that edits a record: Ids -> Instances or not
    Missing,    \* the file does not exist
    Broken,     \* the file is not TOML (Git's conflict markers, a half edit)
    None,       \* no baseline, no pending job, lock free
    InitDisks,  \* what the file may hold when the instances start
    OmitsEmpty, \* an empty list of records is left out of the text (hosts.toml)
                \* or written as an empty array (snippets.toml, tunnels.toml)
    MaxSaves    \* bound: saves queued by each instance

Docs == [Ids -> Values \cup {Absent}]
Files == Docs \cup {Missing, Broken}
EmptyDoc == [x \in Ids |-> Absent]
Content(file) == IF file \in Docs THEN file ELSE EmptyDoc
Job == [doc : Docs, seq : Nat]

ASSUME ConstantsAssumption ==
    /\ Absent \notin Values
    /\ Missing \notin Docs /\ Broken \notin Docs /\ None \notin Docs
    /\ None \notin Job
    /\ Missing # Broken /\ Missing # None /\ Broken # None
    /\ None \notin Instances
    /\ InitDisks \subseteq Docs \cup {Missing}
    /\ OmitsEmpty \in BOOLEAN
    /\ MaxSaves \in Nat

VARIABLES
    disk,    \* the settings file
    lock,    \* the holder of the folder's lock file, or None
    mem,     \* each instance's document in memory
    base,    \* Baselines: what the file held when the instance last saw it
    queued,  \* saves queued so far (SaveTracker::queue's sequence number)
    chan,    \* the writer's channel: jobs sent and not yet received
    pend,    \* the writer's pending job for the file, or None
    wr,      \* the write the writer thread is inside of
    failed,  \* the instance's last write failed (the user was told)
    first,   \* history: what the file held when the instances started
    stale    \* history: a write of the instance replaced the file and was
             \* reported as failed, and the instance has not read it since

vars == <<disk, lock, mem, base, queued, chan, pend, wr, failed, first, stale>>

NoJob == [doc |-> EmptyDoc, seq |-> 0]

\* write_merging's progress: nothing, the baseline fetched, the current file
\* read under the lock, the new file renamed into place.
Idle == [st |-> "idle", job |-> NoJob, base |-> None, out |-> EmptyDoc]
Write ==
    [st : {"idle", "based", "read", "renamed"},
     job : Job, base : Docs \cup {None, Broken}, out : Docs]

-----------------------------------------------------------------------------
(* sync.rs, merge_value and merge_records for one record: this side wins   *)
(* when both changed it, a removal wins over an unchanged record only.     *)
MergeRecord(b, ours, theirs) ==
    IF ours = theirs \/ theirs = b THEN ours
    ELSE IF ours = b THEN theirs
    ELSE IF ours = Absent THEN theirs   \* removed here, changed there: kept
    ELSE ours                           \* both changed, or removed there

\* sync.rs, merge_value on the list of records: a list that only one side has
\* is a plain value, and this side's is kept.
MergeList(b, ours, theirs) ==
    IF ours = theirs \/ theirs = b THEN ours
    ELSE IF ours = b THEN theirs
    ELSE IF OmitsEmpty /\ (ours = EmptyDoc \/ theirs = EmptyDoc) THEN ours
    ELSE [x \in Ids |-> MergeRecord(b[x], ours[x], theirs[x])]

\* sync.rs, merge3: fails when a side is not TOML, and then ours is written.
Merge3(b, ours, theirs) ==
    IF b \in Docs /\ theirs \in Docs THEN MergeList(b, ours, theirs) ELSE ours

\* sync.rs, write_merging: what goes to disk, given what was read there.
Out(b, bytes, current) ==
    IF current # Missing /\ current # b /\ current # bytes
    THEN Merge3(b, bytes, current)
    ELSE bytes

-----------------------------------------------------------------------------
\* Each instance has read the file at startup; a missing file is an empty
\* document with no baseline.
Init ==
    /\ first \in InitDisks
    /\ disk = first
    /\ lock = None
    /\ mem = [i \in Instances |-> IF first = Missing THEN EmptyDoc ELSE first]
    /\ base = [i \in Instances |-> IF first = Missing THEN None ELSE first]
    /\ queued = [i \in Instances |-> 0]
    /\ chan = [i \in Instances |-> <<>>]
    /\ pend = [i \in Instances |-> None]
    /\ wr = [i \in Instances |-> Idle]
    /\ failed = [i \in Instances |-> FALSE]
    /\ stale = [i \in Instances |-> FALSE]

\* The user changes record x to v (an addition, an edit or a removal) and the
\* whole document is handed to the writer (FileWriter::write).
Edit(i, x, v) ==
    /\ Owner[x] = i
    /\ v # mem[i][x]
    /\ queued[i] < MaxSaves
    /\ mem' = [mem EXCEPT ![i] = [@ EXCEPT ![x] = v]]
    /\ queued' = [queued EXCEPT ![i] = @ + 1]
    /\ chan' = [chan EXCEPT ![i] =
                  Append(@, [doc |-> [mem[i] EXCEPT ![x] = v],
                             seq |-> queued[i] + 1])]
    /\ UNCHANGED <<disk, lock, base, pend, wr, failed, first, stale>>

\* Mutant: the pending version is kept and the newer one dropped.
ReceiveKeepsOlder(i) ==
    /\ wr[i].st = "idle"
    /\ chan[i] # <<>>
    /\ pend' = [pend EXCEPT ![i] = IF @ = None THEN Head(chan[i]) ELSE @]
    /\ chan' = [chan EXCEPT ![i] = Tail(@)]
    /\ UNCHANGED <<disk, lock, mem, base, queued, wr, failed, first, stale>>

\* The writer thread takes a Write message: the newer version replaces the
\* pending one, whose callback is dropped.
Receive(i) ==
    /\ wr[i].st = "idle"
    /\ chan[i] # <<>>
    /\ pend' = [pend EXCEPT ![i] = Head(chan[i])]
    /\ chan' = [chan EXCEPT ![i] = Tail(@)]
    /\ UNCHANGED <<disk, lock, mem, base, queued, wr, failed, first, stale>>

\* recv_timeout ran out with no newer message: write_all starts, and
\* write_merging fetches the baseline before it takes the lock.
Debounced(i) ==
    /\ wr[i].st = "idle"
    /\ chan[i] = <<>>
    /\ pend[i] # None
    /\ wr' = [wr EXCEPT ![i] = [st |-> "based", job |-> pend[i],
                                base |-> base[i], out |-> EmptyDoc]]
    /\ pend' = [pend EXCEPT ![i] = None]
    /\ UNCHANGED <<disk, lock, mem, base, queued, chan, failed, first, stale>>

\* A file this instance never read is written as given: no lock, no baseline.
\* The folder's fsync may still fail once the file is replaced.
WriteAsGiven(i) ==
    /\ wr[i].st = "based"
    /\ wr[i].base = None
    /\ disk' = wr[i].job.doc
    /\ wr' = [wr EXCEPT ![i] = Idle]
    /\ \E fsyncFails \in BOOLEAN : failed' = [failed EXCEPT ![i] = fsyncFails]
    /\ UNCHANGED <<lock, mem, base, queued, chan, pend, first, stale>>

\* FolderLock::acquire, then fs::read of the current file and the merge.
LockAndRead(i) ==
    /\ wr[i].st = "based"
    /\ wr[i].base # None
    /\ lock = None
    /\ lock' = i
    /\ wr' = [wr EXCEPT ![i].st = "read",
                        ![i].out = Out(wr[i].base, wr[i].job.doc, disk)]
    /\ UNCHANGED <<disk, mem, base, queued, chan, pend, failed, first, stale>>

\* fsutil::atomic_write renames the new file into place.
Rename(i) ==
    /\ wr[i].st = "read"
    /\ disk' = wr[i].out
    /\ wr' = [wr EXCEPT ![i].st = "renamed"]
    /\ UNCHANGED <<lock, mem, base, queued, chan, pend, failed, first, stale>>

\* Mutant: remember() stores what was written, the merge, although memory does not
\* hold it yet.
RememberMerged(i) ==
    /\ wr[i].st = "renamed"
    /\ base' = [base EXCEPT ![i] = wr[i].out]
    /\ lock' = None
    /\ wr' = [wr EXCEPT ![i] = Idle]
    /\ failed' = [failed EXCEPT ![i] = FALSE]
    /\ UNCHANGED <<disk, mem, queued, chan, pend, first, stale>>

\* baselines.remember(bytes), then the lock is dropped and the callback runs.
Remember(i) ==
    /\ wr[i].st = "renamed"
    /\ base' = [base EXCEPT ![i] = wr[i].job.doc]
    /\ lock' = None
    /\ wr' = [wr EXCEPT ![i] = Idle]
    /\ failed' = [failed EXCEPT ![i] = FALSE]
    /\ UNCHANGED <<disk, mem, queued, chan, pend, first, stale>>

\* Mutant: A failed write keeps the folder locked.
FailsLocked(i) ==
    /\ \/ wr[i].st = "based" /\ wr[i].base = None
       \/ wr[i].st = "read"
    /\ wr' = [wr EXCEPT ![i] = Idle]
    /\ failed' = [failed EXCEPT ![i] = TRUE]
    /\ UNCHANGED <<disk, lock, mem, base, queued, chan, pend, first, stale>>

\* atomic_write fails (disk full, read-only folder): nothing is replaced and
\* the baseline stays; the callback reports the error.
WriteFails(i) ==
    /\ \/ wr[i].st = "based" /\ wr[i].base = None
       \/ wr[i].st = "read"
    /\ lock' = IF wr[i].st = "read" THEN None ELSE lock
    /\ wr' = [wr EXCEPT ![i] = Idle]
    /\ failed' = [failed EXCEPT ![i] = TRUE]
    /\ UNCHANGED <<disk, mem, base, queued, chan, pend, first, stale>>

\* The folder's fsync fails once the file is replaced: atomic_write is an error
\* all the same, so the baseline is not remembered.
DirSyncFailed(i) ==
    /\ wr[i].st = "renamed"
    /\ lock' = None
    /\ wr' = [wr EXCEPT ![i] = Idle]
    /\ failed' = [failed EXCEPT ![i] = TRUE]
    /\ stale' = [stale EXCEPT ![i] = TRUE]
    /\ UNCHANGED <<disk, mem, base, queued, chan, pend, first>>

WriterStep(i) ==
    \/ Receive(i) \/ Debounced(i) \/ WriteAsGiven(i) \/ LockAndRead(i)
    \/ Rename(i) \/ Remember(i) \/ WriteFails(i) \/ DirSyncFailed(i)

\* Nothing of instance i is on its way to the disk.
Settled(i) == chan[i] = <<>> /\ pend[i] = None /\ wr[i].st = "idle"

\* Baselines::remember of a text that was read; a missing file remembers nothing.
RememberRead(i, text) ==
    IF text = Missing THEN UNCHANGED <<base, stale>>
    ELSE /\ base' = [base EXCEPT ![i] = text]
         /\ stale' = [stale EXCEPT ![i] = FALSE]

\* FileWriter::flush, then Baselines::read_to_string into memory: the reload
\* discipline of tests/two_instances.rs, with no edit in between.
FlushAndReload(i) ==
    /\ Settled(i)
    /\ disk \in Docs
    /\ mem' = [mem EXCEPT ![i] = disk]
    /\ RememberRead(i, disk)
    /\ failed' = [failed EXCEPT ![i] = FALSE]
    /\ UNCHANGED <<disk, lock, queued, chan, pend, wr, first>>

Next ==
    \E i \in Instances :
        \/ \E x \in Ids, v \in Values \cup {Absent} : Edit(i, x, v)
        \/ WriterStep(i)
        \/ FlushAndReload(i)

\* The writer thread runs until its queue is empty; a write may fail, but the
\* disk does not fail for ever (WriteFails has no fairness of its own).
Fairness ==
    \A i \in Instances :
        /\ WF_vars(Receive(i)) /\ WF_vars(Debounced(i))
        /\ WF_vars(WriteAsGiven(i) \/ Rename(i) \/ WriteFails(i))
        /\ WF_vars(LockAndRead(i)) /\ WF_vars(Remember(i) \/ DirSyncFailed(i))

Spec == Init /\ [][Next]_vars
FairSpec == Spec /\ Fairness

-----------------------------------------------------------------------------
TypeOK ==
    /\ disk \in Files
    /\ lock \in Instances \cup {None}
    /\ mem \in [Instances -> Docs]
    /\ base \in [Instances -> Docs \cup {None, Broken}]
    /\ queued \in [Instances -> Nat]
    /\ chan \in [Instances -> Seq(Job)]
    /\ pend \in [Instances -> Job \cup {None}]
    /\ wr \in [Instances -> Write]
    /\ failed \in [Instances -> BOOLEAN]
    /\ first \in InitDisks
    /\ stale \in [Instances -> BOOLEAN]

(***************************************************************************)
(* What tests/two_instances.rs asserts at its end, in every state: once an *)
(* instance has nothing on its way to the disk, the disk holds its version *)
(* of every record it edits, whatever the other instances saved meanwhile. *)
(* The claim is about a file that was there at the start (with no baseline *)
(* write_merging writes as given) and about instances that have read it    *)
(* since a write of theirs replaced it and was reported as failed.         *)
(***************************************************************************)
SettledIsSaved ==
    first \in Docs =>
        \A i \in Instances : Settled(i) /\ ~failed[i] /\ ~stale[i] =>
            \A x \in Ids : Owner[x] = i => Content(disk)[x] = mem[i][x]

(***************************************************************************)
(* A save brings to disk only its own instance's records: a rename by i    *)
(* leaves every record of another instance exactly as it was on disk       *)
(* (sync.rs: "merges the three versions instead of overwriting"), after    *)
(* failed writes too.                                                      *)
(***************************************************************************)
OthersUntouched ==
    [][(first \in Docs) =>
         \A x \in Ids :
           disk \in Docs /\ disk' \in Docs /\ disk'[x] # disk[x] =>
             \E i \in Instances : Owner[x] = i /\ Rename(i)]_vars

(***************************************************************************)
(* Every edit is settled in the end: the debounce, the lock and the other  *)
(* instances' writes never keep a save from the disk for ever.             *)
(***************************************************************************)
EveryEditSettles == \A i \in Instances : []<>Settled(i)

-----------------------------------------------------------------------------
(***************************************************************************)
(* The inductive invariant behind SettledIsSaved and OthersUntouched.  It  *)
(* needs either a list that is written even when empty or a record that    *)
(* nobody removes.                                                         *)
(***************************************************************************)
NeverEmpty ==
    OmitsEmpty => \A doc \in InitDisks \cap Docs :
                    \E p \in Ids : Owner[p] \notin Instances /\ doc[p] # Absent

\* The lock is held exactly between reading the file and remembering it.
LockInv ==
    \A i \in Instances : (lock = i) <=> (wr[i].st \in {"read", "renamed"})

\* Every document is a readable one, and a write uses the current baseline.
ReadableInv ==
    /\ disk \in Docs
    /\ \A i \in Instances :
         /\ base[i] \in Docs
         /\ wr[i].st # "idle" => wr[i].base = base[i]

\* What instance i holds of a record it does not edit is its baseline's.
ForeignInv ==
    \A i \in Instances : \A x \in Ids : Owner[x] # i =>
        /\ mem[i][x] = base[i][x]
        /\ \A k \in 1..Len(chan[i]) : chan[i][k].doc[x] = base[i][x]
        /\ pend[i] # None => pend[i].doc[x] = base[i][x]
        /\ wr[i].st # "idle" => wr[i].job.doc[x] = base[i][x]

\* The disk holds of a record what its editor last brought there.
OwnInv ==
    \A i \in Instances : \A x \in Ids : Owner[x] = i /\ ~stale[i] =>
        disk[x] = IF wr[i].st = "renamed" THEN wr[i].job.doc[x] ELSE base[i][x]

\* Under the lock, what is about to be renamed is the disk with the editor's
\* own records replaced.
OutInv ==
    \A i \in Instances : \A x \in Ids : wr[i].st = "read" =>
        /\ Owner[x] # i => wr[i].out[x] = disk[x]
        /\ Owner[x] = i /\ ~stale[i] => wr[i].out[x] = wr[i].job.doc[x]

\* The newest document on its way to the disk is the one in memory.
LatestInv ==
    \A i \in Instances :
        /\ chan[i] # <<>> => chan[i][Len(chan[i])].doc = mem[i]
        /\ chan[i] = <<>> /\ pend[i] # None => pend[i].doc = mem[i]
        /\ chan[i] = <<>> /\ pend[i] = None /\ wr[i].st # "idle"
              => wr[i].job.doc = mem[i]
        /\ Settled(i) /\ ~failed[i] => base[i] = mem[i]

\* Records that nobody edits stay as they were at the start.
PinnedInv ==
    \A x \in Ids : Owner[x] \notin Instances =>
        /\ disk[x] = first[x]
        /\ \A i \in Instances : base[i][x] = first[x]

Honest ==
    /\ TypeOK /\ first \in Docs
    /\ LockInv /\ ReadableInv /\ ForeignInv
    /\ OwnInv /\ OutInv /\ LatestInv /\ PinnedInv

IInv == TypeOK /\ (first \in Docs => Honest)

=============================================================================
