----------------------------- MODULE AtomicWrite -----------------------------
(***************************************************************************)
(* fsutil::atomic_write (opensesh-core/src/fsutil.rs): temporary file,     *)
(* fsync, copy of the old file, rename, rotation of the backups, fsync of  *)
(* the folder.  Every step may fail, and the machine may go down between   *)
(* any two.                                                                *)
(*                                                                         *)
(* A file is [ver, safe]: which version it holds, and whether its data was *)
(* fsynced.  The folder is what its names refer to; until the folder is    *)
(* fsynced, a crash may bring back any of the states it went through.  The *)
(* temporary names are of one call (temp_path numbers them, and a process  *)
(* has its own): what an earlier process left under its names is not here. *)
(***************************************************************************)
EXTENDS Integers, TLAPS

CONSTANTS
    Backups,   \* the `backups` argument: how many previous versions are kept
    MaxWrites, \* bound: calls of atomic_write
    MaxCrashes \* bound: crashes

VARIABLES
    dir,     \* the folder: file, tmp, aside (the copy for the backups), bak
    durable, \* the folder states a crash may leave
    pc,      \* where atomic_write is
    k,       \* rotate_backups: the backup to be moved next
    ver,     \* the version being written, or written last
    crashes, \* crashes so far
    clean,   \* no step has failed and no crash has happened
    before,  \* the backups when the running call started
    result,  \* the last call's outcome: "ok" or "error"
    returned \* the version of the last call that was Ok, or the one there at first

avars == <<dir, durable, pc, k, ver, crashes, clean, before, result, returned>>

Vacant == [ver |-> -1, safe |-> TRUE]
Torn == [ver |-> -2, safe |-> TRUE]
Unsafe(v) == [ver |-> v, safe |-> FALSE]
Safe(v) == [ver |-> v, safe |-> TRUE]

\* There is a file, or (version -1) none yet.
AInit ==
    /\ ver \in {-1, 0} /\ returned = ver
    /\ dir = [file |-> Safe(ver), tmp |-> Vacant, aside |-> Vacant,
              bak |-> [j \in 1..Backups |-> Vacant]]
    /\ durable = {dir}
    /\ pc = "idle"
    /\ k = 0
    /\ crashes = 0
    /\ clean = TRUE
    /\ before = dir.bak
    /\ result = "ok"

\* The folder's names change; the change is durable once the folder is synced.
Become(d) == dir' = d /\ durable' = durable \cup {d}

\* write_synced creates the temporary file.  (Identical contents return early:
\* a version here always differs from the one on disk.)
Start ==
    /\ pc = "idle"
    /\ ver < MaxWrites
    /\ ver' = ver + 1
    /\ Become([dir EXCEPT !.tmp = Unsafe(ver + 1)])
    /\ before' = dir.bak
    /\ pc' = "tmp"
    /\ UNCHANGED <<k, crashes, clean, result, returned>>

\* Mutant: the temporary file is not synced.
NotSynced ==
    /\ pc = "tmp"
    /\ pc' = IF Backups > 0 THEN "synced" ELSE "copied"
    /\ UNCHANGED <<dir, durable, k, ver, crashes, clean, before, result, returned>>

\* sync_all: the data is on disk in every state a crash may leave.
SyncTmp ==
    /\ pc = "tmp"
    /\ dir' = [dir EXCEPT !.tmp = Safe(ver)]
    /\ durable' = {[d EXCEPT !.tmp = IF d.tmp = Unsafe(ver) THEN Safe(ver)
                                                           ELSE d.tmp]
                     : d \in durable}
    /\ pc' = IF Backups > 0 THEN "synced" ELSE "copied"
    /\ UNCHANGED <<k, ver, crashes, clean, before, result, returned>>

\* copy_aside: a plain copy, not synced.  A missing file has nothing to copy.
CopyAside ==
    /\ pc = "synced"
    /\ Become([dir EXCEPT !.aside = IF dir.file = Vacant THEN Vacant
                                    ELSE Unsafe(dir.file.ver)])
    /\ pc' = "copied"
    /\ UNCHANGED <<k, ver, crashes, clean, before, result, returned>>

\* The copy fails: logged, the save goes on without a backup.  (What was copied
\* by then stays in the folder, under a name that is never used again.)
CopyFails ==
    /\ pc = "synced"
    /\ pc' = "copied"
    /\ clean' = FALSE
    /\ UNCHANGED <<dir, durable, k, ver, crashes, before, result, returned>>

\* fs::rename over the file.
RenameOver ==
    /\ pc = "copied"
    /\ Become([dir EXCEPT !.file = dir.tmp, !.tmp = Vacant])
    /\ pc' = IF dir.aside = Vacant THEN "rotated" ELSE "drop"
    /\ UNCHANGED <<k, ver, crashes, clean, before, result, returned>>

\* rotate_backups: the oldest backup goes...
DropOldest ==
    /\ pc = "drop"
    /\ Become([dir EXCEPT !.bak[Backups] = Vacant])
    /\ k' = Backups - 1
    /\ pc' = "shift"
    /\ UNCHANGED <<ver, crashes, clean, before, result, returned>>

\* ... the others move up one, the older first, and the copy becomes the newest.
Shift ==
    /\ pc = "shift"
    /\ IF k > 0
       THEN /\ Become(IF dir.bak[k] = Vacant THEN dir
                      ELSE [dir EXCEPT !.bak[k + 1] = dir.bak[k],
                                       !.bak[k] = Vacant])
            /\ k' = k - 1 /\ UNCHANGED pc
       ELSE /\ Become([dir EXCEPT !.bak[1] = dir.aside, !.aside = Vacant])
            /\ pc' = "rotated" /\ UNCHANGED k
    /\ UNCHANGED <<ver, crashes, clean, before, result, returned>>

\* A step of the rotation fails: logged, and the copy is discarded.
RotateFails ==
    /\ pc \in {"drop", "shift"}
    /\ Become([dir EXCEPT !.aside = Vacant])
    /\ pc' = "rotated"
    /\ clean' = FALSE
    /\ UNCHANGED <<k, ver, crashes, before, result, returned>>

\* sync_dir: everything is durable and the call returns.
SyncDir ==
    /\ pc = "rotated"
    /\ durable' = {dir}
    /\ pc' = "idle"
    /\ result' = "ok"
    /\ returned' = ver
    /\ UNCHANGED <<dir, k, ver, crashes, clean, before>>

\* Writing or renaming fails before the file is replaced: the temporary file
\* and the copy are removed and the error returned.
SaveFails ==
    /\ pc \in {"tmp", "copied"}
    /\ Become([dir EXCEPT !.tmp = Vacant, !.aside = Vacant])
    /\ pc' = "idle"
    /\ clean' = FALSE
    /\ result' = "error"
    /\ UNCHANGED <<k, ver, crashes, before, returned>>

\* sync_dir fails: its error is the call's.
SyncDirFails ==
    /\ pc = "rotated"
    /\ pc' = "idle"
    /\ clean' = FALSE
    /\ result' = "error"
    /\ UNCHANGED <<dir, durable, k, ver, crashes, before, returned>>

\* What a crash makes of a file: data that was not synced may be torn.
AfterCrash(f) == IF f.safe THEN {f} ELSE {Safe(f.ver), Torn}

\* Power is lost; the program starts again with what is left, and with
\* temporary names of its own.
Crash ==
    /\ crashes < MaxCrashes
    /\ crashes' = crashes + 1
    /\ \E d \in durable :
         \E f \in AfterCrash(d.file),
            b \in {c \in [1..Backups -> UNION {AfterCrash(d.bak[j]) : j \in 1..Backups}]
                     : \A j \in 1..Backups : c[j] \in AfterCrash(d.bak[j])} :
              /\ dir' = [file |-> f, tmp |-> Vacant, aside |-> Vacant, bak |-> b]
              /\ durable' = {dir'}
              /\ before' = b
    /\ pc' = "idle"
    /\ k' = 0
    /\ clean' = FALSE
    /\ result' = "ok"
    /\ UNCHANGED <<ver, returned>>

ANext ==
    \/ Start \/ SyncTmp \/ CopyAside \/ CopyFails \/ RenameOver
    \/ DropOldest \/ Shift \/ RotateFails \/ SyncDir
    \/ SaveFails \/ SyncDirFails \/ Crash

ASpec == AInit /\ [][ANext]_avars

-----------------------------------------------------------------------------
(***************************************************************************)
(* "Readers only ever see the old or the new file": whatever fails and     *)
(* whenever power is lost, the settings file is whole, does not go missing *)
(* and does not go back behind a save that returned.                       *)
(***************************************************************************)
OldOrNew == \A d \in durable \cup {dir} : d.file.safe /\ d.file.ver \in returned..ver

(***************************************************************************)
(* The backups stay in order, newest first and all older than the file,    *)
(* through failed rotations and crashes in the middle of one.              *)
(***************************************************************************)
BackupsOrdered ==
    \A i, j \in 1..Backups :
        /\ i < j /\ dir.bak[i].ver >= 0 /\ dir.bak[j].ver >= 0
             => dir.bak[i].ver > dir.bak[j].ver
        /\ dir.bak[i].ver >= 0 => dir.bak[i].ver < dir.file.ver

(***************************************************************************)
(* "Up to `backups` previous versions are kept": with nothing failing, the *)
(* backups are exactly the last versions.                                  *)
(***************************************************************************)
BackupsComplete ==
    clean /\ pc = "idle" =>
        \A j \in 1..Backups :
            dir.bak[j].ver = IF j <= ver THEN ver - j ELSE -1

(***************************************************************************)
(* Nothing is left behind: outside a call, the folder holds no temporary   *)
(* file and no finished copy, whichever step failed.                       *)
(***************************************************************************)
NoLeftovers == pc = "idle" => dir.tmp = Vacant /\ dir.aside = Vacant

(***************************************************************************)
(* "A failed save leaves the backups as they were" (fsutil.rs), as long as *)
(* the file was not replaced: when only the folder's fsync failed, the     *)
(* call is an error and the backups have moved.                            *)
(***************************************************************************)
FailureKeepsBackups ==
    pc = "idle" /\ result = "error" /\ dir.file.ver # ver => dir.bak = before

-----------------------------------------------------------------------------
(***************************************************************************)
(* The proofs, for any number of backups, of saves and of crashes.  What   *)
(* must be true of the folder must be true of every folder a crash may     *)
(* leave, so the invariant is about each of them.                          *)
(***************************************************************************)
Files == [ver : Int, safe : BOOLEAN]
Folders == [file : Files, tmp : Files, aside : Files, bak : [1..Backups -> Files]]

\* The backups and the copy are in order, the newest first, and not newer than
\* the file.
InOrder(d) ==
    /\ \A i, j \in 1..Backups :
         i < j /\ d.bak[i].ver >= 0 /\ d.bak[j].ver >= 0 => d.bak[i].ver > d.bak[j].ver
    /\ \A j \in 1..Backups : d.bak[j].ver >= 0 => d.bak[j].ver < d.file.ver
    /\ d.aside.ver >= 0 => /\ d.aside.ver <= d.file.ver
                           /\ \A j \in 1..Backups : d.bak[j].ver < d.aside.ver

\* A folder as it should be, with a file of the versions from lo to hi.
Fit(d, lo, hi) ==
    /\ d \in Folders
    /\ d.file.safe /\ d.file.ver \in lo..hi
    /\ InOrder(d)

\* What each step makes of one folder.
LEMMA FileTypes ==
    /\ Vacant \in Files /\ Vacant.ver = -1
    /\ \A v \in Int : /\ Safe(v) \in Files /\ Safe(v).ver = v /\ Safe(v).safe
                      /\ Unsafe(v) \in Files /\ Unsafe(v).ver = v
BY DEF Vacant, Safe, Unsafe, Files

\* The versions in a folder.
LEMMA Versions ==
    ASSUME NEW d \in Folders
    PROVE  /\ d.file.ver \in Int /\ d.aside.ver \in Int
           /\ \A j \in 1..Backups : d.bak[j] \in Files /\ d.bak[j].ver \in Int
                                    /\ d.bak[j].safe \in BOOLEAN
BY DEF Folders, Files

\* The temporary file is created, synced or removed.
LEMMA FitTmp ==
    ASSUME NEW lo \in Int, NEW hi \in Int, NEW d, Fit(d, lo, hi), NEW t \in Files
    PROVE  Fit([d EXCEPT !.tmp = t], lo, hi)
BY DEF Fit, Folders, InOrder

\* The file is copied, or the copy removed.
LEMMA FitAside ==
    ASSUME NEW lo \in Int, NEW hi \in Int, NEW d, Fit(d, lo, hi), NEW a \in Files,
           a.ver >= 0 => a.ver = d.file.ver
    PROVE  Fit([d EXCEPT !.aside = a], lo, hi)
<1> DEFINE e == [d EXCEPT !.aside = a]
<1>1. e \in Folders /\ e.file = d.file /\ e.bak = d.bak /\ e.aside = a
  BY DEF Fit, Folders
<1> HIDE DEF e
<1>2. InOrder(e)
  <2>1. d \in Folders /\ InOrder(d)
    BY DEF Fit
  <2>2. /\ d.file.ver \in Int /\ d.aside.ver \in Int /\ e.file.ver \in Int /\ e.aside.ver \in Int
        /\ \A j \in 1..Backups : d.bak[j].ver \in Int /\ e.bak[j].ver \in Int
    BY <2>1, <1>1, Versions
  <2> QED
    BY <2>1, <2>2, <1>1 DEF InOrder
<1> QED
  BY <1>1, <1>2 DEF Fit, e

\* The rename over the file.
LEMMA FitRename ==
    ASSUME NEW lo \in Int, NEW hi \in Int, NEW d, Fit(d, lo, hi), lo <= hi,
           d.tmp = Safe(hi), d.file.ver < hi
    PROVE  Fit([d EXCEPT !.file = d.tmp, !.tmp = Vacant], lo, hi)
<1> DEFINE e == [d EXCEPT !.file = d.tmp, !.tmp = Vacant]
<1>1. e \in Folders /\ e.file = Safe(hi) /\ e.bak = d.bak /\ e.aside = d.aside
  BY FileTypes DEF Fit, Folders
<1>2. e.file.safe /\ e.file.ver = hi
  BY <1>1, FileTypes
<1> HIDE DEF e
<1>3. InOrder(e)
  <2>1. d \in Folders /\ InOrder(d)
    BY DEF Fit
  <2>2. /\ d.file.ver \in Int /\ d.aside.ver \in Int /\ e.file.ver \in Int /\ e.aside.ver \in Int
        /\ \A j \in 1..Backups : d.bak[j].ver \in Int /\ e.bak[j].ver \in Int
    BY <2>1, <1>1, Versions
  <2> QED
    BY <2>1, <2>2, <1>1, <1>2 DEF InOrder
<1> QED
  BY <1>1, <1>2, <1>3 DEF Fit, e

\* A backup goes.
LEMMA FitGone ==
    ASSUME Backups \in Nat, NEW lo \in Int, NEW hi \in Int, NEW d, Fit(d, lo, hi),
           NEW n \in Int
    PROVE  Fit([d EXCEPT !.bak[n] = Vacant], lo, hi)
<1> DEFINE e == [d EXCEPT !.bak[n] = Vacant]
<1>1. /\ e \in Folders /\ e.file = d.file /\ e.aside = d.aside
      /\ \A j \in 1..Backups : e.bak[j] = IF j = n THEN Vacant ELSE d.bak[j]
  BY FileTypes DEF Fit, Folders
<1> HIDE DEF e
<1>2. InOrder(e)
  <2>1. d \in Folders /\ InOrder(d)
    BY DEF Fit
  <2>2. /\ d.file.ver \in Int /\ d.aside.ver \in Int /\ e.file.ver \in Int /\ e.aside.ver \in Int
        /\ \A j \in 1..Backups : d.bak[j].ver \in Int /\ e.bak[j].ver \in Int
    BY <2>1, <1>1, Versions
  <2> QED
    BY <2>1, <2>2, <1>1, FileTypes DEF InOrder
<1> QED
  BY <1>1, <1>2 DEF Fit, e

\* A backup moves up one.
LEMMA FitMoved ==
    ASSUME Backups \in Nat, NEW lo \in Int, NEW hi \in Int, NEW d, Fit(d, lo, hi),
           NEW n \in 1..Backups, n < Backups
    PROVE  Fit([d EXCEPT !.bak[n + 1] = d.bak[n], !.bak[n] = Vacant], lo, hi)
<1> DEFINE e == [d EXCEPT !.bak[n + 1] = d.bak[n], !.bak[n] = Vacant]
<1>1. /\ e \in Folders /\ e.file = d.file /\ e.aside = d.aside
      /\ \A j \in 1..Backups : e.bak[j] = IF j = n THEN Vacant
                                          ELSE IF j = n + 1 THEN d.bak[n] ELSE d.bak[j]
  BY FileTypes DEF Fit, Folders
<1> HIDE DEF e
<1>2. InOrder(e)
  <2>1. d \in Folders /\ InOrder(d)
    BY DEF Fit
  <2>2. /\ d.file.ver \in Int /\ d.aside.ver \in Int /\ e.file.ver \in Int /\ e.aside.ver \in Int
        /\ \A j \in 1..Backups : d.bak[j].ver \in Int /\ e.bak[j].ver \in Int
    BY <2>1, <1>1, Versions
  <2> QED
    BY <2>1, <2>2, <1>1, FileTypes DEF InOrder
<1> QED
  BY <1>1, <1>2 DEF Fit, e

\* The copy becomes the newest backup.
LEMMA FitNewest ==
    ASSUME Backups \in Nat, NEW lo \in Int, NEW hi \in Int, NEW d, Fit(d, lo, hi),
           d.aside.ver >= 0, d.aside.ver < d.file.ver
    PROVE  Fit([d EXCEPT !.bak[1] = d.aside, !.aside = Vacant], lo, hi)
<1> DEFINE e == [d EXCEPT !.bak[1] = d.aside, !.aside = Vacant]
<1>1. /\ e \in Folders /\ e.file = d.file /\ e.aside = Vacant
      /\ \A j \in 1..Backups : e.bak[j] = IF j = 1 THEN d.aside ELSE d.bak[j]
  BY FileTypes DEF Fit, Folders
<1> HIDE DEF e
<1>2. InOrder(e)
  <2>1. d \in Folders /\ InOrder(d)
    BY DEF Fit
  <2>2. /\ d.file.ver \in Int /\ d.aside.ver \in Int /\ e.file.ver \in Int /\ e.aside.ver \in Int
        /\ \A j \in 1..Backups : d.bak[j].ver \in Int /\ e.bak[j].ver \in Int
    BY <2>1, <1>1, Versions
  <2> QED
    BY <2>1, <2>2, <1>1, FileTypes DEF InOrder
<1> QED
  BY <1>1, <1>2 DEF Fit, e

\* The folder a crash leaves: each backup is as it was or torn.
LEMMA FitCrash ==
    ASSUME Backups \in Nat, NEW lo \in Int, NEW hi \in Int, NEW d, Fit(d, lo, hi),
           NEW f \in AfterCrash(d.file), NEW b, b = [j \in 1..Backups |-> b[j]],
           \A j \in 1..Backups : b[j] \in AfterCrash(d.bak[j])
    PROVE  Fit([file |-> f, tmp |-> Vacant, aside |-> Vacant, bak |-> b], lo, hi)
<1> DEFINE e == [file |-> f, tmp |-> Vacant, aside |-> Vacant, bak |-> b]
<1>1. f = d.file
  BY DEF Fit, AfterCrash
<1>2. \A j \in 1..Backups : /\ b[j] \in Files
                            /\ b[j].ver = d.bak[j].ver \/ b[j].ver = -2
  <2> SUFFICES ASSUME NEW j \in 1..Backups
               PROVE  b[j] \in Files /\ (b[j].ver = d.bak[j].ver \/ b[j].ver = -2)
    OBVIOUS
  <2>1. d.bak[j] \in Files /\ d.bak[j].ver \in Int
    BY Versions DEF Fit
  <2>2. b[j] = d.bak[j] \/ b[j] = Safe(d.bak[j].ver) \/ b[j] = Torn
    BY DEF AfterCrash
  <2>3. Torn \in Files /\ Torn.ver = -2
    BY DEF Torn, Files
  <2> QED
    BY <2>1, <2>2, <2>3, FileTypes
<1>3. e \in Folders
  BY <1>1, <1>2, FileTypes DEF Fit, Folders
<1>5. e.file = d.file /\ e.aside = Vacant /\ e.bak = b
  BY <1>1
<1> HIDE DEF e
<1>4. InOrder(e)
  <2>1. d \in Folders /\ InOrder(d)
    BY DEF Fit
  <2>2. /\ d.file.ver \in Int /\ d.aside.ver \in Int /\ e.file.ver \in Int /\ e.aside.ver \in Int
        /\ \A j \in 1..Backups : d.bak[j].ver \in Int /\ e.bak[j].ver \in Int
    BY <2>1, <1>3, Versions
  <2>3. /\ e.file.ver = d.file.ver /\ e.aside.ver = -1
        /\ \A j \in 1..Backups : e.bak[j].ver = d.bak[j].ver \/ e.bak[j].ver = -2
    BY <1>2, <1>5, FileTypes
  <2>4. ASSUME NEW j \in 1..Backups, e.bak[j].ver >= 0
        PROVE  d.bak[j].ver = e.bak[j].ver
    BY <2>2, <2>3, <2>4
  <2>5. ASSUME NEW i \in 1..Backups, NEW j \in 1..Backups, i < j, e.bak[i].ver >= 0,
               e.bak[j].ver >= 0
        PROVE  e.bak[i].ver > e.bak[j].ver
    BY <2>1, <2>4, <2>5 DEF InOrder
  <2>6. ASSUME NEW j \in 1..Backups, e.bak[j].ver >= 0
        PROVE  e.bak[j].ver < e.file.ver
    BY <2>1, <2>3, <2>4, <2>6 DEF InOrder
  <2> QED
    BY <2>3, <2>5, <2>6 DEF InOrder
<1> QED
  BY <1>1, <1>3, <1>4 DEF Fit, e

\* The next version is begun, or one has returned.
LEMMA FitWider ==
    ASSUME NEW lo \in Int, NEW hi \in Int, NEW d, Fit(d, lo, hi), NEW lo2 \in Int,
           NEW hi2 \in Int, lo2 <= d.file.ver, hi <= hi2
    PROVE  Fit(d, lo2, hi2)
BY DEF Fit, Folders, Files

\* The steps of atomic_write before the rename and after it.
Before == {"tmp", "synced", "copied"}
After == {"drop", "shift", "rotated"}

FoldersFit == Fit(dir, returned, ver) /\ \A d \in durable : Fit(d, returned, ver)

AtomicInv ==
    /\ ver \in Int /\ returned \in Int /\ -1 <= returned /\ returned <= ver /\ k \in Int
    /\ pc \in Before \cup After \cup {"idle"}
    /\ FoldersFit
    /\ pc \in Before => dir.file.ver < ver /\ dir.bak = before
    /\ pc \in {"synced", "copied"} => dir.tmp = Safe(ver)
    /\ pc \in After => dir.file.ver = ver
    /\ pc = "shift" => k < Backups
    /\ pc \in {"drop", "shift"} => dir.aside.ver >= 0 /\ dir.aside.ver < ver
    /\ pc = "copied" => \/ dir.aside = Vacant
                        \/ dir.aside.ver >= 0 /\ dir.aside.ver < ver
    /\ pc \in {"idle", "tmp", "synced", "rotated"} => dir.aside = Vacant
    /\ pc \in After \cup {"idle"} => dir.tmp = Vacant
    /\ FailureKeepsBackups

\* The folder becomes another one that fits.
LEMMA Becomes ==
    ASSUME NEW d, AtomicInv, Become(d), Fit(d, returned, ver),
           ver' = ver, returned' = returned
    PROVE  FoldersFit'
BY DEF AtomicInv, FoldersFit, Become

\* AtomicInv holds at the start and after every step.
LEMMA AtomicInvariant ==
    ASSUME Backups \in Nat
    PROVE  ASpec => []AtomicInv
<1>1. AInit => AtomicInv
  <2> SUFFICES ASSUME AInit PROVE AtomicInv
    OBVIOUS
  <2>1. /\ dir \in Folders /\ dir.file = Safe(ver) /\ dir.tmp = Vacant /\ dir.aside = Vacant
        /\ \A j \in 1..Backups : dir.bak[j] = Vacant
        /\ ver \in {-1, 0} /\ returned = ver /\ durable = {dir} /\ pc = "idle" /\ k = 0
        /\ result = "ok"
    BY FileTypes DEF AInit, Folders
  <2>2. Fit(dir, returned, ver)
    BY <2>1, FileTypes DEF Fit, InOrder
  <2> QED
    BY <2>1, <2>2 DEF AtomicInv, FoldersFit, FailureKeepsBackups, Before, After
<1>2. AtomicInv /\ [ANext]_avars => AtomicInv'
  <2> SUFFICES ASSUME AtomicInv, [ANext]_avars PROVE AtomicInv'
    OBVIOUS
  <2>0. /\ dir \in Folders /\ dir.file.ver \in Int /\ dir.aside.ver \in Int
        /\ Fit(dir, returned, ver) /\ ver \in Int /\ returned \in Int
    BY Versions DEF AtomicInv, FoldersFit, Fit
  <2>1. CASE Start
    <3> DEFINE d == [dir EXCEPT !.tmp = Unsafe(ver + 1)]
    <3>1. /\ pc = "idle" /\ pc' = "tmp" /\ ver' = ver + 1 /\ Become(d) /\ before' = dir.bak
          /\ UNCHANGED <<k, returned>>
      BY <2>1 DEF Start
    <3>2. d.file = dir.file /\ d.aside = dir.aside /\ d.bak = dir.bak
      BY <2>0 DEF Folders
    <3>3. \A c \in durable : Fit(c, returned, ver + 1)
      BY <2>0, FitWider DEF AtomicInv, FoldersFit, Fit
    <3>4. Fit(dir, returned, ver + 1)
      BY <2>0, FitWider DEF Fit
    <3>5. Fit(d, returned, ver + 1)
      BY <2>0, <3>4, FitTmp, FileTypes
    <3>6. dir.file.ver < ver + 1
      BY <2>0 DEF Fit
    <3> QED
      BY <2>0, <3>1, <3>2, <3>3, <3>5, <3>6 DEF AtomicInv, FoldersFit, FailureKeepsBackups,
         Become, Before, After
  <2>2. CASE SyncTmp
    <3> DEFINE e(d) == [d EXCEPT !.tmp = IF d.tmp = Unsafe(ver) THEN Safe(ver) ELSE d.tmp]
               f == [dir EXCEPT !.tmp = Safe(ver)]
    <3>1. /\ pc = "tmp" /\ pc' \in {"synced", "copied"} /\ dir' = f
          /\ durable' = {e(d) : d \in durable} /\ UNCHANGED <<k, ver, before, returned>>
      BY <2>2 DEF SyncTmp
    <3>2. ASSUME NEW d \in durable PROVE Fit(e(d), returned, ver)
      <4>1. Fit(d, returned, ver) /\ d.tmp \in Files
        BY DEF AtomicInv, FoldersFit, Fit, Folders
      <4> QED
        BY <2>0, <4>1, FitTmp, FileTypes
    <3>3. Fit(f, returned, ver)
      BY <2>0, FitTmp, FileTypes
    <3>4. f.file = dir.file /\ f.aside = dir.aside /\ f.bak = dir.bak /\ f.tmp = Safe(ver)
      BY <2>0 DEF Folders
    <3> HIDE DEF e, f
    <3> QED
      BY <2>0, <3>1, <3>2, <3>3, <3>4 DEF AtomicInv, FoldersFit, FailureKeepsBackups, Before,
         After
  <2>3. CASE CopyAside
    <3> DEFINE a == IF dir.file = Vacant THEN Vacant ELSE Unsafe(dir.file.ver)
               d == [dir EXCEPT !.aside = a]
    <3>1. /\ pc = "synced" /\ pc' = "copied" /\ Become(d)
          /\ UNCHANGED <<k, ver, before, result, returned>>
      BY <2>3 DEF CopyAside
    <3>2. /\ a \in Files /\ (a.ver >= 0 => a.ver = dir.file.ver)
          /\ a = Vacant \/ a.ver >= 0
      <4>1. dir.file \in Files /\ dir.file.safe = TRUE /\ dir.file.ver >= -1
        BY <2>0 DEF Fit, Folders, Files, AtomicInv
      <4>2. dir.file.ver = -1 => dir.file = Vacant
        BY <4>1 DEF Files, Vacant
      <4> QED
        BY <2>0, <4>1, <4>2, FileTypes
    <3>3. Fit(d, returned, ver)
      BY <2>0, <3>2, FitAside
    <3>4. FoldersFit'
      BY <3>1, <3>3, Becomes
    <3>5. d.file = dir.file /\ d.tmp = dir.tmp /\ d.bak = dir.bak /\ d.aside = a
      BY <2>0 DEF Folders
    <3> HIDE DEF a, d
    <3> QED
      BY <2>0, <3>1, <3>2, <3>4, <3>5 DEF AtomicInv, FailureKeepsBackups, Become, Before, After
  <2>4. CASE CopyFails
    BY <2>4 DEF CopyFails, AtomicInv, FoldersFit, FailureKeepsBackups, Before, After
  <2>5. CASE RenameOver
    <3> DEFINE d == [dir EXCEPT !.file = dir.tmp, !.tmp = Vacant]
    <3>1. /\ pc = "copied" /\ Become(d) /\ pc' = IF dir.aside = Vacant THEN "rotated" ELSE "drop"
          /\ UNCHANGED <<k, ver, before, result, returned>>
      BY <2>5 DEF RenameOver
    <3>2. Fit(d, returned, ver)
      BY <2>0, <3>1, FitRename DEF AtomicInv, Before
    <3>3. FoldersFit'
      BY <3>1, <3>2, Becomes
    <3>4. d.file = dir.tmp /\ d.tmp = Vacant /\ d.bak = dir.bak /\ d.aside = dir.aside
      BY <2>0 DEF Folders
    <3> HIDE DEF d
    <3> QED
      BY <2>0, <3>1, <3>3, <3>4, FileTypes DEF AtomicInv, FailureKeepsBackups, Become, Before, After
  <2>6. CASE DropOldest
    <3> DEFINE d == [dir EXCEPT !.bak[Backups] = Vacant]
    <3>1. /\ pc = "drop" /\ Become(d) /\ pc' = "shift" /\ k' = Backups - 1
          /\ UNCHANGED <<ver, before, result, returned>>
      BY <2>6 DEF DropOldest
    <3>2. Fit(d, returned, ver)
      BY <2>0, FitGone
    <3>3. FoldersFit'
      BY <3>1, <3>2, Becomes
    <3>4. d.file = dir.file /\ d.tmp = dir.tmp /\ d.aside = dir.aside
      BY <2>0 DEF Folders
    <3> HIDE DEF d
    <3> QED
      BY <2>0, <3>1, <3>3, <3>4 DEF AtomicInv, FailureKeepsBackups, Become, Before, After
  <2>7. CASE Shift
    <3>1. pc = "shift" /\ UNCHANGED <<ver, before, result, returned>>
      BY <2>7 DEF Shift
    <3>2. CASE k > 0
      <4> DEFINE d == IF dir.bak[k] = Vacant THEN dir
                      ELSE [dir EXCEPT !.bak[k + 1] = dir.bak[k], !.bak[k] = Vacant]
      <4>1. Become(d) /\ k' = k - 1 /\ pc' = pc
        BY <2>7, <3>2 DEF Shift
      <4>2. Fit(d, returned, ver)
        <5>1. k \in 1..Backups /\ k < Backups
          BY <3>1, <3>2 DEF AtomicInv
        <5>2. Fit([dir EXCEPT !.bak[k + 1] = dir.bak[k], !.bak[k] = Vacant], returned, ver)
          BY <2>0, <5>1, FitMoved
        <5> QED
          BY <2>0, <5>2
      <4>3. FoldersFit'
        BY <3>1, <4>1, <4>2, Becomes
      <4>4. d.file = dir.file /\ d.tmp = dir.tmp /\ d.aside = dir.aside
        BY <2>0 DEF Folders
      <4> HIDE DEF d
      <4> QED
        BY <2>0, <3>1, <4>1, <4>3, <4>4 DEF AtomicInv, FailureKeepsBackups, Become, Before, After
    <3>3. CASE ~(k > 0)
      <4> DEFINE d == [dir EXCEPT !.bak[1] = dir.aside, !.aside = Vacant]
      <4>1. Become(d) /\ k' = k /\ pc' = "rotated"
        BY <2>7, <3>3 DEF Shift
      <4>2. Fit(d, returned, ver)
        BY <2>0, <3>1, FitNewest DEF AtomicInv, After
      <4>3. FoldersFit'
        BY <3>1, <4>1, <4>2, Becomes
      <4>4. d.file = dir.file /\ d.tmp = dir.tmp /\ d.aside = Vacant
        BY <2>0 DEF Folders
      <4> HIDE DEF d
      <4> QED
        BY <2>0, <3>1, <4>1, <4>3, <4>4 DEF AtomicInv, FailureKeepsBackups, Become, Before, After
    <3> QED
      BY <3>2, <3>3
  <2>8. CASE RotateFails
    <3> DEFINE d == [dir EXCEPT !.aside = Vacant]
    <3>1. /\ pc \in {"drop", "shift"} /\ Become(d) /\ pc' = "rotated"
          /\ UNCHANGED <<k, ver, before, result, returned>>
      BY <2>8 DEF RotateFails
    <3>2. Fit(d, returned, ver)
      BY <2>0, FitAside, FileTypes
    <3>3. FoldersFit'
      BY <3>1, <3>2, Becomes
    <3>4. d.file = dir.file /\ d.tmp = dir.tmp /\ d.aside = Vacant
      BY <2>0 DEF Folders
    <3> HIDE DEF d
    <3> QED
      BY <2>0, <3>1, <3>3, <3>4 DEF AtomicInv, FailureKeepsBackups, Become, Before, After
  <2>9. CASE SyncDir
    <3>1. /\ pc = "rotated" /\ pc' = "idle" /\ durable' = {dir} /\ returned' = ver
          /\ result' = "ok" /\ UNCHANGED <<dir, k, ver, before>>
      BY <2>9 DEF SyncDir
    <3>2. dir.file.ver = ver
      BY <3>1 DEF AtomicInv, After
    <3>3. Fit(dir, ver, ver)
      BY <2>0, <3>2, FitWider
    <3> QED
      BY <2>0, <3>1, <3>2, <3>3 DEF AtomicInv, FoldersFit, FailureKeepsBackups, Before, After
  <2>10. CASE SaveFails
    <3> DEFINE c == [dir EXCEPT !.tmp = Vacant]
               d == [dir EXCEPT !.tmp = Vacant, !.aside = Vacant]
    <3>1. /\ pc \in Before /\ Become(d) /\ pc' = "idle"
          /\ UNCHANGED <<k, ver, before, returned>>
      BY <2>10 DEF SaveFails, Before
    <3>2. Fit(c, returned, ver) /\ d = [c EXCEPT !.aside = Vacant]
      BY <2>0, FitTmp, FileTypes DEF Folders
    <3>3. Fit(d, returned, ver)
      <4> HIDE DEF c, d
      <4>1. Fit([c EXCEPT !.aside = Vacant], returned, ver)
        BY <2>0, <3>2, FitAside, FileTypes
      <4> QED
        BY <3>2, <4>1
    <3>4. FoldersFit'
      BY <3>1, <3>3, Becomes
    <3>5. d.file = dir.file /\ d.tmp = Vacant /\ d.bak = dir.bak /\ d.aside = Vacant
      BY <2>0 DEF Folders
    <3> HIDE DEF d
    <3> QED
      BY <2>0, <3>1, <3>4, <3>5 DEF AtomicInv, FailureKeepsBackups, Become, Before, After
  <2>11. CASE SyncDirFails
    BY <2>11 DEF SyncDirFails, AtomicInv, FoldersFit, FailureKeepsBackups, Before, After
  <2>12. CASE Crash
    <3>1. PICK d \in durable :
            \E f \in AfterCrash(d.file),
               b \in {c \in [1..Backups -> UNION {AfterCrash(d.bak[j]) : j \in 1..Backups}]
                        : \A j \in 1..Backups : c[j] \in AfterCrash(d.bak[j])} :
                 /\ dir' = [file |-> f, tmp |-> Vacant, aside |-> Vacant, bak |-> b]
                 /\ durable' = {dir'} /\ before' = b
      BY <2>12 DEF Crash
    <3>2. PICK f \in AfterCrash(d.file),
               b \in [1..Backups -> UNION {AfterCrash(d.bak[j]) : j \in 1..Backups}] :
            /\ \A j \in 1..Backups : b[j] \in AfterCrash(d.bak[j])
            /\ dir' = [file |-> f, tmp |-> Vacant, aside |-> Vacant, bak |-> b]
            /\ durable' = {dir'} /\ before' = b
      BY <3>1
    <3>3. b = [j \in 1..Backups |-> b[j]]
      BY <3>2
    <3>4. Fit(d, returned, ver)
      BY DEF AtomicInv, FoldersFit
    <3>5. Fit(dir', returned, ver)
      BY <2>0, <3>2, <3>3, <3>4, FitCrash
    <3>6. /\ pc' = "idle" /\ k' = 0 /\ result' = "ok" /\ UNCHANGED <<ver, returned>>
      BY <2>12 DEF Crash
    <3>7. dir'.tmp = Vacant /\ dir'.aside = Vacant
      BY <3>2
    <3> QED
      BY <2>0, <3>2, <3>5, <3>6, <3>7 DEF AtomicInv, FoldersFit, FailureKeepsBackups, Before, After
  <2>13. CASE UNCHANGED avars
    BY <2>13 DEF avars, AtomicInv, FoldersFit, FailureKeepsBackups
  <2> QED
    BY <2>1, <2>2, <2>3, <2>4, <2>5, <2>6, <2>7,
       <2>8, <2>9, <2>10, <2>11, <2>12, <2>13 DEF ANext
<1> QED
  BY <1>1, <1>2, PTL DEF ASpec

\* For any number of backups, saves and crashes: readers only ever see the old or
\* the new file, whole and not behind a save that returned, also after a crash.
THEOREM FileOldOrNew ==
    ASSUME Backups \in Nat
    PROVE  ASpec => []OldOrNew
<1>1. AtomicInv => OldOrNew
  BY DEF AtomicInv, FoldersFit, Fit, OldOrNew
<1> QED
  BY <1>1, AtomicInvariant, PTL

\* The backups stay in order through failed rotations and crashes in the middle
\* of one, however many there are.
THEOREM BackupsStayOrdered ==
    ASSUME Backups \in Nat
    PROVE  ASpec => []BackupsOrdered
<1>1. AtomicInv => BackupsOrdered
  BY DEF AtomicInv, FoldersFit, Fit, InOrder, BackupsOrdered
<1> QED
  BY <1>1, AtomicInvariant, PTL

\* A call cleans up after itself, and one that failed before the rename leaves
\* the backups as they were.
THEOREM FailureLeavesNothing ==
    ASSUME Backups \in Nat
    PROVE  ASpec => [](NoLeftovers /\ FailureKeepsBackups)
<1>1. AtomicInv => NoLeftovers /\ FailureKeepsBackups
  BY DEF AtomicInv, NoLeftovers
<1> QED
  BY <1>1, AtomicInvariant, PTL

(***************************************************************************)
(* The backups are complete: in a rotation, those above k + 1 are in their *)
(* new places, the one at k + 1 has gone, the others are where they were.  *)
(***************************************************************************)
Kept(v, j) == IF j <= v THEN v - j ELSE -1

Complete(v) == \A j \in 1..Backups : dir.bak[j].ver = Kept(v, j)

Rotating ==
    /\ Backups > 0 => k >= 0
    /\ \A j \in 1..Backups :
         dir.bak[j].ver = IF j > k + 1 THEN Kept(ver, j)
                          ELSE IF j = k + 1 THEN -1 ELSE Kept(ver - 1, j)

CompleteInv ==
    clean =>
    /\ pc \in {"idle", "rotated"} => Complete(ver) /\ dir.file.ver = ver
    /\ pc \in Before \cup {"drop"} => Complete(ver - 1)
    /\ pc \in Before => dir.file.ver = ver - 1
    /\ pc \in {"copied", "drop", "shift"} /\ Backups > 0 => dir.aside.ver = ver - 1
    /\ pc = "shift" => Rotating

\* With nothing failing, the backups are exactly the last versions, for any number
\* of backups and of saves.
THEOREM BackupsAreComplete ==
    ASSUME Backups \in Nat
    PROVE  ASpec => []BackupsComplete
<1>1. AInit => CompleteInv
  BY DEF AInit, CompleteInv, Complete, Kept, Before, Vacant, Safe
<1>2. AtomicInv /\ CompleteInv /\ [ANext]_avars => CompleteInv'
  <2> SUFFICES ASSUME AtomicInv, CompleteInv, [ANext]_avars, clean' PROVE CompleteInv'
    BY DEF CompleteInv
  <2>a. clean
    BY DEF ANext, Start, SyncTmp, CopyAside, CopyFails, RenameOver, DropOldest, Shift,
           RotateFails, SyncDir, SaveFails, SyncDirFails, Crash, avars
  <2>0. /\ dir \in Folders /\ dir.file.ver \in Int /\ dir.aside.ver \in Int
        /\ ver \in Int /\ k \in Int /\ ver >= -1
        /\ \A j \in 1..Backups : dir.bak[j].ver \in Int
    BY Versions DEF AtomicInv, FoldersFit, Fit
  <2>1. CASE Start
    <3>1. /\ pc = "idle" /\ pc' = "tmp" /\ ver' = ver + 1
          /\ dir' = [dir EXCEPT !.tmp = Unsafe(ver + 1)]
      BY <2>1 DEF Start, Become
    <3>2. dir'.file = dir.file /\ dir'.bak = dir.bak
      BY <2>0, <3>1 DEF Folders
    <3> QED
      BY <2>0, <3>1, <3>2, <2>a DEF CompleteInv, Complete, Before
  <2>2. CASE SyncTmp
    <3>1. /\ pc = "tmp" /\ pc' = IF Backups > 0 THEN "synced" ELSE "copied"
          /\ dir' = [dir EXCEPT !.tmp = Safe(ver)] /\ ver' = ver
      BY <2>2 DEF SyncTmp
    <3>2. dir'.file = dir.file /\ dir'.bak = dir.bak
      BY <2>0, <3>1 DEF Folders
    <3> QED
      BY <2>0, <3>1, <3>2, <2>a DEF CompleteInv, Complete, Before
  <2>3. CASE CopyAside
    <3> DEFINE a == IF dir.file = Vacant THEN Vacant ELSE Unsafe(dir.file.ver)
    <3>1. /\ pc = "synced" /\ pc' = "copied" /\ dir' = [dir EXCEPT !.aside = a] /\ ver' = ver
      BY <2>3 DEF CopyAside, Become
    <3>2. dir'.file = dir.file /\ dir'.bak = dir.bak /\ dir'.aside = a
      BY <2>0, <3>1 DEF Folders
    <3>3. a.ver = dir.file.ver
      BY <2>0, FileTypes
    <3> HIDE DEF a
    <3> QED
      BY <2>0, <3>1, <3>2, <3>3, <2>a DEF CompleteInv, Complete, Before
  <2>4. CASE RenameOver
    <3>1. /\ pc = "copied" /\ pc' = IF dir.aside = Vacant THEN "rotated" ELSE "drop"
          /\ dir' = [dir EXCEPT !.file = dir.tmp, !.tmp = Vacant] /\ ver' = ver
      BY <2>4 DEF RenameOver, Become
    <3>2. dir'.file = dir.tmp /\ dir'.bak = dir.bak /\ dir'.aside = dir.aside
      BY <2>0, <3>1 DEF Folders
    <3>3. dir.tmp.ver = ver
      BY <2>0, <3>1, FileTypes DEF AtomicInv
    <3>4. Complete(ver - 1) /\ (Backups > 0 => dir.aside.ver = ver - 1)
      BY <3>1, <2>a DEF CompleteInv, Before
    <3>5. CASE dir.aside = Vacant
      <4>1. Backups > 0 => ver = 0
        BY <2>0, <3>4, <3>5, FileTypes
      <4>2. \A j \in 1..Backups : Kept(ver - 1, j) = Kept(ver, j)
        BY <2>0, <4>1 DEF Kept
      <4> QED
        BY <3>1, <3>2, <3>3, <3>4, <3>5, <4>2, <2>a DEF CompleteInv, Complete, Before
    <3>6. CASE dir.aside # Vacant
      BY <3>1, <3>2, <3>3, <3>4, <3>6, <2>a DEF CompleteInv, Complete, Before
    <3> QED
      BY <3>5, <3>6
  <2>5. CASE DropOldest
    <3>1. /\ pc = "drop" /\ pc' = "shift" /\ k' = Backups - 1 /\ ver' = ver
          /\ dir' = [dir EXCEPT !.bak[Backups] = Vacant]
      BY <2>5 DEF DropOldest, Become
    <3>2. /\ dir'.aside = dir.aside
          /\ \A j \in 1..Backups : dir'.bak[j] = IF j = Backups THEN Vacant ELSE dir.bak[j]
      BY <2>0, <3>1 DEF Folders
    <3>3. Complete(ver - 1) /\ (Backups > 0 => dir.aside.ver = ver - 1)
      BY <3>1, <2>a DEF CompleteInv, Before
    <3>4. Rotating'
      BY <2>0, <3>1, <3>2, <3>3, FileTypes DEF Complete, Rotating
    <3> QED
      BY <3>1, <3>2, <3>3, <3>4, <2>a DEF CompleteInv, Before
  <2>6. CASE Shift
    <3>1. pc = "shift" /\ ver' = ver /\ Rotating /\ (Backups > 0 => dir.aside.ver = ver - 1)
      BY <2>6, <2>a DEF Shift, CompleteInv
    <3>2. CASE k > 0 /\ dir.bak[k] = Vacant
      <4>1. dir' = dir /\ k' = k - 1 /\ pc' = pc
        BY <2>6, <3>2 DEF Shift, Become
      <4>2. k \in 1..Backups /\ k + 1 \in 1..Backups
        BY <2>0, <3>1, <3>2 DEF AtomicInv
      <4>3. Kept(ver - 1, k) = -1
        BY <2>0, <3>1, <3>2, <4>2, FileTypes DEF Rotating
      <4>4. Kept(ver, k + 1) = -1
        BY <2>0, <4>2, <4>3 DEF Kept
      <4>5. Rotating'
        BY <2>0, <3>1, <4>1, <4>2, <4>3, <4>4 DEF Rotating
      <4> QED
        BY <3>1, <4>1, <4>5, <2>a DEF CompleteInv, Before
    <3>3. CASE k > 0 /\ dir.bak[k] # Vacant
      <4>1. /\ dir' = [dir EXCEPT !.bak[k + 1] = dir.bak[k], !.bak[k] = Vacant]
            /\ k' = k - 1 /\ pc' = pc
        BY <2>6, <3>3 DEF Shift, Become
      <4>2. k \in 1..Backups /\ k + 1 \in 1..Backups
        BY <2>0, <3>1, <3>3 DEF AtomicInv
      <4>3. /\ dir'.aside = dir.aside
            /\ \A j \in 1..Backups :
                 dir'.bak[j] = IF j = k THEN Vacant
                               ELSE IF j = k + 1 THEN dir.bak[k] ELSE dir.bak[j]
        BY <2>0, <4>1, <4>2 DEF Folders
      <4>4. Kept(ver - 1, k) = Kept(ver, k + 1)
        BY <2>0, <4>2 DEF Kept
      <4>5. Rotating'
        BY <2>0, <3>1, <4>1, <4>2, <4>3, <4>4, FileTypes DEF Rotating
      <4> QED
        BY <3>1, <4>1, <4>3, <4>5, <2>a DEF CompleteInv, Before
    <3>4. CASE ~(k > 0)
      <4>1. /\ dir' = [dir EXCEPT !.bak[1] = dir.aside, !.aside = Vacant]
            /\ k' = k /\ pc' = "rotated"
        BY <2>6, <3>4 DEF Shift, Become
      <4>2. /\ dir'.file = dir.file
            /\ \A j \in 1..Backups : dir'.bak[j] = IF j = 1 THEN dir.aside ELSE dir.bak[j]
        BY <2>0, <4>1 DEF Folders
      <4>3. Backups > 0 => k = 0 /\ ver >= 1
        BY <2>0, <3>1, <3>4 DEF AtomicInv, Rotating
      <4>4. Complete(ver)'
        BY <2>0, <3>1, <4>2, <4>3 DEF Complete, Rotating, Kept
      <4>5. dir.file.ver = ver
        BY <3>1 DEF AtomicInv, After
      <4> QED
        BY <3>1, <4>1, <4>2, <4>4, <4>5, <2>a DEF CompleteInv, Before
    <3> QED
      BY <2>0, <3>2, <3>3, <3>4
  <2>7. CASE SyncDir
    BY <2>7, <2>a DEF SyncDir, CompleteInv, Complete, Before
  <2>8. CASE CopyFails \/ RotateFails \/ SaveFails \/ SyncDirFails \/ Crash
    BY <2>8 DEF CopyFails, RotateFails, SaveFails, SyncDirFails, Crash
  <2>9. CASE UNCHANGED avars
    BY <2>9, <2>a DEF avars, CompleteInv, Complete, Rotating
  <2> QED
    BY <2>1, <2>2, <2>3, <2>4, <2>5, <2>6, <2>7, <2>8, <2>9 DEF ANext
<1>3. CompleteInv => BackupsComplete
  BY DEF CompleteInv, Complete, Kept, BackupsComplete
<1> QED
  BY <1>1, <1>2, <1>3, AtomicInvariant, PTL DEF ASpec
=============================================================================
