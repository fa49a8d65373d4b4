------------------------- MODULE SettingsSyncProofs -------------------------
(***************************************************************************)
(* Proofs about SettingsSync: type correctness for every value of the      *)
(* constants, and, when the list of records can not become empty, that     *)
(* settled edits are on disk and saves leave other instances' records      *)
(* alone.  And about HostsReload on top of it: the tracker is exact, a     *)
(* reload that was put off has a save that starts it, and when all is      *)
(* quiet the hosts shown are those on disk.  At the end, about the         *)
(* Keychain: two files that no operation writes together keep agreeing.    *)
(***************************************************************************)
EXTENDS HostsReload, TLAPS

USE ConstantsAssumption

-----------------------------------------------------------------------------
(* The merge yields a document.                                             *)
LEMMA EmptyDocType == EmptyDoc \in Docs /\ Idle \in Write /\ NoJob \in Job
BY DEF EmptyDoc, Docs, Idle, Write, NoJob, Job

\* Merging two documents of records gives a document.
LEMMA MergeListType ==
    ASSUME NEW b \in Docs, NEW ours \in Docs, NEW theirs \in Docs
    PROVE  MergeList(b, ours, theirs) \in Docs
BY DEF MergeList, MergeRecord, Docs

\* Whatever was read from disk, write_merging writes a document.
LEMMA OutType ==
    ASSUME NEW b, NEW bytes \in Docs, NEW current
    PROVE  Out(b, bytes, current) \in Docs
<1>1. CASE b \in Docs /\ current \in Docs
  BY <1>1, MergeListType DEF Out, Merge3
<1>2. CASE ~(b \in Docs /\ current \in Docs)
  BY <1>2 DEF Out, Merge3
<1> QED BY <1>1, <1>2

\* A pending job is never mistaken for no job.
LEMMA NoneIsNoJob == ASSUME NEW j \in Job PROVE j # None
OBVIOUS

\* What Append does to a queue.
LEMMA AppendElements ==
    ASSUME NEW S, NEW q \in Seq(S), NEW e \in S
    PROVE  /\ Len(Append(q, e)) = Len(q) + 1 /\ Append(q, e) # <<>>
           /\ Append(q, e)[Len(q) + 1] = e
           /\ \A k \in 1..Len(q) : Append(q, e)[k] = q[k]
OBVIOUS

\* The tail of a queue, element by element.
LEMMA TailElements ==
    ASSUME NEW S, NEW q \in Seq(S), q # <<>>
    PROVE  /\ Len(q) \in Nat \ {0} /\ Len(Tail(q)) = Len(q) - 1
           /\ \A k \in 1..Len(Tail(q)) : Tail(q)[k] = q[k + 1]
<1>1. Len(q) \in Nat \ {0} /\ Len(Tail(q)) = Len(q) - 1
  OBVIOUS
<1>2. \A k \in 1..Len(Tail(q)) : Tail(q)[k] = q[k + 1]
  BY <1>1
<1> QED BY <1>1, <1>2

-----------------------------------------------------------------------------
LEMMA InitTypeOK == Init => TypeOK
<1> SUFFICES ASSUME Init PROVE TypeOK
  OBVIOUS
<1>1. disk \in Files /\ lock \in Instances \cup {None}
  BY DEF Init, Files
<1>2. mem \in [Instances -> Docs] /\ base \in [Instances -> Docs \cup {None, Broken}]
  BY EmptyDocType DEF Init
<1>3. queued \in [Instances -> Nat] /\ chan \in [Instances -> Seq(Job)]
  BY DEF Init
<1>4. pend \in [Instances -> Job \cup {None}] /\ wr \in [Instances -> Write]
        /\ failed \in [Instances -> BOOLEAN] /\ stale \in [Instances -> BOOLEAN]
        /\ first \in InitDisks
  BY EmptyDocType DEF Init
<1> QED BY <1>1, <1>2, <1>3, <1>4 DEF TypeOK

LEMMA NextTypeOK == TypeOK /\ [Next]_vars => TypeOK'
<1> SUFFICES ASSUME TypeOK, [Next]_vars PROVE TypeOK'
  OBVIOUS
<1>1. CASE UNCHANGED vars
  BY <1>1 DEF TypeOK, vars
<1>2. ASSUME NEW i \in Instances, NEW x \in Ids, NEW v \in Values \cup {Absent},
             Edit(i, x, v)
      PROVE  TypeOK'
  <2>1. [mem[i] EXCEPT ![x] = v] \in Docs
    BY DEF TypeOK, Docs
  <2>2. [doc |-> [mem[i] EXCEPT ![x] = v], seq |-> queued[i] + 1] \in Job
    BY <2>1 DEF TypeOK, Job
  <2>3. mem' \in [Instances -> Docs]
    BY <1>2, <2>1 DEF TypeOK, Edit
  <2>4. queued' \in [Instances -> Nat]
    BY <1>2 DEF TypeOK, Edit
  <2>5. chan' \in [Instances -> Seq(Job)]
    BY <1>2, <2>2 DEF TypeOK, Edit
  <2> QED BY <1>2, <2>3, <2>4, <2>5 DEF TypeOK, Edit
<1>3. ASSUME NEW i \in Instances, Receive(i) PROVE TypeOK'
  <2>1. Head(chan[i]) \in Job /\ Tail(chan[i]) \in Seq(Job)
    BY <1>3 DEF TypeOK, Receive
  <2>2. pend' \in [Instances -> Job \cup {None}] /\ chan' \in [Instances -> Seq(Job)]
    BY <1>3, <2>1 DEF TypeOK, Receive
  <2> QED BY <1>3, <2>2 DEF TypeOK, Receive
<1>4. ASSUME NEW i \in Instances, Debounced(i) PROVE TypeOK'
  <2>1. [st |-> "based", job |-> pend[i], base |-> base[i], out |-> EmptyDoc] \in Write
    BY <1>4, EmptyDocType DEF TypeOK, Debounced, Write
  <2> QED BY <1>4, <2>1 DEF TypeOK, Debounced
<1>5. ASSUME NEW i \in Instances, WriteAsGiven(i) PROVE TypeOK'
  <2>1. disk' \in Files
    BY <1>5 DEF TypeOK, WriteAsGiven, Files, Write, Job
  <2>2. PICK fsyncFails \in BOOLEAN : failed' = [failed EXCEPT ![i] = fsyncFails]
    BY <1>5 DEF WriteAsGiven
  <2>3. failed' \in [Instances -> BOOLEAN]
    BY <2>2 DEF TypeOK
  <2>4. wr' \in [Instances -> Write]
    BY <1>5, EmptyDocType DEF TypeOK, WriteAsGiven
  <2> QED BY <1>5, <2>1, <2>3, <2>4 DEF TypeOK, WriteAsGiven
<1>6. ASSUME NEW i \in Instances, LockAndRead(i) PROVE TypeOK'
  <2>1. wr[i] \in Write /\ wr[i].job \in Job /\ wr[i].job.doc \in Docs
    BY DEF TypeOK, Write, Job
  <2>2. Out(wr[i].base, wr[i].job.doc, disk) \in Docs
    BY <2>1, OutType
  <2>3. wr' \in [Instances -> Write]
    BY <1>6, <2>1, <2>2 DEF TypeOK, LockAndRead, Write
  <2> QED BY <1>6, <2>3 DEF TypeOK, LockAndRead
<1>7. ASSUME NEW i \in Instances, Rename(i) PROVE TypeOK'
  <2>1. disk' \in Files
    BY <1>7 DEF TypeOK, Rename, Files, Write
  <2>2. wr' \in [Instances -> Write]
    <3>1. wr[i] \in Write
      BY DEF TypeOK
    <3>2. [wr[i] EXCEPT !.st = "renamed"] \in Write
      BY <3>1 DEF Write
    <3> QED BY <1>7, <3>2 DEF TypeOK, Rename
  <2> QED BY <1>7, <2>1, <2>2 DEF TypeOK, Rename
<1>8. ASSUME NEW i \in Instances, Remember(i) PROVE TypeOK'
  BY <1>8, EmptyDocType DEF TypeOK, Remember, Write, Job
<1>9. ASSUME NEW i \in Instances, WriteFails(i) PROVE TypeOK'
  BY <1>9, EmptyDocType DEF TypeOK, WriteFails
<1>10. ASSUME NEW i \in Instances, FlushAndReload(i) PROVE TypeOK'
  <2>1. disk \in Docs /\ disk # Missing
    BY <1>10 DEF FlushAndReload
  <2>2. mem' \in [Instances -> Docs] /\ failed' \in [Instances -> BOOLEAN]
    BY <1>10, <2>1 DEF TypeOK, FlushAndReload
  <2>3. /\ base' = [base EXCEPT ![i] = disk]
        /\ stale' = [stale EXCEPT ![i] = FALSE]
    BY <1>10, <2>1 DEF FlushAndReload, RememberRead
  <2>4. base' \in [Instances -> Docs \cup {None, Broken}]
    BY <2>1, <2>3 DEF TypeOK
  <2>5. stale' \in [Instances -> BOOLEAN]
    BY <2>3 DEF TypeOK
  <2> QED BY <1>10, <2>2, <2>4, <2>5 DEF TypeOK, FlushAndReload
<1>11. ASSUME NEW i \in Instances, DirSyncFailed(i) PROVE TypeOK'
  BY <1>11, EmptyDocType DEF TypeOK, DirSyncFailed
<1> QED
  BY <1>1, <1>2, <1>3, <1>4, <1>5, <1>6, <1>7, <1>8, <1>9, <1>10, <1>11
  DEF Next, WriterStep

(***************************************************************************)
(* Type correctness of the settings writer, for any instances and records. *)
(***************************************************************************)
THEOREM TypeCorrect == Spec => []TypeOK
BY InitTypeOK, NextTypeOK, PTL DEF Spec

-----------------------------------------------------------------------------
(***************************************************************************)
(* The merge under honest baselines, record by record.  Instance i changed *)
(* only records of its own since its baseline: the merge keeps the disk's  *)
(* version of every other record, and i's version of each of its own       *)
(* records that is on disk as in the baseline.                             *)
(***************************************************************************)
LEMMA HonestMerge ==
    ASSUME NEW i, NEW b \in Docs, NEW bytes \in Docs, NEW current \in Docs,
           \A x \in Ids : Owner[x] # i => bytes[x] = b[x],
           OmitsEmpty => bytes # EmptyDoc /\ current # EmptyDoc,
           NEW x \in Ids
    PROVE  /\ Owner[x] # i => Out(b, bytes, current)[x] = current[x]
           /\ Owner[x] = i /\ current[x] = b[x]
                => Out(b, bytes, current)[x] = bytes[x]
<1>1. Missing # current
  OBVIOUS
<1>2. CASE current = b \/ current = bytes
  <2>1. Out(b, bytes, current) = bytes
    BY <1>2 DEF Out
  <2> QED BY <1>2, <2>1
<1>3. CASE current # b /\ current # bytes
  <2>1. Out(b, bytes, current) = MergeList(b, bytes, current)
    BY <1>1, <1>3 DEF Out, Merge3
  <2>2. CASE bytes = b
    <3>1. MergeList(b, bytes, current) = current
      BY <1>3, <2>2 DEF MergeList
    <3> QED BY <2>1, <2>2, <3>1
  <2>3. CASE bytes # b
    <3>1. MergeList(b, bytes, current)[x] = MergeRecord(b[x], bytes[x], current[x])
      BY <1>3, <2>3 DEF MergeList
    <3> QED BY <2>1, <3>1 DEF MergeRecord
  <2> QED BY <2>2, <2>3
<1> QED BY <1>2, <1>3

LEMMA InitIInv == Init => IInv
<1> SUFFICES ASSUME Init PROVE IInv
  OBVIOUS
<1>1. TypeOK
  BY InitTypeOK
<1>2. SUFFICES ASSUME first \in Docs PROVE Honest
  BY <1>1 DEF IInv
<1>3. /\ disk = first /\ lock = None
      /\ \A i \in Instances :
           /\ mem[i] = first /\ base[i] = first /\ chan[i] = <<>>
           /\ pend[i] = None /\ wr[i].st = "idle"
  BY <1>2 DEF Init, Idle
<1>4. LockInv /\ ReadableInv /\ OwnInv /\ OutInv /\ PinnedInv
  BY <1>2, <1>3 DEF LockInv, ReadableInv, OwnInv, OutInv, PinnedInv
<1>5. ForeignInv /\ LatestInv
  BY <1>3 DEF ForeignInv, LatestInv
<1> QED BY <1>1, <1>2, <1>4, <1>5 DEF Honest

\* Without an edit of its own the lock, the disk and the baselines stay.
LEMMA EditKeeps ==
    ASSUME Honest, TypeOK', NEW i \in Instances, NEW x \in Ids,
           NEW v \in Values \cup {Absent}, Edit(i, x, v)
    PROVE  Honest'
<1> DEFINE doc == [mem[i] EXCEPT ![x] = v]
<1> DEFINE job == [doc |-> doc, seq |-> queued[i] + 1]
<1>1. TypeOK
  BY DEF Honest
<1>2. doc \in Docs /\ job \in Job /\ job.doc = doc
  BY <1>1 DEF TypeOK, Docs, Job
<1>3. /\ mem' = [mem EXCEPT ![i] = doc]
      /\ chan' = [chan EXCEPT ![i] = Append(chan[i], job)]
      /\ UNCHANGED <<disk, lock, base, pend, wr, failed, first, stale>>
  BY <1>1 DEF Edit, TypeOK
<1>4. mem'[i] = doc /\ chan'[i] = Append(chan[i], job)
  BY <1>1, <1>3 DEF TypeOK
<1>5. chan[i] \in Seq(Job) /\ Len(chan'[i]) = Len(chan[i]) + 1
      /\ chan'[i] # <<>> /\ chan'[i][Len(chan[i]) + 1] = job
      /\ \A k \in 1..Len(chan[i]) : chan'[i][k] = chan[i][k]
  <2>1. chan[i] \in Seq(Job)
    BY <1>1 DEF TypeOK
  <2> HIDE DEF job
  <2> QED BY <2>1, <1>2, <1>4, AppendElements
<1>6. \A j \in Instances : j # i => mem'[j] = mem[j] /\ chan'[j] = chan[j]
  BY <1>1, <1>3 DEF TypeOK
<1>7. (LockInv /\ ReadableInv /\ OwnInv /\ OutInv /\ PinnedInv)'
  BY <1>3 DEF Honest, LockInv, ReadableInv, OwnInv, OutInv, PinnedInv
<1>8. ForeignInv'
  <2> SUFFICES ASSUME NEW j \in Instances, NEW y \in Ids, Owner[y] # j
               PROVE  /\ mem'[j][y] = base[j][y]
                      /\ \A k \in 1..Len(chan'[j]) : chan'[j][k].doc[y] = base[j][y]
                      /\ pend[j] # None => pend[j].doc[y] = base[j][y]
                      /\ wr[j].st # "idle" => wr[j].job.doc[y] = base[j][y]
    BY <1>3 DEF ForeignInv
  <2>1. CASE j # i
    BY <2>1, <1>6 DEF Honest, ForeignInv
  <2>2. CASE j = i
    <3>1. y # x
      BY <2>2 DEF Edit
    <3>2. doc[y] = base[i][y]
      BY <2>2, <3>1, <1>1 DEF Honest, ForeignInv, TypeOK, Docs
    <3>3. \A k \in 1..Len(chan'[i]) : chan'[i][k].doc[y] = base[i][y]
      <4> SUFFICES ASSUME NEW k \in 1..Len(chan'[i])
                   PROVE  chan'[i][k].doc[y] = base[i][y]
        OBVIOUS
      <4>1. CASE k = Len(chan[i]) + 1
        BY <4>1, <3>2, <1>2, <1>5
      <4>2. CASE k # Len(chan[i]) + 1
        <5>1. k \in 1..Len(chan[i])
          BY <4>2, <1>5
        <5> QED BY <5>1, <2>2, <1>5 DEF Honest, ForeignInv
      <4> QED BY <4>1, <4>2
    <3> QED BY <2>2, <3>2, <3>3, <1>4 DEF Honest, ForeignInv
  <2> QED BY <2>1, <2>2
<1>9. LatestInv'
  <2> SUFFICES ASSUME NEW j \in Instances
               PROVE  /\ chan'[j] # <<>> => chan'[j][Len(chan'[j])].doc = mem'[j]
                      /\ chan'[j] = <<>> => (chan[j] = <<>> /\ mem'[j] = mem[j])
    BY <1>3 DEF Honest, LatestInv, Settled
  <2>1. CASE j # i
    BY <2>1, <1>6 DEF Honest, LatestInv
  <2>2. CASE j = i
    BY <2>2, <1>2, <1>4, <1>5
  <2> QED BY <2>1, <2>2
<1> QED BY <1>3, <1>7, <1>8, <1>9 DEF Honest

LEMMA ReceiveKeeps ==
    ASSUME Honest, TypeOK', NEW i \in Instances, Receive(i)
    PROVE  Honest'
<1>1. TypeOK
  BY DEF Honest
<1>2. /\ chan[i] \in Seq(Job) /\ chan[i] # <<>>
      /\ pend' = [pend EXCEPT ![i] = Head(chan[i])]
      /\ chan' = [chan EXCEPT ![i] = Tail(chan[i])]
      /\ UNCHANGED <<disk, lock, mem, base, wr, failed, first, stale>>
  BY <1>1 DEF Receive, TypeOK
<1>3. pend'[i] = chan[i][1] /\ chan'[i] = Tail(chan[i])
  BY <1>1, <1>2 DEF TypeOK
<1>4. /\ Len(chan'[i]) = Len(chan[i]) - 1 /\ Len(chan[i]) \in Nat \ {0}
      /\ \A k \in 1..Len(chan'[i]) : chan'[i][k] = chan[i][k + 1]
  BY <1>2, <1>3, TailElements
<1>5. \A j \in Instances : j # i => pend'[j] = pend[j] /\ chan'[j] = chan[j]
  BY <1>1, <1>2 DEF TypeOK
<1>6. pend'[i] \in Job /\ pend'[i] # None
  <2>1. chan[i][1] \in Job
    BY <1>2, <1>4
  <2> QED BY <1>3, <2>1, NoneIsNoJob
<1>7. (LockInv /\ ReadableInv /\ OwnInv /\ OutInv /\ PinnedInv)'
  BY <1>2 DEF Honest, LockInv, ReadableInv, OwnInv, OutInv, PinnedInv
<1>8. ForeignInv'
  <2> SUFFICES ASSUME NEW j \in Instances, NEW y \in Ids, Owner[y] # j
               PROVE  /\ mem[j][y] = base[j][y]
                      /\ \A k \in 1..Len(chan'[j]) : chan'[j][k].doc[y] = base[j][y]
                      /\ pend'[j] # None => pend'[j].doc[y] = base[j][y]
                      /\ wr[j].st # "idle" => wr[j].job.doc[y] = base[j][y]
    BY <1>2 DEF ForeignInv
  <2>1. CASE j # i
    BY <2>1, <1>5 DEF Honest, ForeignInv
  <2>2. CASE j = i
    <3>1. \A k \in 1..Len(chan[i]) : chan[i][k].doc[y] = base[i][y]
      BY <2>2 DEF Honest, ForeignInv
    <3>2. pend'[i].doc[y] = base[i][y]
      BY <3>1, <1>3, <1>4
    <3>3. ASSUME NEW k \in 1..Len(chan'[i]) PROVE chan'[i][k].doc[y] = base[i][y]
      <4>1. k + 1 \in 1..Len(chan[i]) /\ chan'[i][k] = chan[i][k + 1]
        BY <1>4
      <4> QED BY <3>1, <4>1
    <3> QED BY <2>2, <3>2, <3>3 DEF Honest, ForeignInv
  <2> QED BY <2>1, <2>2
<1>9. LatestInv'
  <2> SUFFICES ASSUME NEW j \in Instances
               PROVE  /\ chan'[j] # <<>> => chan'[j][Len(chan'[j])].doc = mem[j]
                      /\ chan'[j] = <<>> /\ pend'[j] # None => pend'[j].doc = mem[j]
                      /\ chan'[j] = <<>> /\ pend'[j] = None
                            => chan[j] = <<>> /\ pend[j] = None
    BY <1>2 DEF Honest, LatestInv, Settled
  <2>1. CASE j # i
    BY <2>1, <1>5 DEF Honest, LatestInv
  <2>2. CASE j = i
    <3>1. chan[i][Len(chan[i])].doc = mem[i]
      BY <1>2 DEF Honest, LatestInv
    <3>2. CASE chan'[i] = <<>>
      <4>1. Len(chan[i]) = 1
        BY <3>2, <1>4
      <4> QED BY <2>2, <3>1, <3>2, <4>1, <1>3, <1>6
    <3>3. CASE chan'[i] # <<>>
      <4>1. Len(chan'[i]) >= 1
        BY <3>3, <1>2, <1>3, <1>4
      <4>2. chan'[i][Len(chan'[i])] = chan[i][Len(chan[i])]
        BY <4>1, <1>4
      <4> QED BY <2>2, <3>1, <3>3, <4>2
    <3> QED BY <3>2, <3>3
  <2> QED BY <2>1, <2>2
<1> QED BY <1>2, <1>7, <1>8, <1>9 DEF Honest

LEMMA DebouncedKeeps ==
    ASSUME Honest, TypeOK', NEW i \in Instances, Debounced(i)
    PROVE  Honest'
<1>1. TypeOK
  BY DEF Honest
<1>2. /\ wr[i].st = "idle" /\ chan[i] = <<>> /\ pend[i] # None
      /\ wr' = [wr EXCEPT ![i] = [st |-> "based", job |-> pend[i],
                                  base |-> base[i], out |-> EmptyDoc]]
      /\ pend' = [pend EXCEPT ![i] = None]
      /\ UNCHANGED <<disk, lock, mem, base, chan, failed, first, stale>>
  BY DEF Debounced
<1>3. /\ wr'[i].st = "based" /\ wr'[i].job = pend[i] /\ wr'[i].base = base[i]
      /\ pend'[i] = None
  BY <1>1, <1>2 DEF TypeOK
<1>4. \A j \in Instances : j # i => wr'[j] = wr[j] /\ pend'[j] = pend[j]
  BY <1>1, <1>2 DEF TypeOK
<1>5. (LockInv /\ ReadableInv /\ OwnInv /\ OutInv /\ PinnedInv)'
  BY <1>2, <1>3, <1>4 DEF Honest, LockInv, ReadableInv, OwnInv, OutInv, PinnedInv
<1>6. ForeignInv'
  BY <1>2, <1>3, <1>4 DEF Honest, ForeignInv
<1>7. LatestInv'
  BY <1>2, <1>3, <1>4 DEF Honest, LatestInv, Settled
<1> QED BY <1>2, <1>5, <1>6, <1>7 DEF Honest

\* The heart of the argument: under the lock the merge is the disk with this
\* instance's records replaced.
LEMMA LockAndReadKeeps ==
    ASSUME Honest, TypeOK', NeverEmpty, NEW i \in Instances, LockAndRead(i)
    PROVE  Honest'
<1>1. TypeOK
  BY DEF Honest
<1>2. /\ wr[i].st = "based" /\ lock = None /\ lock' = i
      /\ wr[i] \in Write /\ wr[i].job.doc \in Docs
      /\ UNCHANGED <<disk, mem, base, chan, pend, failed, first, stale>>
  BY <1>1 DEF LockAndRead, TypeOK, Write, Job
<1>3. /\ wr'[i].st = "read" /\ wr'[i].job = wr[i].job /\ wr'[i].base = wr[i].base
      /\ wr'[i].out = Out(wr[i].base, wr[i].job.doc, disk)
  BY <1>1, <1>2 DEF LockAndRead, TypeOK, Write
<1>4. \A j \in Instances : j # i => wr'[j] = wr[j]
  BY <1>1 DEF LockAndRead, TypeOK
<1>5. /\ wr[i].base = base[i] /\ base[i] \in Docs /\ disk \in Docs
      /\ \A x \in Ids : Owner[x] # i => wr[i].job.doc[x] = base[i][x]
      /\ \A x \in Ids : Owner[x] = i /\ ~stale[i] => disk[x] = base[i][x]
  BY <1>2 DEF Honest, ReadableInv, ForeignInv, OwnInv
<1>6. OmitsEmpty => wr[i].job.doc # EmptyDoc /\ disk # EmptyDoc
  <2> SUFFICES ASSUME OmitsEmpty PROVE wr[i].job.doc # EmptyDoc /\ disk # EmptyDoc
    OBVIOUS
  <2>1. first \in InitDisks \cap Docs
    BY <1>1 DEF Honest, TypeOK
  <2>2. PICK p \in Ids : Owner[p] \notin Instances /\ first[p] # Absent
    BY <2>1 DEF NeverEmpty
  <2>3. disk[p] = first[p] /\ wr[i].job.doc[p] = first[p]
    BY <2>2, <1>5 DEF Honest, PinnedInv
  <2> QED BY <2>2, <2>3 DEF EmptyDoc
<1>7. \A x \in Ids :
        /\ Owner[x] # i => wr'[i].out[x] = disk[x]
        /\ Owner[x] = i /\ ~stale[i] => wr'[i].out[x] = wr[i].job.doc[x]
  <2> DEFINE bs == base[i]
             ours == wr[i].job.doc
  <2>1. /\ bs \in Docs /\ ours \in Docs /\ disk \in Docs
        /\ \A x \in Ids : Owner[x] # i => ours[x] = bs[x]
        /\ OmitsEmpty => ours # EmptyDoc /\ disk # EmptyDoc
    BY <1>2, <1>5, <1>6
  <2>2. wr'[i].out = Out(bs, ours, disk)
    BY <1>3, <1>5
  <2>3. \A x \in Ids : Owner[x] = i /\ ~stale[i] => disk[x] = bs[x]
    BY <1>5
  <2> HIDE DEF bs, ours
  <2>4. \A x \in Ids :
          /\ Owner[x] # i => Out(bs, ours, disk)[x] = disk[x]
          /\ Owner[x] = i /\ disk[x] = bs[x] => Out(bs, ours, disk)[x] = ours[x]
    BY <2>1, HonestMerge
  <2>5. \A x \in Ids :
          /\ Owner[x] # i => wr'[i].out[x] = disk[x]
          /\ Owner[x] = i /\ ~stale[i] => wr'[i].out[x] = ours[x]
    BY <2>2, <2>3, <2>4
  <2> QED BY <2>5 DEF ours
<1>8. LockInv'
  BY <1>2, <1>3, <1>4 DEF Honest, LockInv
<1>9. ReadableInv'
  BY <1>2, <1>3, <1>4 DEF Honest, ReadableInv
<1>10. OwnInv' /\ PinnedInv'
  BY <1>2, <1>3, <1>4 DEF Honest, OwnInv, PinnedInv
<1>11. OutInv'
  BY <1>2, <1>3, <1>4, <1>7 DEF Honest, OutInv
<1>12. ForeignInv'
  BY <1>2, <1>3, <1>4 DEF Honest, ForeignInv
<1>13. LatestInv'
  BY <1>2, <1>3, <1>4 DEF Honest, LatestInv, Settled
<1> QED BY <1>2, <1>8, <1>9, <1>10, <1>11, <1>12, <1>13 DEF Honest

LEMMA RenameKeeps ==
    ASSUME Honest, TypeOK', NEW i \in Instances, Rename(i)
    PROVE  Honest'
<1>1. TypeOK
  BY DEF Honest
<1>2. /\ wr[i].st = "read" /\ disk' = wr[i].out /\ wr[i] \in Write
      /\ UNCHANGED <<lock, mem, base, chan, pend, failed, first, stale>>
  BY <1>1 DEF Rename, TypeOK
<1>3. /\ wr'[i].st = "renamed" /\ wr'[i].job = wr[i].job /\ wr'[i].base = wr[i].base
      /\ wr'[i].out = wr[i].out
  BY <1>1, <1>2 DEF Rename, TypeOK, Write
<1>4. \A j \in Instances : j # i => wr'[j] = wr[j]
  BY <1>1 DEF Rename, TypeOK
<1>5. disk' \in Docs
  BY <1>2 DEF Write
<1>6. \A x \in Ids :
        /\ Owner[x] # i => disk'[x] = disk[x]
        /\ Owner[x] = i /\ ~stale[i] => disk'[x] = wr[i].job.doc[x]
  BY <1>2 DEF Honest, OutInv
<1>7. \A j \in Instances : j # i => wr[j].st \notin {"read", "renamed"}
  BY <1>2 DEF Honest, LockInv
<1>8. LockInv'
  BY <1>2, <1>3, <1>4 DEF Honest, LockInv
<1>9. ReadableInv'
  BY <1>2, <1>3, <1>4, <1>5 DEF Honest, ReadableInv
<1>10. OwnInv'
  BY <1>2, <1>3, <1>4, <1>6, <1>7 DEF Honest, OwnInv
<1>11. OutInv'
  BY <1>3, <1>4, <1>7 DEF OutInv
<1>12. PinnedInv'
  BY <1>2, <1>6 DEF Honest, PinnedInv
<1>13. ForeignInv'
  BY <1>2, <1>3, <1>4 DEF Honest, ForeignInv
<1>14. LatestInv'
  BY <1>2, <1>3, <1>4 DEF Honest, LatestInv, Settled
<1> QED BY <1>2, <1>8, <1>9, <1>10, <1>11, <1>12, <1>13, <1>14 DEF Honest

LEMMA RememberKeeps ==
    ASSUME Honest, TypeOK', NEW i \in Instances, Remember(i)
    PROVE  Honest'
<1>1. TypeOK
  BY DEF Honest
<1>2. /\ wr[i].st = "renamed" /\ wr[i].job.doc \in Docs
      /\ base' = [base EXCEPT ![i] = wr[i].job.doc]
      /\ lock' = None
      /\ UNCHANGED <<disk, mem, chan, pend, first, stale>>
  BY <1>1 DEF Remember, TypeOK, Write, Job
<1>3. wr'[i].st = "idle" /\ base'[i] = wr[i].job.doc /\ failed'[i] = FALSE
  BY <1>1 DEF Remember, TypeOK, Idle
<1>4. \A j \in Instances : j # i =>
        wr'[j] = wr[j] /\ base'[j] = base[j] /\ failed'[j] = failed[j]
  BY <1>1 DEF Remember, TypeOK
<1>5. \A j \in Instances : j # i => wr[j].st \notin {"read", "renamed"}
  BY <1>2 DEF Honest, LockInv
<1>6. \A x \in Ids : Owner[x] # i => base'[i][x] = base[i][x]
  BY <1>2, <1>3 DEF Honest, ForeignInv
<1>7. LockInv'
  BY <1>2, <1>3, <1>4, <1>5 DEF LockInv
<1>8. ReadableInv'
  BY <1>2, <1>3, <1>4 DEF Honest, ReadableInv
<1>9. OwnInv'
  BY <1>2, <1>3, <1>4 DEF Honest, OwnInv
<1>10. OutInv'
  BY <1>3, <1>4, <1>5 DEF OutInv
<1>11. PinnedInv'
  BY <1>2, <1>4, <1>6 DEF Honest, PinnedInv
<1>12. ForeignInv'
  BY <1>2, <1>3, <1>4, <1>6 DEF Honest, ForeignInv
<1>13. LatestInv'
  BY <1>2, <1>3, <1>4 DEF Honest, LatestInv, Settled
<1> QED BY <1>2, <1>7, <1>8, <1>9, <1>10, <1>11, <1>12, <1>13 DEF Honest

LEMMA WriteFailsKeeps ==
    ASSUME Honest, TypeOK', NEW i \in Instances, WriteFails(i)
    PROVE  Honest'
<1>1. TypeOK
  BY DEF Honest
<1>2. wr[i].st = "read"
  BY DEF WriteFails, Honest, ReadableInv
<1>3. lock' = None /\ UNCHANGED <<disk, mem, base, chan, pend, first, stale>>
  BY <1>2 DEF WriteFails
<1>4. wr'[i].st = "idle" /\ failed'[i] = TRUE
  BY <1>1 DEF WriteFails, TypeOK, Idle
<1>5. \A j \in Instances : j # i => wr'[j] = wr[j] /\ failed'[j] = failed[j]
  BY <1>1 DEF WriteFails, TypeOK
<1>6. \A j \in Instances : j # i => wr[j].st \notin {"read", "renamed"}
  BY <1>2 DEF Honest, LockInv
<1>7. LockInv'
  BY <1>3, <1>4, <1>5, <1>6 DEF LockInv
<1>8. ReadableInv' /\ OwnInv' /\ PinnedInv'
  BY <1>2, <1>3, <1>4, <1>5 DEF Honest, ReadableInv, OwnInv, PinnedInv
<1>9. OutInv'
  BY <1>4, <1>5, <1>6 DEF OutInv
<1>10. ForeignInv'
  BY <1>3, <1>4, <1>5 DEF Honest, ForeignInv
<1>11. LatestInv'
  BY <1>3, <1>4, <1>5 DEF Honest, LatestInv, Settled
<1> QED BY <1>3, <1>7, <1>8, <1>9, <1>10, <1>11 DEF Honest

LEMMA FlushAndReloadKeeps ==
    ASSUME Honest, TypeOK', NEW i \in Instances, FlushAndReload(i)
    PROVE  Honest'
<1>1. TypeOK
  BY DEF Honest
<1>2. /\ chan[i] = <<>> /\ pend[i] = None /\ wr[i].st = "idle" /\ disk \in Docs
      /\ UNCHANGED <<disk, lock, chan, pend, wr, first>>
  BY DEF FlushAndReload, Settled
<1>3. /\ mem'[i] = disk /\ base'[i] = disk
      /\ failed'[i] = FALSE /\ stale'[i] = FALSE
  BY <1>1, <1>2 DEF FlushAndReload, RememberRead, TypeOK
<1>4. \A j \in Instances : j # i =>
        /\ mem'[j] = mem[j] /\ base'[j] = base[j]
        /\ failed'[j] = failed[j] /\ stale'[j] = stale[j]
  BY <1>1, <1>2 DEF FlushAndReload, RememberRead, TypeOK
<1>5. LockInv' /\ OutInv'
  BY <1>2, <1>4 DEF Honest, LockInv, OutInv
<1>6. ReadableInv'
  BY <1>2, <1>3, <1>4 DEF Honest, ReadableInv
<1>7. OwnInv' /\ PinnedInv'
  BY <1>2, <1>3, <1>4 DEF Honest, OwnInv, PinnedInv
<1>8. ForeignInv'
  <2> SUFFICES ASSUME NEW j \in Instances, NEW y \in Ids, Owner[y] # j
               PROVE  /\ mem'[j][y] = base'[j][y]
                      /\ \A k \in 1..Len(chan[j]) : chan[j][k].doc[y] = base'[j][y]
                      /\ pend[j] # None => pend[j].doc[y] = base'[j][y]
                      /\ wr[j].st # "idle" => wr[j].job.doc[y] = base'[j][y]
    BY <1>2 DEF ForeignInv
  <2>1. CASE j # i
    BY <2>1, <1>4 DEF Honest, ForeignInv
  <2>2. CASE j = i
    BY <2>2, <1>2, <1>3
  <2> QED BY <2>1, <2>2
<1>9. LatestInv'
  BY <1>2, <1>3, <1>4 DEF Honest, LatestInv, Settled
<1> QED BY <1>2, <1>5, <1>6, <1>7, <1>8, <1>9 DEF Honest

\* A write that is reported as failed after its rename leaves its instance's
\* baseline behind the disk; nobody else is concerned.
LEMMA DirSyncFailedKeeps ==
    ASSUME Honest, TypeOK', NEW i \in Instances, DirSyncFailed(i)
    PROVE  Honest'
<1>1. TypeOK
  BY DEF Honest
<1>2. /\ wr[i].st = "renamed" /\ lock' = None
      /\ UNCHANGED <<disk, mem, base, chan, pend, first>>
  BY DEF DirSyncFailed
<1>3. wr'[i].st = "idle" /\ failed'[i] = TRUE /\ stale'[i] = TRUE
  BY <1>1 DEF DirSyncFailed, TypeOK, Idle
<1>4. \A j \in Instances : j # i =>
        wr'[j] = wr[j] /\ failed'[j] = failed[j] /\ stale'[j] = stale[j]
  BY <1>1 DEF DirSyncFailed, TypeOK
<1>5. \A j \in Instances : j # i => wr[j].st \notin {"read", "renamed"}
  BY <1>2 DEF Honest, LockInv
<1>6. LockInv'
  BY <1>2, <1>3, <1>4, <1>5 DEF LockInv
<1>7. ReadableInv' /\ OwnInv' /\ PinnedInv'
  BY <1>2, <1>3, <1>4 DEF Honest, ReadableInv, OwnInv, PinnedInv
<1>8. OutInv'
  BY <1>3, <1>4, <1>5 DEF OutInv
<1>9. ForeignInv'
  BY <1>2, <1>3, <1>4 DEF Honest, ForeignInv
<1>10. LatestInv'
  BY <1>2, <1>3, <1>4 DEF Honest, LatestInv, Settled
<1> QED BY <1>2, <1>6, <1>7, <1>8, <1>9, <1>10 DEF Honest

\* Every step of every instance keeps the inductive invariant.
LEMMA NextIInv == ASSUME NeverEmpty PROVE IInv /\ [Next]_vars => IInv'
<1> SUFFICES ASSUME IInv, [Next]_vars PROVE IInv'
  OBVIOUS
<1>1. TypeOK'
  BY NextTypeOK DEF IInv
<1>2. first' = first
  BY DEF Next, WriterStep, vars, Edit, Receive, Debounced, WriteAsGiven, LockAndRead,
         Rename, Remember, WriteFails, DirSyncFailed, FlushAndReload
<1>3. SUFFICES ASSUME Honest PROVE Honest'
  BY <1>1, <1>2 DEF IInv
<1>4. CASE UNCHANGED vars
  BY <1>3, <1>4 DEF vars, Honest, TypeOK, LockInv, ReadableInv, ForeignInv, OwnInv,
              OutInv, LatestInv, PinnedInv, Settled
<1>5. ASSUME NEW i \in Instances, WriteAsGiven(i) PROVE FALSE
  BY <1>3, <1>5 DEF WriteAsGiven, Honest, ReadableInv
<1> QED
  BY <1>1, <1>3, <1>4, <1>5, EditKeeps, ReceiveKeeps, DebouncedKeeps,
     LockAndReadKeeps, RenameKeeps, RememberKeeps, WriteFailsKeeps,
     DirSyncFailedKeeps, FlushAndReloadKeeps
  DEF Next, WriterStep

-----------------------------------------------------------------------------
(***************************************************************************)
(* However many instances share the file, and however their writers and    *)
(* reloads interleave: once an instance has nothing on its way to the disk *)
(* and its last write did not fail, the disk holds its records.            *)
(***************************************************************************)
THEOREM SettledSaved == ASSUME NeverEmpty PROVE Spec => []SettledIsSaved
<1>1. IInv => SettledIsSaved
  <2> SUFFICES ASSUME Honest, NEW i \in Instances, Settled(i), ~failed[i], ~stale[i]
               PROVE  \A x \in Ids :
                        Owner[x] = i => Content(disk)[x] = mem[i][x]
    BY DEF SettledIsSaved, IInv
  <2>1. base[i] = mem[i] /\ wr[i].st = "idle"
    BY DEF Honest, LatestInv, Settled
  <2> QED BY <2>1 DEF Honest, ReadableInv, OwnInv, Content
<1> QED BY <1>1, InitIInv, NextIInv, PTL DEF Spec

(***************************************************************************)
(* A save never changes on disk a record that another instance edits, or   *)
(* that nobody does, for any number of instances and records.              *)
(***************************************************************************)
THEOREM OthersKept == ASSUME NeverEmpty PROVE Spec => OthersUntouched
<1> DEFINE Step == (first \in Docs) =>
         \A x \in Ids :
           disk \in Docs /\ disk' \in Docs /\ disk'[x] # disk[x] =>
             \E i \in Instances : Owner[x] = i /\ Rename(i)
<1>1. IInv /\ [Next]_vars => [Step]_vars
  <2> SUFFICES ASSUME IInv, Honest, Next PROVE Step
    BY DEF vars, IInv
  <2>1. CASE UNCHANGED disk
    BY <2>1
  <2>2. ASSUME NEW i \in Instances, Rename(i) PROVE Step
    <3>1. wr[i].st = "read" /\ disk' = wr[i].out
      BY <2>2 DEF Rename
    <3>2. \A x \in Ids : disk'[x] # disk[x] => Owner[x] = i
      BY <3>1 DEF Honest, OutInv
    <3> QED BY <2>2, <3>2
  <2>3. ASSUME NEW i \in Instances, WriteAsGiven(i) PROVE FALSE
    BY <2>3 DEF WriteAsGiven, Honest, ReadableInv
  <2> QED
    BY <2>1, <2>2, <2>3
    DEF Next, WriterStep, Edit, Receive, Debounced, LockAndRead, Remember,
        WriteFails, DirSyncFailed, FlushAndReload
<1> QED BY <1>1, InitIInv, NextIInv, PTL DEF Spec, OthersUntouched

HIDE ConstantsAssumption

-----------------------------------------------------------------------------
(***************************************************************************)
(* The Hosts singleton, for any number of instances, records, reload       *)
(* threads, saves and changes by others.  What an instance holds is passed *)
(* to the parts of the invariant piece by piece, so that what an operation *)
(* does to them is a lemma about constants:                                *)
(*   dk the disk, bs the baseline, me the document in memory, fl failed;   *)
(*   q queued, ch chan, pe pend, w wr: the saves on their way;             *)
(*   dn done, wa wanted, lo locked, no noticed, po posted, th the threads. *)
(***************************************************************************)
Event == [kind : {"reload", "done", "apply"}, seq : Nat, text : Files]
Thread == [st : {"none", "start", "read", "loaded"}, text : Files]

HTypeOK ==
    /\ TypeOK
    /\ done \in [Instances -> Nat]
    /\ wanted \in [Instances -> BOOLEAN] /\ locked \in [Instances -> BOOLEAN]
    /\ noticed \in [Instances -> BOOLEAN] /\ overlap \in [Instances -> BOOLEAN]
    /\ posted \in [Instances -> Seq(Event)]
    /\ thr \in [Instances -> [Slots -> Thread]]
    /\ intact \in Docs

-----------------------------------------------------------------------------
(* The numbers of the saves: the channel holds the newest ones in order,     *)
(* what the writer has is the last one it received, and the callbacks that   *)
(* wait are of older saves, newer than done and in order.  When the writer   *)
(* has nothing, the last save it received is done or waits.                  *)
TrackerOK(q, ch, pe, w, po, dn) ==
    LET sent == q - Len(ch)
        has == pe # None \/ w.st # "idle"
    IN  /\ \A k \in 1 .. Len(ch) : ch[k].seq = sent + k
        /\ pe # None => pe.seq = sent /\ w.st = "idle"
        /\ w.st # "idle" => w.job.seq = sent
        /\ dn <= sent /\ (has => dn < sent)
        /\ \A k \in 1 .. Len(po) : po[k].kind = "done" =>
             /\ dn < po[k].seq /\ po[k].seq <= sent /\ (has => po[k].seq < sent)
             /\ \A l \in 1 .. Len(po) : l < k /\ po[l].kind = "done" => po[l].seq < po[k].seq
        /\ ~has => \/ dn = sent
                   \/ \E k \in 1 .. Len(po) : po[k].kind = "done" /\ po[k].seq = sent

(* The newest document on its way to the disk is the one in memory.          *)
LatestOK(me, ch, pe, w) ==
    /\ ch # <<>> => ch[Len(ch)].doc = me
    /\ ch = <<>> /\ pe # None => pe.doc = me
    /\ ch = <<>> /\ pe = None /\ w.st # "idle" => w.job.doc = me

(* As long as there is no file, nobody has a baseline of it.                 *)
MissingOK(dk, bs, w, th) ==
    dk = Missing =>
        /\ bs = None /\ \A t \in Slots : th[t].text = Missing
        /\ w.st # "idle" => w.st = "based" /\ w.base = None

(* Somebody still has to read the file.                                      *)
Told(no, po) == no \/ \E k \in 1 .. Len(po) : po[k].kind = "reload"
Coming(no, po, th) == Told(no, po) \/ \E t \in Slots : th[t].st \in {"start", "read"}

(* At most one thread runs, and if the file is not what it read any more,    *)
(* the file will be read again.                                              *)
ThreadsOK(dk, no, po, th) ==
    /\ \A t, u \in Slots : th[t].st # "none" /\ th[u].st # "none" => t = u
    /\ \A t \in Slots : th[t].st \in {"read", "loaded"} /\ th[t].text # dk => Told(no, po)

(* The baseline is the file, so that a save writes what it was given.        *)
BaseOK(dk, bs, w) ==
    /\ bs = dk \/ (bs = None /\ dk = Missing)
    /\ w.st # "idle" => w.base = bs
    /\ w.st \in {"read", "renamed"} => w.out = w.job.doc
    /\ w.st = "renamed" => w.job.doc = dk

(* The newest text that was read and not applied is the file; or none waits, *)
(* and what is shown is the file.                                            *)
NoApply(po) == \A k \in 1 .. Len(po) : po[k].kind # "apply"
LastApply(dk, po) ==
    \E k \in 1 .. Len(po) :
        /\ po[k].kind = "apply" /\ po[k].text = dk
        /\ \A l \in 1 .. Len(po) : l > k => po[l].kind # "apply"
ShownOK(dk, me, ch, pe, w, fl, lo, po, th) ==
    \/ \E t \in Slots : th[t].st = "loaded" /\ th[t].text = dk
    \/ /\ \A t \in Slots : th[t].st = "none"
       /\ \/ LastApply(dk, po)
          \/ /\ NoApply(po) /\ (lo <=> dk = Broken)
             /\ ch = <<>> /\ pe = None /\ w.st = "idle" /\ ~fl => me = Content(dk)

(* What holds of instance i.                                                 *)
Tracked(i) == TrackerOK(queued[i], chan[i], pend[i], wr[i], posted[i], done[i])
Latest(i) == LatestOK(mem[i], chan[i], pend[i], wr[i])
Unread(i) == MissingOK(disk, base[i], wr[i], thr[i])
Orderly(i) ==
    ~overlap[i] =>
        /\ ThreadsOK(disk, noticed[i], posted[i], thr[i])
        /\ ~Coming(noticed[i], posted[i], thr[i]) =>
             /\ BaseOK(disk, base[i], wr[i])
             /\ \/ wanted[i]
                \/ ShownOK(disk, mem[i], chan[i], pend[i], wr[i], failed[i], locked[i],
                           posted[i], thr[i])

Sound(i) == Tracked(i) /\ Latest(i) /\ Unread(i) /\ Orderly(i) /\ (wanted[i] => Pending(i))

HInv == HTypeOK /\ \A i \in Instances : Sound(i)

-----------------------------------------------------------------------------
(* What the operations do to the numbers of the saves.                       *)

(* An event has a number.                                                    *)
LEMMA EventNumbers ==
    ASSUME NEW po \in Seq(Event)
    PROVE  \A k \in 1 .. Len(po) : po[k] \in Event /\ po[k].seq \in Nat
<1>1. ASSUME NEW e \in Event PROVE e.seq \in Nat
  BY DEF Event
<1>2. \A k \in 1 .. Len(po) : po[k] \in Event
  OBVIOUS
<1>3. QED
  BY <1>1, <1>2

(* The tracker compares two numbers, and this tells whether a save is on its *)
(* way.                                                                      *)
LEMMA TrackerTells ==
    ASSUME NEW q \in Nat, NEW ch \in Seq(Job), NEW pe, NEW w \in Write, NEW po \in Seq(Event),
           NEW dn \in Nat, TrackerOK(q, ch, pe, w, po, dn)
    PROVE  dn < q <=> \/ ~(ch = <<>> /\ pe = None /\ w.st = "idle")
                      \/ \E k \in 1 .. Len(po) : po[k].kind = "done"
<1>1. Len(ch) \in Nat /\ (ch = <<>> <=> Len(ch) = 0)
  OBVIOUS
<1>2. \A k \in 1 .. Len(po) : po[k].seq \in Nat
  BY EventNumbers
<1>3. QED
  BY <1>1, <1>2 DEF TrackerOK

LEMMA TrackerEdit ==
    ASSUME NEW q \in Nat, NEW ch \in Seq(Job), NEW pe, NEW w \in Write, NEW po \in Seq(Event),
           NEW dn \in Nat, TrackerOK(q, ch, pe, w, po, dn),
           NEW job \in Job, job.seq = q + 1
    PROVE  TrackerOK(q + 1, Append(ch, job), pe, w, po, dn)
<1>1. /\ Len(ch) \in Nat /\ Len(Append(ch, job)) = Len(ch) + 1
      /\ Append(ch, job)[Len(ch) + 1] = job
      /\ \A k \in 1 .. Len(ch) : Append(ch, job)[k] = ch[k]
  OBVIOUS
<1>2. (q + 1) - Len(Append(ch, job)) = q - Len(ch)
  BY <1>1
<1>3. ASSUME NEW k \in 1 .. Len(Append(ch, job))
      PROVE  Append(ch, job)[k].seq = (q - Len(ch)) + k
  <2>1. CASE k \in 1 .. Len(ch)
    BY <1>1, <2>1 DEF TrackerOK
  <2>2. CASE k = Len(ch) + 1
    BY <1>1, <2>2
  <2>3. QED
    BY <1>1, <2>1, <2>2
<1>4. QED
  BY <1>2, <1>3 DEF TrackerOK

LEMMA TrackerReceive ==
    ASSUME NEW q \in Nat, NEW ch \in Seq(Job), NEW pe, NEW w \in Write, NEW po \in Seq(Event),
           NEW dn \in Nat, TrackerOK(q, ch, pe, w, po, dn),
           ch # <<>>, w.st = "idle", Head(ch) # None
    PROVE  TrackerOK(q, Tail(ch), Head(ch), w, po, dn)
<1>1. /\ Len(ch) \in Nat \ {0} /\ Len(Tail(ch)) = Len(ch) - 1 /\ Head(ch) = ch[1]
      /\ \A k \in 1 .. Len(Tail(ch)) : Tail(ch)[k] = ch[k + 1]
  BY TailElements
<1>2. q - Len(Tail(ch)) = (q - Len(ch)) + 1
  BY <1>1
<1>3. Head(ch).seq = (q - Len(ch)) + 1
  BY <1>1 DEF TrackerOK
<1>4. ASSUME NEW k \in 1 .. Len(Tail(ch))
      PROVE  Tail(ch)[k].seq = ((q - Len(ch)) + 1) + k
  <2>1. k + 1 \in 1 .. Len(ch) /\ Tail(ch)[k] = ch[k + 1]
    BY <1>1
  <2>2. QED
    BY <1>1, <2>1 DEF TrackerOK
<1>5. \A k \in 1 .. Len(po) : po[k].seq \in Nat
  BY EventNumbers
<1>6. QED
  BY <1>1, <1>2, <1>3, <1>4, <1>5 DEF TrackerOK

LEMMA TrackerDebounced ==
    ASSUME NEW q \in Nat, NEW ch \in Seq(Job), NEW pe, NEW w \in Write, NEW po \in Seq(Event),
           NEW dn \in Nat, TrackerOK(q, ch, pe, w, po, dn),
           pe # None, NEW v \in Write, v.st # "idle", v.job = pe
    PROVE  TrackerOK(q, ch, None, v, po, dn)
BY DEF TrackerOK

(* The write goes on.                                                        *)
LEMMA TrackerWrites ==
    ASSUME NEW q \in Nat, NEW ch \in Seq(Job), NEW pe, NEW w \in Write, NEW po \in Seq(Event),
           NEW dn \in Nat, TrackerOK(q, ch, pe, w, po, dn),
           w.st # "idle", NEW v \in Write, v.st # "idle", v.job = w.job
    PROVE  TrackerOK(q, ch, pe, v, po, dn)
BY DEF TrackerOK

(* What posting an event does to the queue of the GUI thread.                *)
LEMMA PostedElements ==
    ASSUME NEW po \in Seq(Event), NEW e \in Event
    PROVE  /\ Append(po, e) \in Seq(Event)
           /\ Len(po) \in Nat /\ Len(Append(po, e)) = Len(po) + 1
           /\ Append(po, e)[Len(po) + 1] = e
           /\ \A k \in 1 .. Len(po) : Append(po, e)[k] = po[k]
OBVIOUS

(* What taking one does.                                                     *)
LEMMA TakenElements ==
    ASSUME NEW po \in Seq(Event), po # <<>>
    PROVE  /\ Tail(po) \in Seq(Event) /\ Head(po) \in Event /\ Head(po) = po[1]
           /\ Len(po) \in Nat \ {0} /\ Len(Tail(po)) = Len(po) - 1
           /\ \A k \in 1 .. Len(Tail(po)) : Tail(po)[k] = po[k + 1]
BY TailElements

LEMMA TrackerFinish ==
    ASSUME NEW q \in Nat, NEW ch \in Seq(Job), NEW pe, NEW w \in Write, NEW po \in Seq(Event),
           NEW dn \in Nat, TrackerOK(q, ch, pe, w, po, dn), w.st # "idle",
           NEW e \in Event, e.kind = "done", e.seq = w.job.seq,
           NEW v \in Write, v.st = "idle"
    PROVE  TrackerOK(q, ch, pe, v, Append(po, e), dn)
<1> DEFINE p == Append(po, e)
<1>1. /\ Len(po) \in Nat /\ Len(p) = Len(po) + 1 /\ p[Len(po) + 1] = e
      /\ \A k \in 1 .. Len(po) : p[k] = po[k]
  BY PostedElements
<1>2. pe = None /\ e.seq = q - Len(ch) /\ dn < q - Len(ch)
  BY DEF TrackerOK
<1>3. \A k \in 1 .. Len(po) : po[k].kind = "done" =>
        /\ dn < po[k].seq /\ po[k].seq < q - Len(ch)
        /\ \A l \in 1 .. Len(po) : l < k /\ po[l].kind = "done" => po[l].seq < po[k].seq
  BY DEF TrackerOK
<1>4. \A k \in 1 .. Len(po) : po[k].seq \in Nat
  BY EventNumbers
<1> HIDE DEF p
<1>5. ASSUME NEW k \in 1 .. Len(p), p[k].kind = "done"
      PROVE  /\ dn < p[k].seq /\ p[k].seq <= q - Len(ch)
             /\ \A l \in 1 .. Len(p) : l < k /\ p[l].kind = "done" => p[l].seq < p[k].seq
  <2>1. CASE k \in 1 .. Len(po)
    <3>1. \A l \in 1 .. Len(p) : l < k => l \in 1 .. Len(po)
      BY <1>1, <2>1
    <3>2. po[k].kind = "done" /\ p[k] = po[k] /\ po[k].seq \in Nat
      BY <1>1, <1>4, <1>5, <2>1
    <3>3. dn < po[k].seq /\ po[k].seq < q - Len(ch)
      BY <1>3, <2>1, <3>2
    <3>4. QED
      BY <1>1, <1>3, <2>1, <3>1, <3>2, <3>3
  <2>2. CASE k = Len(po) + 1
    <3>1. \A l \in 1 .. Len(p) : l < k => l \in 1 .. Len(po)
      BY <1>1, <2>2
    <3>2. QED
      BY <1>1, <1>2, <1>3, <2>2, <3>1
  <2>3. QED
    BY <1>1, <2>1, <2>2
<1>6. \E k \in 1 .. Len(p) : p[k].kind = "done" /\ p[k].seq = q - Len(ch)
  BY <1>1, <1>2
<1>7. TrackerOK(q, ch, pe, v, p, dn)
  <2>1. \A k \in 1 .. Len(ch) : ch[k].seq = (q - Len(ch)) + k
    BY DEF TrackerOK
  <2>2. dn <= q - Len(ch)
    BY DEF TrackerOK
  <2>3. QED
    BY <1>2, <1>5, <1>6, <2>1, <2>2 DEF TrackerOK
<1>8. QED
  BY <1>7 DEF p

LEMMA TrackerPost ==
    ASSUME NEW q \in Nat, NEW ch \in Seq(Job), NEW pe, NEW w \in Write, NEW po \in Seq(Event),
           NEW dn \in Nat, TrackerOK(q, ch, pe, w, po, dn), NEW e \in Event, e.kind # "done"
    PROVE  TrackerOK(q, ch, pe, w, Append(po, e), dn)
<1> DEFINE p == Append(po, e)
<1>1. /\ Len(po) \in Nat /\ Len(p) = Len(po) + 1 /\ p[Len(po) + 1] = e
      /\ \A k \in 1 .. Len(po) : p[k] = po[k]
  BY PostedElements
<1> HIDE DEF p
<1>2. \A k \in 1 .. Len(p) : p[k].kind = "done" => k \in 1 .. Len(po) /\ p[k] = po[k]
  BY <1>1
<1>3. \A k \in 1 .. Len(po) : k \in 1 .. Len(p) /\ p[k] = po[k]
  BY <1>1
<1>4. TrackerOK(q, ch, pe, w, p, dn)
  BY <1>2, <1>3 DEF TrackerOK
<1>5. QED
  BY <1>4 DEF p

LEMMA TrackerTake ==
    ASSUME NEW q \in Nat, NEW ch \in Seq(Job), NEW pe, NEW w \in Write, NEW po \in Seq(Event),
           NEW dn \in Nat, TrackerOK(q, ch, pe, w, po, dn), po # <<>>, Head(po).kind # "done"
    PROVE  TrackerOK(q, ch, pe, w, Tail(po), dn)
<1> DEFINE p == Tail(po)
<1>1. /\ Len(po) \in Nat \ {0} /\ Len(p) = Len(po) - 1 /\ po[1].kind # "done"
      /\ \A k \in 1 .. Len(p) : p[k] = po[k + 1]
  BY TakenElements
<1> HIDE DEF p
<1>2. \A k \in 1 .. Len(p) : k + 1 \in 1 .. Len(po) /\ p[k] = po[k + 1]
  BY <1>1
<1>3. ASSUME NEW k \in 1 .. Len(po), po[k].kind = "done"
      PROVE  k - 1 \in 1 .. Len(p) /\ p[k - 1] = po[k]
  BY <1>1, <1>3
<1>4. ASSUME NEW k \in 1 .. Len(p), NEW l \in 1 .. Len(p), l < k
      PROVE  l + 1 < k + 1
  BY <1>4
<1> DEFINE sent == q - Len(ch)
           has == pe # None \/ w.st # "idle"
<1>5. ASSUME NEW k \in 1 .. Len(p), p[k].kind = "done"
      PROVE  /\ dn < p[k].seq /\ p[k].seq <= sent /\ (has => p[k].seq < sent)
             /\ \A l \in 1 .. Len(p) : l < k /\ p[l].kind = "done" => p[l].seq < p[k].seq
  <2>1. k + 1 \in 1 .. Len(po) /\ po[k + 1].kind = "done" /\ p[k] = po[k + 1]
    BY <1>2, <1>5
  <2>2. /\ dn < po[k + 1].seq /\ po[k + 1].seq <= sent /\ (has => po[k + 1].seq < sent)
        /\ \A l \in 1 .. Len(po) : l < k + 1 /\ po[l].kind = "done" => po[l].seq < po[k + 1].seq
    BY <2>1 DEF TrackerOK
  <2>3. QED
    BY <1>2, <1>4, <2>1, <2>2
<1>6. ~has => dn = sent \/ \E k \in 1 .. Len(p) : p[k].kind = "done" /\ p[k].seq = sent
  <2>1. ~has => dn = sent \/ \E k \in 1 .. Len(po) : po[k].kind = "done" /\ po[k].seq = sent
    BY DEF TrackerOK
  <2>2. QED
    BY <1>3, <2>1
<1>7. TrackerOK(q, ch, pe, w, p, dn)
  <2>1. /\ \A k \in 1 .. Len(ch) : ch[k].seq = sent + k
        /\ pe # None => pe.seq = sent /\ w.st = "idle"
        /\ w.st # "idle" => w.job.seq = sent
        /\ dn <= sent /\ (has => dn < sent)
    BY DEF TrackerOK
  <2>2. QED
    BY <1>5, <1>6, <2>1 DEF TrackerOK
<1>8. QED
  BY <1>7 DEF p

LEMMA TrackerDone ==
    ASSUME NEW q \in Nat, NEW ch \in Seq(Job), NEW pe, NEW w \in Write, NEW po \in Seq(Event),
           NEW dn \in Nat, TrackerOK(q, ch, pe, w, po, dn), po # <<>>, Head(po).kind = "done"
    PROVE  /\ Head(po).seq > dn
           /\ TrackerOK(q, ch, pe, w, Tail(po), Head(po).seq)
<1> DEFINE p == Tail(po)
<1> DEFINE d == Head(po).seq
<1>1. /\ Len(po) \in Nat \ {0} /\ Len(p) = Len(po) - 1
      /\ po[1].kind = "done" /\ po[1].seq = d /\ 1 \in 1 .. Len(po)
      /\ \A k \in 1 .. Len(p) : p[k] = po[k + 1]
  BY TakenElements
<1> HIDE DEF p, d
<1>2. \A k \in 1 .. Len(p) : k + 1 \in 1 .. Len(po) /\ p[k] = po[k + 1] /\ 1 < k + 1
  BY <1>1
<1>3. \A k \in 1 .. Len(po) : po[k].seq \in Nat
  BY EventNumbers
<1>4. d \in Nat /\ Len(ch) \in Nat
  BY <1>1, <1>3
<1>5. dn < d /\ d <= q - Len(ch) /\ (pe # None \/ w.st # "idle" => d < q - Len(ch))
  BY <1>1 DEF TrackerOK
<1>6. ASSUME NEW k \in 1 .. Len(p), p[k].kind = "done"
      PROVE  /\ d < p[k].seq /\ p[k].seq <= q - Len(ch)
             /\ (pe # None \/ w.st # "idle" => p[k].seq < q - Len(ch))
             /\ \A l \in 1 .. Len(p) : l < k /\ p[l].kind = "done" => p[l].seq < p[k].seq
  <2>1. k + 1 \in 1 .. Len(po) /\ p[k] = po[k + 1] /\ po[k + 1].kind = "done" /\ 1 < k + 1
    BY <1>2, <1>6
  <2>2. /\ po[1].seq < po[k + 1].seq /\ po[k + 1].seq <= q - Len(ch)
        /\ (pe # None \/ w.st # "idle" => po[k + 1].seq < q - Len(ch))
    BY <1>1, <2>1 DEF TrackerOK
  <2>3. ASSUME NEW l \in 1 .. Len(p), l < k, p[l].kind = "done"
        PROVE  p[l].seq < p[k].seq
    <3>1. l + 1 \in 1 .. Len(po) /\ p[l] = po[l + 1] /\ l + 1 < k + 1
      BY <1>2, <2>3
    <3>2. QED
      BY <2>1, <2>3, <3>1 DEF TrackerOK
  <2>4. QED
    BY <1>1, <2>1, <2>2, <2>3
<1>7. ASSUME pe = None, w.st = "idle"
      PROVE  d = q - Len(ch) \/ \E k \in 1 .. Len(p) : p[k].kind = "done" /\ p[k].seq = q - Len(ch)
  <2>1. PICK k \in 1 .. Len(po) : po[k].kind = "done" /\ po[k].seq = q - Len(ch)
    BY <1>4, <1>5, <1>7 DEF TrackerOK
  <2>2. CASE k = 1
    BY <1>1, <2>1, <2>2
  <2>3. CASE k # 1
    <3>1. k - 1 \in 1 .. Len(p) /\ p[k - 1] = po[k]
      BY <1>1, <2>3
    <3>2. QED
      BY <2>1, <3>1
  <2>4. QED
    BY <2>2, <2>3
<1>8. TrackerOK(q, ch, pe, w, p, d)
  <2>1. \A k \in 1 .. Len(ch) : ch[k].seq = (q - Len(ch)) + k
    BY DEF TrackerOK
  <2>2. /\ pe # None => pe.seq = q - Len(ch) /\ w.st = "idle"
        /\ w.st # "idle" => w.job.seq = q - Len(ch)
    BY DEF TrackerOK
  <2>3. QED
    BY <1>5, <1>6, <1>7, <2>1, <2>2 DEF TrackerOK
<1>9. QED
  BY <1>4, <1>5, <1>8 DEF p, d

-----------------------------------------------------------------------------
(* Types.                                                                    *)
LEMMA Contents == \A text : Content(text) \in Docs
BY EmptyDocType DEF Content

LEMMA Events ==
    /\ ReloadEvent \in Event /\ ReloadEvent.kind = "reload"
    /\ \A n \in Nat : DoneEvent(n) \in Event /\ DoneEvent(n).kind = "done" /\ DoneEvent(n).seq = n
    /\ \A text \in Files :
         /\ ApplyEvent(text) \in Event /\ ApplyEvent(text).kind = "apply"
         /\ ApplyEvent(text).text = text
BY DEF ReloadEvent, DoneEvent, ApplyEvent, Event, Files

LEMMA Threads ==
    /\ NoThread \in Thread /\ NoThread.st = "none" /\ NoThread.text = Missing
    /\ \A r \in Thread, st \in {"start", "loaded"} :
         /\ [r EXCEPT !.st = st] \in Thread
         /\ [r EXCEPT !.st = st].st = st /\ [r EXCEPT !.st = st].text = r.text
    /\ \A text \in Files : [st |-> "read", text |-> text] \in Thread
    /\ \A r \in Thread : r.text \in Files
BY DEF NoThread, Thread, Files

LEMMA InitHTypeOK == HInit => HTypeOK
<1> SUFFICES ASSUME HInit PROVE HTypeOK
  OBVIOUS
<1>1. TypeOK
  BY InitTypeOK DEF HInit
<1>2. posted \in [Instances -> Seq(Event)] /\ thr \in [Instances -> [Slots -> Thread]]
  BY Threads DEF HInit
<1>3. QED
  BY <1>1, <1>2, Contents DEF HInit, HTypeOK

LEMMA EventPosted ==
    ASSUME HTypeOK, NEW i \in Instances, NEW e \in Event,
           posted' = [posted EXCEPT ![i] = Append(@, e)]
    PROVE  /\ posted' \in [Instances -> Seq(Event)] /\ posted'[i] = Append(posted[i], e)
           /\ \A j \in Instances : j # i => posted'[j] = posted[j]
<1>1. posted[i] \in Seq(Event)
  BY DEF HTypeOK
<1>2. Append(posted[i], e) \in Seq(Event)
  BY <1>1
<1>3. QED
  BY <1>2 DEF HTypeOK

LEMMA EventTaken ==
    ASSUME HTypeOK, NEW i \in Instances, posted[i] # <<>>,
           posted' = [posted EXCEPT ![i] = Tail(@)]
    PROVE  /\ posted' \in [Instances -> Seq(Event)] /\ posted'[i] = Tail(posted[i])
           /\ \A j \in Instances : j # i => posted'[j] = posted[j]
           /\ Head(posted[i]) \in Event
<1>1. posted[i] \in Seq(Event)
  BY DEF HTypeOK
<1>2. Tail(posted[i]) \in Seq(Event) /\ Head(posted[i]) \in Event
  BY <1>1
<1>3. QED
  BY <1>2 DEF HTypeOK

LEMMA ThreadSet ==
    ASSUME HTypeOK, NEW i \in Instances, NEW t \in Slots, NEW r \in Thread,
           thr' = [thr EXCEPT ![i][t] = r]
    PROVE  /\ thr' \in [Instances -> [Slots -> Thread]]
           /\ thr'[i] = [thr[i] EXCEPT ![t] = r]
           /\ \A j \in Instances : j # i => thr'[j] = thr[j]
<1>1. thr[i] \in [Slots -> Thread]
  BY DEF HTypeOK
<1>2. [thr[i] EXCEPT ![t] = r] \in [Slots -> Thread]
  BY <1>1
<1>3. QED
  BY <1>2 DEF HTypeOK

LEMMA Spawned ==
    ASSUME HTypeOK, NEW i \in Instances, NEW t \in Slots, Spawn(i, t)
    PROVE  \E r \in Thread :
             /\ r.st = "start" /\ r.text = thr[i][t].text
             /\ thr'[i] = [thr[i] EXCEPT ![t] = r]
             /\ thr' \in [Instances -> [Slots -> Thread]]
             /\ \A j \in Instances : j # i => thr'[j] = thr[j]
             /\ overlap' \in [Instances -> BOOLEAN]
             /\ \A j \in Instances : j # i => overlap'[j] = overlap[j]
             /\ overlap'[i] <=> overlap[i] \/ \E u \in Slots : thr[i][u].st # "none"
<1>1. thr[i][t] \in Thread
  BY DEF HTypeOK
<1>2. PICK r : r = [thr[i][t] EXCEPT !.st = "start"]
  OBVIOUS
<1>3. r \in Thread /\ r.st = "start" /\ r.text = thr[i][t].text
  BY <1>1, <1>2, Threads
<1>4. thr' = [thr EXCEPT ![i][t] = r]
  BY <1>2 DEF Spawn, HTypeOK
<1>5. /\ overlap' \in [Instances -> BOOLEAN]
      /\ \A j \in Instances : j # i => overlap'[j] = overlap[j]
      /\ overlap'[i] <=> overlap[i] \/ \E u \in Slots : thr[i][u].st # "none"
  BY DEF Spawn, HTypeOK
<1>6. /\ thr'[i] = [thr[i] EXCEPT ![t] = r]
      /\ thr' \in [Instances -> [Slots -> Thread]]
      /\ \A j \in Instances : j # i => thr'[j] = thr[j]
  BY <1>3, <1>4, ThreadSet
<1>7. QED
  BY <1>3, <1>5, <1>6

LEMMA NotifyTypeOK == ASSUME HTypeOK, Notify PROVE noticed' \in [Instances -> BOOLEAN]
BY DEF HTypeOK, Notify

LEMMA WriterTypeOK ==
    ASSUME HTypeOK, NEW i \in Instances, WriterWorks(i) \/ WriterFinishes(i)
    PROVE  HTypeOK'
<1>1. TypeOK'
  <2>1. WriterStep(i)
    BY DEF WriterWorks, WriterFinishes, WriterStep
  <2>2. QED
    BY <2>1, NextTypeOK DEF HTypeOK, Next
<1>2. noticed' \in [Instances -> BOOLEAN]
  BY NotifyTypeOK DEF WriterWorks, WriterFinishes
<1>3. posted' \in [Instances -> Seq(Event)]
  <2>1. CASE WriterWorks(i)
    BY <2>1 DEF WriterWorks, HTypeOK
  <2>2. CASE WriterFinishes(i)
    <3>1. wr[i].job.seq \in Nat
      BY DEF HTypeOK, TypeOK, Write, Job
    <3>2. QED
      BY <2>2, <3>1, Events, EventPosted DEF WriterFinishes
  <2>3. QED
    BY <2>1, <2>2
<1>4. QED
  BY <1>1, <1>2, <1>3 DEF WriterWorks, WriterFinishes, HTypeOK

LEMMA GuiTypeOK ==
    ASSUME HTypeOK, NEW i \in Instances, Gui(i)
    PROVE  HTypeOK'
<1>1. CASE OnApply(i)
  <2>1. posted' \in [Instances -> Seq(Event)]
    BY <1>1, EventTaken DEF OnApply
  <2>2. mem' \in [Instances -> Docs]
    <3>1. CASE UNCHANGED mem
      BY <3>1 DEF HTypeOK, TypeOK
    <3>2. CASE mem' = [mem EXCEPT ![i] = Content(Head(posted[i]).text)]
      <4>1. Content(Head(posted[i]).text) \in Docs
        BY Contents
      <4>2. QED
        BY <3>2, <4>1 DEF HTypeOK, TypeOK
    <3>3. QED
      BY <1>1, <3>1, <3>2 DEF OnApply
  <2>3. wanted' \in [Instances -> BOOLEAN] /\ locked' \in [Instances -> BOOLEAN]
    BY <1>1 DEF OnApply, HTypeOK
  <2>4. TypeOK'
    BY <1>1, <2>2 DEF OnApply, HTypeOK, TypeOK
  <2>5. QED
    BY <1>1, <2>1, <2>3, <2>4 DEF OnApply, HTypeOK
<1>2. ASSUME NEW t \in Slots, OnReload(i, t)
      PROVE  HTypeOK'
  <2>1. posted' \in [Instances -> Seq(Event)]
    BY <1>2, EventTaken DEF OnReload
  <2>2. thr' \in [Instances -> [Slots -> Thread]] /\ overlap' \in [Instances -> BOOLEAN]
    BY <1>2, Spawned DEF OnReload
  <2>3. TypeOK'
    BY <1>2 DEF OnReload, HTypeOK, TypeOK, vars
  <2>4. QED
    BY <1>2, <2>1, <2>2, <2>3 DEF OnReload, HTypeOK
<1>3. ASSUME NEW t \in Slots, OnSaveDone(i, t)
      PROVE  HTypeOK'
  <2>1. posted' \in [Instances -> Seq(Event)] /\ Head(posted[i]) \in Event
    BY <1>3, EventTaken DEF OnSaveDone
  <2>2. thr' \in [Instances -> [Slots -> Thread]] /\ overlap' \in [Instances -> BOOLEAN]
    <3>1. CASE Spawn(i, t)
      BY <3>1, Spawned
    <3>2. CASE UNCHANGED <<thr, overlap>>
      BY <3>2 DEF HTypeOK
    <3>3. QED
      BY <1>3, <3>1, <3>2 DEF OnSaveDone
  <2>3. Head(posted[i]).seq \in Nat
    BY <2>1 DEF Event
  <2>4. done' \in [Instances -> Nat] /\ wanted' \in [Instances -> BOOLEAN]
    BY <1>3, <2>3 DEF OnSaveDone, HTypeOK, Finished
  <2>5. TypeOK'
    BY <1>3 DEF OnSaveDone, HTypeOK, TypeOK, vars
  <2>6. QED
    BY <1>3, <2>1, <2>2, <2>4, <2>5 DEF OnSaveDone, HTypeOK
<1>4. QED
  BY <1>1, <1>2, <1>3 DEF Gui

LEMMA ThreadTypeOK ==
    ASSUME HTypeOK, NEW i \in Instances, NEW t \in Slots, ReloadThread(i, t)
    PROVE  HTypeOK'
<1>0. thr[i][t] \in Thread /\ disk \in Files
  BY DEF HTypeOK, TypeOK
<1>1. CASE ThreadReads(i, t)
  <2>1. thr' \in [Instances -> [Slots -> Thread]]
    BY <1>0, <1>1, Threads, ThreadSet DEF ThreadReads
  <2>2. TypeOK'
    BY <1>1 DEF ThreadReads, HTypeOK, TypeOK, vars
  <2>3. QED
    BY <1>1, <2>1, <2>2 DEF ThreadReads, HTypeOK
<1>2. CASE ThreadRemembers(i, t)
  <2>1. PICK r : r = [thr[i][t] EXCEPT !.st = "loaded"]
    OBVIOUS
  <2>2. thr' = [thr EXCEPT ![i][t] = r] /\ r \in Thread
    BY <1>0, <1>2, <2>1, Threads DEF ThreadRemembers, HTypeOK
  <2>3. thr' \in [Instances -> [Slots -> Thread]]
    BY <2>2, ThreadSet
  <2>4. thr[i][t].text \in Files
    BY <1>0, Threads
  <2>5. base' \in [Instances -> Docs \cup {None, Broken}] /\ stale' \in [Instances -> BOOLEAN]
    BY <1>2, <2>4 DEF ThreadRemembers, RememberRead, HTypeOK, TypeOK, Files
  <2>6. TypeOK'
    BY <1>2, <2>5 DEF ThreadRemembers, HTypeOK, TypeOK
  <2>7. overlap' \in [Instances -> BOOLEAN]
    BY <1>2 DEF ThreadRemembers, HTypeOK
  <2>8. QED
    BY <1>2, <2>3, <2>6, <2>7 DEF ThreadRemembers, HTypeOK
<1>3. CASE ThreadPosts(i, t)
  <2>1. thr' \in [Instances -> [Slots -> Thread]]
    BY <1>3, Threads, ThreadSet DEF ThreadPosts
  <2>2. posted' \in [Instances -> Seq(Event)]
    BY <1>0, <1>3, Threads, Events, EventPosted DEF ThreadPosts
  <2>3. TypeOK'
    BY <1>3 DEF ThreadPosts, HTypeOK, TypeOK, vars
  <2>4. QED
    BY <1>3, <2>1, <2>2, <2>3 DEF ThreadPosts, HTypeOK
<1>4. QED
  BY <1>1, <1>2, <1>3 DEF ReloadThread

LEMMA HNextTypeOK == HTypeOK /\ [HNext]_allVars => HTypeOK'
<1> SUFFICES ASSUME HTypeOK, [HNext]_allVars PROVE HTypeOK'
  OBVIOUS
<1>1. CASE UNCHANGED allVars
  BY <1>1 DEF HTypeOK, TypeOK, allVars, vars, reloadVars
<1>2. ASSUME NEW i \in Instances, NEW x \in Ids, NEW v \in Values \cup {Absent}, Modify(i, x, v)
      PROVE  HTypeOK'
  <2>1. TypeOK'
    BY <1>2, NextTypeOK DEF HTypeOK, Modify, Next
  <2>2. QED
    BY <1>2, <2>1 DEF Modify, HTypeOK, reloadVars
<1>3. ASSUME NEW i \in Instances, WatcherFires(i)
      PROVE  HTypeOK'
  <2>1. posted' \in [Instances -> Seq(Event)]
    BY <1>3, Events, EventPosted DEF WatcherFires
  <2>2. TypeOK' /\ noticed' \in [Instances -> BOOLEAN]
    BY <1>3 DEF WatcherFires, HTypeOK, TypeOK, vars
  <2>3. QED
    BY <1>3, <2>1, <2>2 DEF WatcherFires, HTypeOK
<1>4. ASSUME NEW file \in Docs \cup {Broken}, External(file)
      PROVE  HTypeOK'
  <2>1. disk' \in Files /\ intact' \in Docs
    BY <1>4 DEF External, HTypeOK, Files
  <2>2. noticed' \in [Instances -> BOOLEAN]
    BY <1>4, NotifyTypeOK DEF External
  <2>3. TypeOK'
    BY <1>4, <2>1 DEF External, HTypeOK, TypeOK
  <2>4. QED
    BY <1>4, <2>1, <2>2, <2>3 DEF External, HTypeOK
<1>5. QED
  BY <1>1, <1>2, <1>3, <1>4, WriterTypeOK, GuiTypeOK, ThreadTypeOK DEF HNext

-----------------------------------------------------------------------------
(* What waits on the GUI thread, when an event is posted and when one is     *)
(* taken.                                                                    *)
LEMMA PostKeeps ==
    ASSUME NEW po \in Seq(Event), NEW e \in Event, NEW no, NEW dk
    PROVE  /\ Told(no, Append(po, e)) <=> Told(no, po) \/ e.kind = "reload"
           /\ e.kind # "apply" /\ LastApply(dk, po) => LastApply(dk, Append(po, e))
           /\ e.kind # "apply" /\ NoApply(po) => NoApply(Append(po, e))
           /\ e.kind = "apply" /\ e.text = dk => LastApply(dk, Append(po, e))
<1> DEFINE p == Append(po, e)
<1>1. /\ Len(po) \in Nat /\ Len(p) = Len(po) + 1 /\ p[Len(po) + 1] = e
      /\ \A k \in 1 .. Len(po) : p[k] = po[k]
  BY PostedElements
<1> HIDE DEF p
<1>2. /\ \A k \in 1 .. Len(p) : k = Len(po) + 1 \/ k \in 1 .. Len(po)
      /\ \A k \in 1 .. Len(po) : k \in 1 .. Len(p)
      /\ Len(po) + 1 \in 1 .. Len(p)
  BY <1>1
<1>3. Told(no, p) <=> Told(no, po) \/ e.kind = "reload"
  BY <1>1, <1>2 DEF Told
<1>4. e.kind # "apply" /\ LastApply(dk, po) => LastApply(dk, p)
  BY <1>1, <1>2 DEF LastApply
<1>5. e.kind # "apply" /\ NoApply(po) => NoApply(p)
  BY <1>1, <1>2 DEF NoApply
<1>6. e.kind = "apply" /\ e.text = dk => LastApply(dk, p)
  BY <1>1, <1>2 DEF LastApply
<1>7. QED
  BY <1>3, <1>4, <1>5, <1>6 DEF p

LEMMA TakeKeeps ==
    ASSUME NEW po \in Seq(Event), po # <<>>, NEW no, NEW dk
    PROVE  /\ Head(po).kind # "reload" => (Told(no, Tail(po)) <=> Told(no, po))
           /\ Head(po).kind # "apply" /\ LastApply(dk, po) => LastApply(dk, Tail(po))
           /\ Head(po).kind # "apply" /\ NoApply(po) => NoApply(Tail(po))
           /\ Head(po).kind = "apply" /\ LastApply(dk, po)
                => LastApply(dk, Tail(po)) \/ (NoApply(Tail(po)) /\ Head(po).text = dk)
           /\ Head(po).kind = "apply" => ~NoApply(po)
<1> DEFINE p == Tail(po)
<1>1. /\ Len(po) \in Nat \ {0} /\ Len(p) = Len(po) - 1 /\ Head(po) = po[1]
      /\ \A k \in 1 .. Len(p) : p[k] = po[k + 1]
  BY TakenElements
<1> HIDE DEF p
<1>2. /\ \A k \in 1 .. Len(p) : k + 1 \in 1 .. Len(po)
      /\ \A k \in 1 .. Len(po) : k # 1 => k - 1 \in 1 .. Len(p) /\ p[k - 1] = po[k]
      /\ 1 \in 1 .. Len(po)
  BY <1>1
<1>3. Head(po).kind # "reload" => (Told(no, p) <=> Told(no, po))
  BY <1>1, <1>2 DEF Told
<1>4. ASSUME NEW k \in 1 .. Len(po), k # 1, po[k].kind = "apply", po[k].text = dk,
             \A l \in 1 .. Len(po) : l > k => po[l].kind # "apply"
      PROVE  LastApply(dk, p)
  <2>1. k - 1 \in 1 .. Len(p) /\ p[k - 1] = po[k]
    BY <1>2, <1>4
  <2>2. ASSUME NEW l \in 1 .. Len(p), l > k - 1
        PROVE  p[l].kind # "apply"
    <3>1. l + 1 \in 1 .. Len(po) /\ l + 1 > k /\ p[l] = po[l + 1]
      BY <1>1, <1>2, <2>2
    <3>2. QED
      BY <1>4, <3>1
  <2>3. QED
    BY <1>4, <2>1, <2>2 DEF LastApply
<1>5. Head(po).kind # "apply" /\ LastApply(dk, po) => LastApply(dk, p)
  BY <1>1, <1>4 DEF LastApply
<1>6. Head(po).kind # "apply" /\ NoApply(po) => NoApply(p)
  BY <1>1, <1>2 DEF NoApply
<1>7. ASSUME Head(po).kind = "apply", LastApply(dk, po), ~LastApply(dk, p)
      PROVE  NoApply(p) /\ Head(po).text = dk
  <2>1. PICK k \in 1 .. Len(po) :
          /\ po[k].kind = "apply" /\ po[k].text = dk
          /\ \A l \in 1 .. Len(po) : l > k => po[l].kind # "apply"
    BY <1>7 DEF LastApply
  <2>2. k = 1
    BY <1>4, <1>7, <2>1
  <2>3. \A l \in 1 .. Len(p) : l + 1 \in 1 .. Len(po) /\ l + 1 > 1 /\ p[l] = po[l + 1]
    BY <1>1, <1>2
  <2>4. QED
    BY <1>1, <2>1, <2>2, <2>3 DEF NoApply
<1>8. Head(po).kind = "apply" => ~NoApply(po)
  BY <1>1, <1>2 DEF NoApply
<1>9. QED
  BY <1>3, <1>5, <1>6, <1>7, <1>8 DEF p

-----------------------------------------------------------------------------
(* Instances that take no step, and a file that is replaced.                 *)
Same(j) ==
    /\ mem'[j] = mem[j] /\ base'[j] = base[j] /\ queued'[j] = queued[j] /\ chan'[j] = chan[j]
    /\ pend'[j] = pend[j] /\ wr'[j] = wr[j] /\ failed'[j] = failed[j]
    /\ done'[j] = done[j] /\ wanted'[j] = wanted[j] /\ locked'[j] = locked[j]
    /\ posted'[j] = posted[j] /\ thr'[j] = thr[j] /\ overlap'[j] = overlap[j]

(* Whoever is told that the file is replaced will read it.                   *)
LEMMA ToldIsOrderly ==
    ASSUME NEW j \in Instances, Orderly(j), noticed'[j], thr'[j] = thr[j], overlap'[j] = overlap[j]
    PROVE  Orderly(j)'
BY DEF Orderly, ThreadsOK, Coming, Told

LEMMA OthersSound ==
    ASSUME NEW j \in Instances, Sound(j), Same(j),
           \/ disk' = disk /\ noticed'[j] = noticed[j]
           \/ disk' # Missing /\ noticed'[j]
    PROVE  Sound(j)'
<1>1. Tracked(j)' /\ Latest(j)' /\ (wanted[j] => Pending(j))'
  BY DEF Sound, Same, Tracked, Latest, Pending
<1>2. CASE disk' = disk /\ noticed'[j] = noticed[j]
  <2>1. Unread(j)' /\ Orderly(j)'
    BY <1>2 DEF Sound, Same, Unread, Orderly
  <2>2. QED
    BY <1>1, <2>1 DEF Sound
<1>3. CASE disk' # Missing /\ noticed'[j]
  <2>1. Unread(j)'
    BY <1>3 DEF Unread, MissingOK
  <2>2. Orderly(j)'
    BY <1>3, ToldIsOrderly DEF Sound, Same
  <2>3. QED
    BY <1>1, <2>1, <2>2 DEF Sound
<1>4. QED
  BY <1>2, <1>3

(* The file is replaced, or nothing is noticed.                              *)
LEMMA NotifyTells ==
    ASSUME HTypeOK, Notify, NEW j \in Instances
    PROVE  \/ disk' = disk /\ noticed'[j] = noticed[j]
           \/ disk' # disk /\ noticed'[j]
BY DEF Notify, HTypeOK

-----------------------------------------------------------------------------
(* The writer of instance i works on: what it holds, and what is shown.      *)
LEMMA Holdings ==
    ASSUME HTypeOK, NEW i \in Instances
    PROVE  /\ disk \in Files /\ queued[i] \in Nat /\ chan[i] \in Seq(Job) /\ wr[i] \in Write
           /\ wr[i].job \in Job /\ wr[i].job.doc \in Docs /\ wr[i].job.seq \in Nat
           /\ pend[i] \in Job \cup {None} /\ posted[i] \in Seq(Event) /\ done[i] \in Nat
           /\ thr[i] \in [Slots -> Thread] /\ mem[i] \in Docs
           /\ base[i] \in Docs \cup {None, Broken}
BY DEF HTypeOK, TypeOK, Write, Job

LEMMA EmptyQueue == \A ch \in Seq(Job) : ch = <<>> => Len(ch) = 0
OBVIOUS

LEMMA ModifySound ==
    ASSUME HInv, HTypeOK', NEW i \in Instances, NEW x \in Ids, NEW v \in Values \cup {Absent},
           Modify(i, x, v)
    PROVE  Sound(i)'
<1> DEFINE doc == [mem[i] EXCEPT ![x] = v]
<1> DEFINE job == [doc |-> doc, seq |-> queued[i] + 1]
<1>1. Sound(i) /\ HTypeOK
  BY DEF HInv
<1>2. doc \in Docs
  BY <1>1, Holdings DEF Docs
<1>3. job \in Job /\ job.doc = doc /\ job.seq = queued[i] + 1
  BY <1>1, <1>2, Holdings DEF Job
<1>4. /\ mem'[i] = doc /\ queued'[i] = queued[i] + 1 /\ chan'[i] = Append(chan[i], job)
      /\ UNCHANGED <<disk, lock, base, pend, wr, failed>> /\ UNCHANGED reloadVars
  BY <1>1 DEF Modify, Edit, HTypeOK, TypeOK
<1> HIDE DEF job, doc
<1>5. Tracked(i)'
  <2>1. TrackerOK(queued[i] + 1, Append(chan[i], job), pend[i], wr[i], posted[i], done[i])
    BY <1>1, <1>3, Holdings, TrackerEdit DEF Sound, Tracked
  <2>2. QED
    BY <1>4, <2>1 DEF Tracked, reloadVars
<1>6. chan'[i] # <<>> /\ chan'[i][Len(chan'[i])] = job
  BY <1>1, <1>3, <1>4, Holdings, AppendElements
<1>7. Latest(i)'
  BY <1>3, <1>4, <1>6 DEF Latest, LatestOK
<1>8. Unread(i)'
  BY <1>1, <1>4 DEF Sound, Unread, reloadVars
<1>9. Orderly(i)'
  BY <1>1, <1>4, <1>6 DEF Sound, Orderly, ShownOK, reloadVars
<1>10. (wanted[i] => Pending(i))'
  <2>1. Pending(i) => Pending(i)'
    BY <1>1, <1>4, Holdings DEF Pending, reloadVars
  <2>2. QED
    BY <1>1, <1>4, <2>1 DEF Sound, reloadVars
<1>11. QED
  BY <1>5, <1>7, <1>8, <1>9, <1>10 DEF Sound

LEMMA ReceiveSound ==
    ASSUME HInv, HTypeOK', NEW i \in Instances, WriterWorks(i), Receive(i)
    PROVE  Sound(i)'
<1>1. Sound(i) /\ HTypeOK
  BY DEF HInv
<1>2. /\ wr[i].st = "idle" /\ chan[i] # <<>>
      /\ pend'[i] = Head(chan[i]) /\ chan'[i] = Tail(chan[i])
      /\ UNCHANGED <<disk, mem, base, queued, wr, failed>>
  BY <1>1 DEF Receive, HTypeOK, TypeOK
<1>3. /\ noticed'[i] = noticed[i]
      /\ UNCHANGED <<done, wanted, locked, posted, thr, overlap>>
  BY <1>1, <1>2, NotifyTells DEF WriterWorks
<1>4. /\ Head(chan[i]) \in Job /\ Head(chan[i]) = chan[i][1] /\ Head(chan[i]) # None
      /\ Len(chan[i]) \in Nat \ {0} /\ Len(Tail(chan[i])) = Len(chan[i]) - 1
      /\ Tail(chan[i]) \in Seq(Job)
      /\ \A k \in 1 .. Len(Tail(chan[i])) : Tail(chan[i])[k] = chan[i][k + 1]
  <2>1. chan[i] \in Seq(Job)
    BY <1>1, Holdings
  <2>2. Head(chan[i]) \in Job /\ Head(chan[i]) = chan[i][1] /\ Tail(chan[i]) \in Seq(Job)
    BY <1>2, <2>1
  <2>3. QED
    BY <1>2, <2>1, <2>2, TailElements, NoneIsNoJob
<1>5. Tracked(i)'
  <2>1. TrackerOK(queued[i], Tail(chan[i]), Head(chan[i]), wr[i], posted[i], done[i])
    BY <1>1, <1>2, <1>4, Holdings, TrackerReceive DEF Sound, Tracked
  <2>2. QED
    BY <1>2, <1>3, <2>1 DEF Tracked
<1>6. Latest(i)'
  <2>1. chan[i][Len(chan[i])].doc = mem[i]
    BY <1>1, <1>2 DEF Sound, Latest, LatestOK
  <2>2. Tail(chan[i]) = <<>> => Len(chan[i]) = 1
    <3>1. Tail(chan[i]) = <<>> => Len(Tail(chan[i])) = 0
      BY <1>4, EmptyQueue
    <3>2. QED
      BY <1>4, <3>1
  <2>3. Tail(chan[i]) # <<>> => Tail(chan[i])[Len(Tail(chan[i]))] = chan[i][Len(chan[i])]
    BY <1>4
  <2>4. QED
    BY <1>2, <1>4, <2>1, <2>2, <2>3 DEF Latest, LatestOK
<1>7. Unread(i)'
  BY <1>1, <1>2, <1>3 DEF Sound, Unread
<1>8. Orderly(i)'
  BY <1>1, <1>2, <1>3, <1>4 DEF Sound, Orderly, ShownOK
<1>9. (wanted[i] => Pending(i))'
  BY <1>1, <1>2, <1>3 DEF Sound, Pending
<1>10. QED
  BY <1>5, <1>6, <1>7, <1>8, <1>9 DEF Sound

LEMMA DebouncedSound ==
    ASSUME HInv, HTypeOK', NEW i \in Instances, WriterWorks(i), Debounced(i)
    PROVE  Sound(i)'
<1>1. Sound(i) /\ HTypeOK
  BY DEF HInv
<1>2. /\ wr[i].st = "idle" /\ chan[i] = <<>> /\ pend[i] # None /\ pend'[i] = None
      /\ wr'[i].st = "based" /\ wr'[i].job = pend[i] /\ wr'[i].base = base[i]
      /\ UNCHANGED <<disk, mem, base, queued, chan, failed>>
  BY <1>1 DEF Debounced, HTypeOK, TypeOK
<1>3. /\ noticed'[i] = noticed[i]
      /\ UNCHANGED <<done, wanted, locked, posted, thr, overlap>>
  BY <1>1, <1>2, NotifyTells DEF WriterWorks
<1>4. wr'[i] \in Write
  BY DEF HTypeOK, TypeOK
<1>5. Tracked(i)'
  <2>1. TrackerOK(queued[i], chan[i], None, wr'[i], posted[i], done[i])
    BY <1>1, <1>2, <1>4, Holdings, TrackerDebounced DEF Sound, Tracked
  <2>2. QED
    BY <1>2, <1>3, <2>1 DEF Tracked
<1>6. Latest(i)'
  BY <1>1, <1>2 DEF Sound, Latest, LatestOK
<1>7. Unread(i)'
  BY <1>1, <1>2, <1>3 DEF Sound, Unread, MissingOK
<1>8. Orderly(i)'
  BY <1>1, <1>2, <1>3 DEF Sound, Orderly, ShownOK, BaseOK
<1>9. (wanted[i] => Pending(i))'
  BY <1>1, <1>2, <1>3 DEF Sound, Pending
<1>10. QED
  BY <1>5, <1>6, <1>7, <1>8, <1>9 DEF Sound

LEMMA LockAndReadSound ==
    ASSUME HInv, HTypeOK', NEW i \in Instances, WriterWorks(i), LockAndRead(i)
    PROVE  Sound(i)'
<1>1. Sound(i) /\ HTypeOK
  BY DEF HInv
<1>2. /\ wr[i].st = "based" /\ wr[i].base # None
      /\ wr'[i].st = "read" /\ wr'[i].job = wr[i].job /\ wr'[i].base = wr[i].base
      /\ wr'[i].out = Out(wr[i].base, wr[i].job.doc, disk)
      /\ UNCHANGED <<disk, mem, base, queued, chan, pend, failed>>
  BY <1>1 DEF LockAndRead, HTypeOK, TypeOK, Write
<1>3. /\ noticed'[i] = noticed[i]
      /\ UNCHANGED <<done, wanted, locked, posted, thr, overlap>>
  BY <1>1, <1>2, NotifyTells DEF WriterWorks
<1>4. wr'[i] \in Write
  BY DEF HTypeOK, TypeOK
<1>5. Tracked(i)'
  <2>1. TrackerOK(queued[i], chan[i], pend[i], wr'[i], posted[i], done[i])
    BY <1>1, <1>2, <1>4, Holdings, TrackerWrites DEF Sound, Tracked
  <2>2. QED
    BY <1>2, <1>3, <2>1 DEF Tracked
<1>6. Latest(i)'
  BY <1>1, <1>2 DEF Sound, Latest, LatestOK
<1>7. Unread(i)'
  BY <1>1, <1>2, <1>3 DEF Sound, Unread, MissingOK
<1>8. Orderly(i)'
  <2>1. ASSUME BaseOK(disk, base[i], wr[i])
        PROVE  BaseOK(disk, base[i], wr'[i])
    <3>1. wr[i].base = disk
      BY <1>2, <2>1 DEF BaseOK
    <3>2. wr'[i].out = wr[i].job.doc
      BY <1>2, <3>1 DEF Out
    <3>3. QED
      BY <1>2, <2>1, <3>2 DEF BaseOK
  <2>2. QED
    BY <1>1, <1>2, <1>3, <2>1 DEF Sound, Orderly, ShownOK
<1>9. (wanted[i] => Pending(i))'
  BY <1>1, <1>2, <1>3 DEF Sound, Pending
<1>10. QED
  BY <1>5, <1>6, <1>7, <1>8, <1>9 DEF Sound

LEMMA RenameSound ==
    ASSUME HInv, HTypeOK', NEW i \in Instances, WriterWorks(i), Rename(i)
    PROVE  Sound(i)' /\ disk' # Missing
<1>1. Sound(i) /\ HTypeOK
  BY DEF HInv
<1>2. /\ wr[i].st = "read" /\ disk' = wr[i].out
      /\ wr'[i].st = "renamed" /\ wr'[i].job = wr[i].job /\ wr'[i].base = wr[i].base
      /\ wr'[i].out = wr[i].out
      /\ UNCHANGED <<mem, base, queued, chan, pend, failed>>
  BY <1>1 DEF Rename, HTypeOK, TypeOK, Write
<1>3. UNCHANGED <<done, wanted, locked, posted, thr, overlap>>
  BY DEF WriterWorks
<1>4. wr'[i] \in Write
  BY DEF HTypeOK, TypeOK
<1>5. disk' # Missing
  <2>1. wr[i].out \in Docs
    BY <1>1 DEF HTypeOK, TypeOK, Write
  <2>2. QED
    BY <1>2, <2>1, ConstantsAssumption
<1>6. Tracked(i)'
  <2>1. TrackerOK(queued[i], chan[i], pend[i], wr'[i], posted[i], done[i])
    BY <1>1, <1>2, <1>4, Holdings, TrackerWrites DEF Sound, Tracked
  <2>2. QED
    BY <1>2, <1>3, <2>1 DEF Tracked
<1>7. Latest(i)'
  BY <1>1, <1>2 DEF Sound, Latest, LatestOK
<1>8. Unread(i)'
  BY <1>5 DEF Unread, MissingOK
<1>9. Orderly(i)'
  <2>1. CASE noticed'[i]
    BY <1>1, <1>3, <2>1, ToldIsOrderly DEF Sound
  <2>2. CASE disk' = disk /\ noticed'[i] = noticed[i]
    <3>1. BaseOK(disk, base[i], wr[i]) => BaseOK(disk, base[i], wr'[i])
      BY <1>2, <2>2 DEF BaseOK
    <3>2. QED
      BY <1>1, <1>2, <1>3, <2>2, <3>1 DEF Sound, Orderly, ShownOK
  <2>3. QED
    BY <1>1, <2>1, <2>2, NotifyTells DEF WriterWorks
<1>10. (wanted[i] => Pending(i))'
  BY <1>1, <1>2, <1>3 DEF Sound, Pending
<1>11. QED
  BY <1>5, <1>6, <1>7, <1>8, <1>9, <1>10 DEF Sound

-----------------------------------------------------------------------------
(* A write of instance i ends, and its callback is posted.                   *)
LEMMA FinishedTracker ==
    ASSUME HInv, HTypeOK', NEW i \in Instances, WriterFinishes(i)
    PROVE  /\ wr[i].st # "idle" /\ wr'[i].st = "idle" /\ pend[i] = None
           /\ mem'[i] = mem[i] /\ chan'[i] = chan[i] /\ pend'[i] = pend[i]
           /\ UNCHANGED <<done, wanted, locked, thr, overlap>>
           /\ \E e \in Event : e.kind = "done" /\ posted'[i] = Append(posted[i], e)
           /\ \A j \in Instances : j # i => posted'[j] = posted[j]
           /\ Tracked(i)' /\ Latest(i)' /\ (wanted[i] => Pending(i))'
<1>1. Sound(i) /\ HTypeOK
  BY DEF HInv
<1>2. /\ wr[i].st # "idle" /\ wr' = [wr EXCEPT ![i] = Idle]
      /\ UNCHANGED <<mem, queued, chan, pend>>
  BY DEF WriterFinishes, WriteAsGiven, Remember, WriteFails, DirSyncFailed
<1>3. wr'[i] = Idle /\ wr'[i].st = "idle" /\ wr'[i] \in Write
  BY <1>1, <1>2, EmptyDocType DEF Idle, HTypeOK, TypeOK
<1>4. PICK e \in Event : e = DoneEvent(wr[i].job.seq) /\ e.kind = "done" /\ e.seq = wr[i].job.seq
  BY <1>1, Holdings, Events
<1>5. /\ posted'[i] = Append(posted[i], e)
      /\ \A j \in Instances : j # i => posted'[j] = posted[j]
  BY <1>1, <1>4, EventPosted DEF WriterFinishes
<1>6. UNCHANGED <<done, wanted, locked, thr, overlap>>
  BY DEF WriterFinishes
<1>7. Tracked(i)'
  <2>1. TrackerOK(queued[i], chan[i], pend[i], wr'[i], Append(posted[i], e), done[i])
    BY <1>1, <1>2, <1>3, <1>4, Holdings, TrackerFinish DEF Sound, Tracked
  <2>2. QED
    BY <1>2, <1>5, <1>6, <2>1 DEF Tracked
<1>8. pend[i] = None
  BY <1>1, <1>2 DEF Sound, Tracked, TrackerOK
<1>9. Latest(i)'
  BY <1>1, <1>2, <1>3 DEF Sound, Latest, LatestOK
<1>10. (wanted[i] => Pending(i))'
  BY <1>1, <1>2, <1>6 DEF Sound, Pending
<1>11. QED
  BY <1>2, <1>3, <1>4, <1>5, <1>6, <1>7, <1>8, <1>9, <1>10

(* After a write that left the file as it was.                               *)
LEMMA FinishedOrderly ==
    ASSUME HInv, HTypeOK', NEW i \in Instances, WriterFinishes(i),
           disk' = disk, noticed'[i] = noticed[i],
           BaseOK(disk, base[i], wr[i]) =>
             /\ BaseOK(disk, base'[i], wr'[i])
             /\ ~failed'[i] => disk = wr[i].job.doc
    PROVE  Orderly(i)'
<1>1. Sound(i) /\ HTypeOK
  BY DEF HInv
<1>2. /\ wr[i].st # "idle" /\ wr'[i].st = "idle" /\ pend[i] = None
      /\ mem'[i] = mem[i] /\ chan'[i] = chan[i] /\ pend'[i] = pend[i]
      /\ UNCHANGED <<wanted, locked, thr, overlap>>
  BY FinishedTracker
<1>3. PICK e \in Event : e.kind = "done" /\ posted'[i] = Append(posted[i], e)
  BY FinishedTracker
<1>4. /\ Told(noticed'[i], posted'[i]) <=> Told(noticed[i], posted[i])
      /\ LastApply(disk, posted[i]) => LastApply(disk, posted'[i])
      /\ NoApply(posted[i]) => NoApply(posted'[i])
  <2>1. posted[i] \in Seq(Event)
    BY <1>1, Holdings
  <2>2. /\ Told(noticed[i], Append(posted[i], e)) <=> Told(noticed[i], posted[i])
        /\ LastApply(disk, posted[i]) => LastApply(disk, Append(posted[i], e))
        /\ NoApply(posted[i]) => NoApply(Append(posted[i], e))
    BY <1>3, <2>1, PostKeeps
  <2>3. QED
    BY <1>3, <2>2
<1>5. ASSUME chan[i] = <<>>, BaseOK(disk, base[i], wr[i]), ~failed'[i]
      PROVE  mem[i] = Content(disk)
  <2>1. wr[i].job.doc = mem[i]
    BY <1>1, <1>2, <1>5 DEF Sound, Latest, LatestOK
  <2>2. disk = mem[i] /\ mem[i] \in Docs
    BY <1>1, <1>5, <2>1, Holdings
  <2>3. QED
    BY <2>2 DEF Content
<1>6. ASSUME BaseOK(disk, base[i], wr[i]),
             ShownOK(disk, mem[i], chan[i], pend[i], wr[i], failed[i], locked[i], posted[i], thr[i])
      PROVE  ShownOK(disk, mem[i], chan[i], pend[i], wr'[i], failed'[i], locked[i], posted'[i], thr[i])
  BY <1>2, <1>4, <1>5, <1>6 DEF ShownOK
<1>7. QED
  BY <1>1, <1>2, <1>4, <1>6 DEF Sound, Orderly, ThreadsOK, Coming

LEMMA FinishesSound ==
    ASSUME HInv, HTypeOK', NEW i \in Instances, WriterFinishes(i)
    PROVE  Sound(i)' /\ (disk' = disk \/ disk' # Missing)
<1>1. Sound(i) /\ HTypeOK
  BY DEF HInv
<1>2. /\ wr[i].st # "idle" /\ wr'[i].st = "idle"
      /\ Tracked(i)' /\ Latest(i)' /\ (wanted[i] => Pending(i))'
      /\ UNCHANGED <<thr, overlap>>
  BY FinishedTracker
<1>3. wr[i].job.doc \in Docs /\ wr[i].job.doc # Missing
  BY <1>1, Holdings, ConstantsAssumption
<1>4. CASE noticed'[i] /\ disk' # Missing
  <2>1. Orderly(i)' /\ Unread(i)'
    BY <1>1, <1>2, <1>4, ToldIsOrderly DEF Sound, Unread, MissingOK
  <2>2. QED
    BY <1>2, <1>4, <2>1 DEF Sound
<1>5. CASE disk' = disk /\ noticed'[i] = noticed[i]
  <2>1. CASE WriteAsGiven(i)
    <3>1. wr[i].st = "based" /\ wr[i].base = None /\ base' = base /\ disk = wr[i].job.doc
      BY <1>5, <2>1 DEF WriteAsGiven
    <3>2. ~BaseOK(disk, base[i], wr[i])
      BY <1>3, <3>1, ConstantsAssumption DEF BaseOK
    <3>3. Unread(i)'
      BY <1>3, <1>5, <3>1 DEF Unread, MissingOK
    <3>4. QED
      BY <1>2, <1>5, <3>2, <3>3, FinishedOrderly DEF Sound
  <2>2. CASE Remember(i)
    <3>1. wr[i].st = "renamed" /\ base'[i] = wr[i].job.doc
      BY <1>1, <2>2 DEF Remember, HTypeOK, TypeOK
    <3>2. BaseOK(disk, base[i], wr[i]) => BaseOK(disk, base'[i], wr'[i]) /\ disk = wr[i].job.doc
      BY <1>2, <3>1 DEF BaseOK
    <3>3. Unread(i)'
      BY <1>1, <1>5, <3>1 DEF Sound, Unread, MissingOK
    <3>4. QED
      BY <1>2, <1>5, <3>2, <3>3, FinishedOrderly DEF Sound
  <2>3. CASE WriteFails(i) \/ DirSyncFailed(i)
    <3>1. base' = base /\ failed'[i]
      BY <1>1, <2>3 DEF WriteFails, DirSyncFailed, HTypeOK, TypeOK
    <3>2. BaseOK(disk, base[i], wr[i]) => BaseOK(disk, base'[i], wr'[i])
      BY <1>2, <3>1 DEF BaseOK
    <3>3. Unread(i)'
      BY <1>1, <1>2, <1>5, <3>1 DEF Sound, Unread, MissingOK
    <3>4. QED
      BY <1>2, <1>5, <3>1, <3>2, <3>3, FinishedOrderly DEF Sound
  <2>4. QED
    BY <2>1, <2>2, <2>3 DEF WriterFinishes
<1>6. disk' = disk \/ disk' # Missing
  BY <1>3 DEF WriterFinishes, WriteAsGiven, Remember, WriteFails, DirSyncFailed
<1>7. disk' # disk => noticed'[i]
  BY <1>1, NotifyTells DEF WriterFinishes
<1>8. QED
  BY <1>1, <1>4, <1>5, <1>6, <1>7, NotifyTells DEF WriterFinishes

-----------------------------------------------------------------------------
(* The watcher, the GUI thread and the reload threads of instance i.         *)
LEMMA WatcherSound ==
    ASSUME HInv, HTypeOK', NEW i \in Instances, WatcherFires(i)
    PROVE  Sound(i)'
<1>1. Sound(i) /\ HTypeOK
  BY DEF HInv
<1>2. PICK e \in Event : e = ReloadEvent /\ e.kind = "reload"
  BY Events
<1>3. posted'[i] = Append(posted[i], e)
  BY <1>1, <1>2, EventPosted DEF WatcherFires
<1>4. UNCHANGED <<vars, done, wanted, locked, thr, overlap>>
  BY DEF WatcherFires
<1>5. Tracked(i)'
  <2>1. TrackerOK(queued[i], chan[i], pend[i], wr[i], Append(posted[i], e), done[i])
    BY <1>1, <1>2, Holdings, TrackerPost DEF Sound, Tracked
  <2>2. QED
    BY <1>3, <1>4, <2>1 DEF Tracked, vars
<1>6. Latest(i)' /\ Unread(i)' /\ (wanted[i] => Pending(i))'
  BY <1>1, <1>4 DEF Sound, Latest, Unread, Pending, vars
<1>7. Told(noticed'[i], posted'[i])
  <2>1. posted[i] \in Seq(Event)
    BY <1>1, Holdings
  <2>2. \A no : Told(no, Append(posted[i], e))
    BY <1>2, <2>1, PostKeeps
  <2>3. QED
    BY <1>3, <2>2
<1>8. Orderly(i)'
  BY <1>1, <1>4, <1>7 DEF Sound, Orderly, ThreadsOK, Coming, vars
<1>9. QED
  BY <1>5, <1>6, <1>8 DEF Sound

(* A thread is started: the file will be read.                               *)
LEMMA SpawnOrderly ==
    ASSUME HInv, NEW i \in Instances, NEW t \in Slots, Spawn(i, t)
    PROVE  Orderly(i)' /\ (UNCHANGED <<disk, base, wr>> => Unread(i)')
<1>1. Sound(i) /\ HTypeOK
  BY DEF HInv
<1>2. PICK r \in Thread :
        /\ r.st = "start" /\ r.text = thr[i][t].text
        /\ thr'[i] = [thr[i] EXCEPT ![t] = r]
        /\ overlap'[i] <=> overlap[i] \/ \E u \in Slots : thr[i][u].st # "none"
  BY <1>1, Spawned
<1>3. /\ thr'[i][t] = r
      /\ \A u \in Slots : u # t => thr'[i][u] = thr[i][u]
  BY <1>1, <1>2, Holdings
<1>4. Coming(noticed'[i], posted'[i], thr'[i])
  BY <1>2, <1>3 DEF Coming
<1>5. ~overlap'[i] => ThreadsOK(disk', noticed'[i], posted'[i], thr'[i])
  <2>1. SUFFICES ASSUME \A u \in Slots : thr[i][u].st = "none"
                 PROVE  ThreadsOK(disk', noticed'[i], posted'[i], thr'[i])
    BY <1>2
  <2>2. \A u \in Slots : u # t => thr'[i][u].st = "none"
    BY <1>3, <2>1
  <2>3. QED
    BY <1>2, <1>3, <2>2 DEF ThreadsOK
<1>6. UNCHANGED <<disk, base, wr>> => Unread(i)'
  BY <1>1, <1>2, <1>3 DEF Sound, Unread, MissingOK
<1>7. QED
  BY <1>4, <1>5, <1>6 DEF Orderly

LEMMA ReloadSound ==
    ASSUME HInv, HTypeOK', NEW i \in Instances, NEW t \in Slots, OnReload(i, t)
    PROVE  Sound(i)'
<1>1. Sound(i) /\ HTypeOK
  BY DEF HInv
<1>2. posted[i] # <<>> /\ Head(posted[i]).kind = "reload" /\ posted'[i] = Tail(posted[i])
  BY <1>1, EventTaken DEF OnReload
<1>3. UNCHANGED <<vars, done, wanted>>
  BY DEF OnReload
<1>4. Tracked(i)'
  <2>1. TrackerOK(queued[i], chan[i], pend[i], wr[i], Tail(posted[i]), done[i])
    BY <1>1, <1>2, Holdings, TrackerTake DEF Sound, Tracked
  <2>2. QED
    BY <1>2, <1>3, <2>1 DEF Tracked, vars
<1>5. Latest(i)' /\ (wanted[i] => Pending(i))'
  BY <1>1, <1>3 DEF Sound, Latest, Pending, vars
<1>6. Orderly(i)' /\ Unread(i)'
  BY <1>3, SpawnOrderly DEF OnReload, vars
<1>7. QED
  BY <1>4, <1>5, <1>6 DEF Sound

LEMMA SaveDoneSound ==
    ASSUME HInv, HTypeOK', NEW i \in Instances, NEW t \in Slots, OnSaveDone(i, t)
    PROVE  Sound(i)'
<1>1. Sound(i) /\ HTypeOK
  BY DEF HInv
<1>2. /\ posted[i] # <<>> /\ Head(posted[i]).kind = "done" /\ posted'[i] = Tail(posted[i])
      /\ Head(posted[i]) \in Event
  BY <1>1, EventTaken DEF OnSaveDone
<1>3. UNCHANGED <<vars, locked, noticed>>
  BY DEF OnSaveDone
<1>4. Head(posted[i]).seq \in Nat
  BY <1>2 DEF Event
<1>5. /\ Head(posted[i]).seq > done[i]
      /\ TrackerOK(queued[i], chan[i], pend[i], wr[i], Tail(posted[i]), Head(posted[i]).seq)
  BY <1>1, <1>2, Holdings, TrackerDone DEF Sound, Tracked
<1>6. done'[i] = Head(posted[i]).seq
  BY <1>1, <1>4, <1>5 DEF OnSaveDone, Finished, HTypeOK
<1>7. Tracked(i)' /\ Latest(i)'
  BY <1>1, <1>2, <1>3, <1>5, <1>6 DEF Sound, Tracked, Latest, vars
<1>8. (wanted[i] => Pending(i))'
  <2>1. CASE wanted[i] /\ ~(done'[i] < queued[i])
    BY <1>1, <2>1 DEF OnSaveDone, HTypeOK
  <2>2. CASE ~(wanted[i] /\ ~(done'[i] < queued[i]))
    BY <1>3, <2>2 DEF OnSaveDone, Pending, vars
  <2>3. QED
    BY <2>1, <2>2
<1>9. CASE Spawn(i, t)
  <2>1. Orderly(i)' /\ Unread(i)'
    BY <1>3, <1>9, SpawnOrderly DEF vars
  <2>2. QED
    BY <1>7, <1>8, <2>1 DEF Sound
<1>10. CASE UNCHANGED <<thr, wanted, overlap>>
  <2>1. Unread(i)'
    BY <1>1, <1>3, <1>10 DEF Sound, Unread, vars
  <2>2. /\ \A no : Told(no, Tail(posted[i])) <=> Told(no, posted[i])
        /\ LastApply(disk, posted[i]) => LastApply(disk, Tail(posted[i]))
        /\ NoApply(posted[i]) => NoApply(Tail(posted[i]))
    <3>1. posted[i] \in Seq(Event)
      BY <1>1, Holdings
    <3>2. QED
      BY <1>2, <3>1, TakeKeeps
  <2>3. ASSUME ShownOK(disk, mem[i], chan[i], pend[i], wr[i], failed[i], locked[i], posted[i], thr[i])
        PROVE  ShownOK(disk, mem[i], chan[i], pend[i], wr[i], failed[i], locked[i], Tail(posted[i]), thr[i])
    BY <2>2, <2>3 DEF ShownOK
  <2>4. Orderly(i)'
    BY <1>1, <1>2, <1>3, <1>10, <2>2, <2>3 DEF Sound, Orderly, ThreadsOK, Coming, vars
  <2>5. QED
    BY <1>7, <1>8, <2>1, <2>4 DEF Sound
<1>11. QED
  BY <1>9, <1>10 DEF OnSaveDone

LEMMA ApplySound ==
    ASSUME HInv, HTypeOK', NEW i \in Instances, OnApply(i)
    PROVE  Sound(i)'
<1>1. Sound(i) /\ HTypeOK
  BY DEF HInv
<1>2. posted[i] # <<>> /\ Head(posted[i]).kind = "apply" /\ posted'[i] = Tail(posted[i])
  BY <1>1, EventTaken DEF OnApply
<1>3. UNCHANGED <<disk, lock, base, queued, chan, pend, wr, failed, done, noticed, thr, overlap>>
  BY DEF OnApply
<1>4. Tracked(i)'
  <2>1. TrackerOK(queued[i], chan[i], pend[i], wr[i], Tail(posted[i]), done[i])
    BY <1>1, <1>2, Holdings, TrackerTake DEF Sound, Tracked
  <2>2. QED
    BY <1>2, <1>3, <2>1 DEF Tracked
<1>5. Unread(i)'
  BY <1>1, <1>3 DEF Sound, Unread
<1>6. /\ \A no : Told(no, Tail(posted[i])) <=> Told(no, posted[i])
      /\ LastApply(disk, posted[i]) =>
           \/ LastApply(disk, Tail(posted[i]))
           \/ NoApply(Tail(posted[i])) /\ Head(posted[i]).text = disk
      /\ ~NoApply(posted[i])
  <2>1. posted[i] \in Seq(Event)
    BY <1>1, Holdings
  <2>2. QED
    BY <1>2, <2>1, TakeKeeps
<1>7. ~overlap[i] => ThreadsOK(disk, noticed[i], Tail(posted[i]), thr[i])
  BY <1>1, <1>6 DEF Sound, Orderly, ThreadsOK
<1>8. Coming(noticed[i], Tail(posted[i]), thr[i]) <=> Coming(noticed[i], posted[i], thr[i])
  BY <1>6 DEF Coming
<1>9. CASE Pending(i)
  <2>1. mem' = mem /\ wanted'[i]
    BY <1>1, <1>9 DEF OnApply, HTypeOK
  <2>2. Latest(i)' /\ Pending(i)'
    BY <1>1, <1>3, <1>9, <2>1 DEF Sound, Latest, Pending
  <2>3. Orderly(i)'
    BY <1>1, <1>2, <1>3, <1>7, <1>8, <2>1 DEF Sound, Orderly
  <2>4. QED
    BY <1>4, <1>5, <2>2, <2>3 DEF Sound
<1>10. CASE ~Pending(i)
  <2>1. /\ mem'[i] = Content(Head(posted[i]).text)
        /\ locked'[i] <=> Head(posted[i]).text = Broken
        /\ wanted'[i] = wanted[i]
    BY <1>1, <1>10 DEF OnApply, HTypeOK, TypeOK
  <2>2. ~wanted[i]
    BY <1>1, <1>10 DEF Sound
  <2>3. chan[i] = <<>> /\ pend[i] = None /\ wr[i].st = "idle"
    BY <1>1, <1>10, Holdings, TrackerTells DEF Sound, Tracked, Pending
  <2>4. Latest(i)'
    BY <1>3, <2>3 DEF Latest, LatestOK
  <2>5. ASSUME ShownOK(disk, mem[i], chan[i], pend[i], wr[i], failed[i], locked[i], posted[i], thr[i])
        PROVE  ShownOK(disk, mem'[i], chan[i], pend[i], wr[i], failed[i], locked'[i], Tail(posted[i]), thr[i])
    BY <1>6, <2>1, <2>5 DEF ShownOK
  <2>6. Orderly(i)'
    BY <1>1, <1>2, <1>3, <1>7, <1>8, <2>2, <2>5 DEF Sound, Orderly
  <2>7. QED
    BY <1>4, <1>5, <2>1, <2>2, <2>4, <2>6 DEF Sound
<1>11. QED
  BY <1>9, <1>10

LEMMA ThreadReadsSound ==
    ASSUME HInv, HTypeOK', NEW i \in Instances, NEW t \in Slots, ThreadReads(i, t)
    PROVE  Sound(i)'
<1>1. Sound(i) /\ HTypeOK
  BY DEF HInv
<1>2. UNCHANGED <<vars, done, wanted, locked, noticed, posted, overlap>>
  BY DEF ThreadReads
<1>3. /\ thr[i][t].st = "start" /\ thr'[i][t].st = "read" /\ thr'[i][t].text = disk
      /\ \A u \in Slots : u # t => thr'[i][u] = thr[i][u]
  BY <1>1 DEF ThreadReads, HTypeOK
<1>4. Tracked(i)' /\ Latest(i)' /\ (wanted[i] => Pending(i))'
  BY <1>1, <1>2 DEF Sound, Tracked, Latest, Pending, vars
<1>5. Unread(i)'
  BY <1>1, <1>2, <1>3 DEF Sound, Unread, MissingOK, vars
<1>6. Coming(noticed[i], posted[i], thr'[i])
  BY <1>3 DEF Coming
<1>7. ThreadsOK(disk, noticed[i], posted[i], thr[i])
        => ThreadsOK(disk, noticed[i], posted[i], thr'[i])
  BY <1>3 DEF ThreadsOK
<1>8. Orderly(i)'
  BY <1>1, <1>2, <1>6, <1>7 DEF Sound, Orderly, vars
<1>9. QED
  BY <1>4, <1>5, <1>8 DEF Sound

LEMMA ThreadRemembersSound ==
    ASSUME HInv, HTypeOK', NEW i \in Instances, NEW t \in Slots, ThreadRemembers(i, t)
    PROVE  Sound(i)'
<1>1. Sound(i) /\ HTypeOK
  BY DEF HInv
<1>2. UNCHANGED <<disk, mem, queued, chan, pend, wr, failed, done, wanted, locked, noticed, posted>>
  BY DEF ThreadRemembers
<1>3. /\ thr[i][t].st = "read" /\ thr'[i][t].st = "loaded" /\ thr'[i][t].text = thr[i][t].text
      /\ \A u \in Slots : u # t => thr'[i][u] = thr[i][u]
  <2>1. thr[i][t] \in Thread
    BY <1>1, Holdings
  <2>2. thr'[i][t] = [thr[i][t] EXCEPT !.st = "loaded"]
    BY <1>1 DEF ThreadRemembers, HTypeOK
  <2>3. \A u \in Slots : u # t => thr'[i][u] = thr[i][u]
    BY <1>1 DEF ThreadRemembers, HTypeOK
  <2>4. thr'[i][t].st = "loaded" /\ thr'[i][t].text = thr[i][t].text
    BY <2>1, <2>2, Threads
  <2>5. QED
    BY <2>3, <2>4 DEF ThreadRemembers
<1>4. overlap'[i] <=> overlap[i] \/ wr[i].st # "idle"
  BY <1>1 DEF ThreadRemembers, HTypeOK
<1>5. base'[i] = IF thr[i][t].text = Missing THEN base[i] ELSE thr[i][t].text
  BY <1>1 DEF ThreadRemembers, RememberRead, HTypeOK, TypeOK
<1>6. Tracked(i)' /\ Latest(i)' /\ (wanted[i] => Pending(i))'
  BY <1>1, <1>2 DEF Sound, Tracked, Latest, Pending
<1>7. Unread(i)'
  BY <1>1, <1>2, <1>3, <1>5 DEF Sound, Unread, MissingOK
<1>8. ThreadsOK(disk, noticed[i], posted[i], thr[i])
        => ThreadsOK(disk, noticed[i], posted[i], thr'[i])
  BY <1>3 DEF ThreadsOK
<1>9. ASSUME ~overlap'[i], ~Told(noticed[i], posted[i])
      PROVE  /\ BaseOK(disk, base'[i], wr[i])
             /\ ShownOK(disk, mem[i], chan[i], pend[i], wr[i], failed[i], locked[i], posted[i], thr'[i])
  <2>1. thr[i][t].text = disk
    BY <1>1, <1>3, <1>4, <1>9 DEF Sound, Orderly, ThreadsOK
  <2>2. wr[i].st = "idle"
    BY <1>4, <1>9
  <2>3. base'[i] = disk \/ (base'[i] = None /\ disk = Missing)
    BY <1>1, <1>5, <2>1 DEF Sound, Unread, MissingOK
  <2>4. QED
    BY <1>3, <2>1, <2>2, <2>3 DEF BaseOK, ShownOK
<1>10. Orderly(i)'
  BY <1>1, <1>2, <1>4, <1>8, <1>9 DEF Sound, Orderly, Coming
<1>11. QED
  BY <1>6, <1>7, <1>10 DEF Sound

LEMMA ThreadPostsSound ==
    ASSUME HInv, HTypeOK', NEW i \in Instances, NEW t \in Slots, ThreadPosts(i, t)
    PROVE  Sound(i)'
<1>1. Sound(i) /\ HTypeOK
  BY DEF HInv
<1>2. UNCHANGED <<vars, done, wanted, locked, noticed, overlap>>
  BY DEF ThreadPosts
<1>3. thr[i][t] \in Thread /\ thr[i][t].text \in Files
  BY <1>1, Holdings, Threads
<1>4. PICK e \in Event : /\ e = ApplyEvent(thr[i][t].text) /\ e.kind = "apply"
                         /\ e.text = thr[i][t].text
  BY <1>3, Events
<1>5. posted'[i] = Append(posted[i], e)
  BY <1>1, <1>4, EventPosted DEF ThreadPosts
<1>6. /\ thr[i][t].st = "loaded" /\ thr'[i][t].st = "none" /\ thr'[i][t].text = Missing
      /\ \A u \in Slots : u # t => thr'[i][u] = thr[i][u]
  BY <1>1, Threads DEF ThreadPosts, HTypeOK
<1>7. Tracked(i)'
  <2>1. TrackerOK(queued[i], chan[i], pend[i], wr[i], Append(posted[i], e), done[i])
    BY <1>1, <1>4, Holdings, TrackerPost DEF Sound, Tracked
  <2>2. QED
    BY <1>2, <1>5, <2>1 DEF Tracked, vars
<1>8. Latest(i)' /\ (wanted[i] => Pending(i))'
  BY <1>1, <1>2 DEF Sound, Latest, Pending, vars
<1>9. Unread(i)'
  BY <1>1, <1>2, <1>6 DEF Sound, Unread, MissingOK, vars
<1>10. /\ \A no : Told(no, Append(posted[i], e)) <=> Told(no, posted[i])
       /\ \A dk : e.text = dk => LastApply(dk, Append(posted[i], e))
  <2>1. posted[i] \in Seq(Event)
    BY <1>1, Holdings
  <2>2. QED
    BY <1>4, <2>1, PostKeeps
<1>11. ASSUME ThreadsOK(disk, noticed[i], posted[i], thr[i])
       PROVE  /\ ThreadsOK(disk, noticed[i], posted'[i], thr'[i])
              /\ \A u \in Slots : thr'[i][u].st = "none"
              /\ ~Told(noticed[i], posted[i]) => LastApply(disk, posted'[i])
  <2>1. \A u \in Slots : thr'[i][u].st = "none"
    BY <1>6, <1>11 DEF ThreadsOK
  <2>2. ~Told(noticed[i], posted[i]) => thr[i][t].text = disk
    BY <1>6, <1>11 DEF ThreadsOK
  <2>3. QED
    BY <1>4, <1>5, <1>10, <2>1, <2>2 DEF ThreadsOK
<1>12. ASSUME ~overlap[i], ~Coming(noticed[i], posted'[i], thr'[i])
       PROVE  ~Coming(noticed[i], posted[i], thr[i]) /\ ~Told(noticed[i], posted[i])
  <2>1. ~Told(noticed[i], posted[i])
    BY <1>5, <1>10, <1>12 DEF Coming
  <2>2. \A u \in Slots : thr[i][u].st \notin {"start", "read"}
    BY <1>6, <1>12 DEF Coming
  <2>3. QED
    BY <2>1, <2>2 DEF Coming
<1>13. Orderly(i)'
  <2>1. ~overlap[i] => ThreadsOK(disk, noticed[i], posted'[i], thr'[i])
    BY <1>1, <1>11 DEF Sound, Orderly
  <2>2. ASSUME ~overlap[i], ~Coming(noticed[i], posted'[i], thr'[i])
        PROVE  /\ BaseOK(disk, base[i], wr[i])
               /\ ShownOK(disk, mem[i], chan[i], pend[i], wr[i], failed[i], locked[i], posted'[i], thr'[i])
    BY <1>1, <1>11, <1>12, <2>2 DEF Sound, Orderly, ShownOK
  <2>3. QED
    BY <1>2, <2>1, <2>2 DEF Orderly, vars
<1>14. QED
  BY <1>7, <1>8, <1>9, <1>13 DEF Sound

-----------------------------------------------------------------------------
(* Every step of the system.                                                 *)
LEMMA InitHInv == HInit => HInv
<1> SUFFICES ASSUME HInit, NEW i \in Instances PROVE Sound(i)
  BY InitHTypeOK DEF HInv
<1>1. /\ disk = first /\ first \in Docs \cup {Missing}
      /\ mem[i] = Content(disk) /\ base[i] = IF disk = Missing THEN None ELSE disk
      /\ queued[i] = 0 /\ chan[i] = <<>> /\ pend[i] = None /\ wr[i].st = "idle"
      /\ done[i] = 0 /\ ~wanted[i] /\ ~locked[i] /\ ~noticed[i] /\ posted[i] = <<>>
  BY ConstantsAssumption DEF HInit, Init, Content, Idle
<1>2. \A t \in Slots : thr[i][t].st = "none" /\ thr[i][t].text = Missing
  BY DEF HInit, NoThread
<1>3. Len(posted[i]) = 0 /\ Len(chan[i]) = 0
  BY <1>1
<1>4. Tracked(i) /\ Latest(i) /\ Unread(i)
  <2>1. TrackerOK(0, chan[i], pend[i], wr[i], posted[i], 0)
    <3>1. 0 - Len(chan[i]) = 0
      BY <1>3
    <3>2. QED
      BY <1>1, <1>3, <3>1 DEF TrackerOK
  <2>2. Latest(i) /\ Unread(i)
    BY <1>1, <1>2 DEF Latest, LatestOK, Unread, MissingOK
  <2>3. QED
    BY <1>1, <2>1, <2>2 DEF Tracked
<1>5. NoApply(posted[i]) /\ disk # Broken
  BY <1>1, <1>3, ConstantsAssumption DEF NoApply
<1>6. Orderly(i)
  BY <1>1, <1>2, <1>5 DEF Orderly, ThreadsOK, BaseOK, ShownOK
<1>7. QED
  BY <1>1, <1>4, <1>6 DEF Sound

LEMMA WriterKeeps ==
    ASSUME HInv, HTypeOK', NEW i \in Instances, WriterWorks(i) \/ WriterFinishes(i)
    PROVE  HInv'
<1>1. Sound(i)' /\ (disk' = disk \/ disk' # Missing)
  <2>1. CASE WriterWorks(i)
    <3>1. CASE Receive(i) \/ Debounced(i) \/ LockAndRead(i)
      BY <2>1, <3>1, ReceiveSound, DebouncedSound, LockAndReadSound
      DEF Receive, Debounced, LockAndRead
    <3>2. CASE Rename(i)
      BY <2>1, <3>2, RenameSound
    <3>3. QED
      BY <2>1, <3>1, <3>2 DEF WriterWorks
  <2>2. CASE WriterFinishes(i)
    BY <2>2, FinishesSound
  <2>3. QED
    BY <2>1, <2>2
<1>2. ASSUME NEW j \in Instances, j # i
      PROVE  Sound(j)'
  <2>1. HTypeOK /\ Sound(j)
    BY DEF HInv
  <2>2. WriterStep(i)
    BY DEF WriterStep, WriterWorks, WriterFinishes
  <2>3. /\ mem'[j] = mem[j] /\ base'[j] = base[j] /\ queued'[j] = queued[j] /\ chan'[j] = chan[j]
        /\ pend'[j] = pend[j] /\ wr'[j] = wr[j] /\ failed'[j] = failed[j]
    <3>1. CASE Receive(i) \/ Debounced(i)
      BY <1>2, <2>1, <3>1 DEF Receive, Debounced, HTypeOK, TypeOK
    <3>2. CASE LockAndRead(i) \/ Rename(i)
      BY <1>2, <2>1, <3>2 DEF LockAndRead, Rename, HTypeOK, TypeOK
    <3>3. CASE WriteAsGiven(i) \/ Remember(i)
      BY <1>2, <2>1, <3>3 DEF WriteAsGiven, Remember, HTypeOK, TypeOK
    <3>4. CASE WriteFails(i) \/ DirSyncFailed(i)
      BY <1>2, <2>1, <3>4 DEF WriteFails, DirSyncFailed, HTypeOK, TypeOK
    <3>5. QED
      BY <2>2, <3>1, <3>2, <3>3, <3>4 DEF WriterStep
  <2>4. posted'[j] = posted[j] /\ UNCHANGED <<done, wanted, locked, thr, overlap>>
    BY <1>2, FinishedTracker DEF WriterWorks, WriterFinishes
  <2>5. Same(j)
    BY <2>3, <2>4 DEF Same
  <2>6. QED
    BY <1>1, <2>1, <2>5, NotifyTells, OthersSound DEF WriterWorks, WriterFinishes
<1>3. QED
  BY <1>1, <1>2 DEF HInv

LEMMA HostsKeep ==
    ASSUME HInv, HTypeOK', NEW i \in Instances,
           \/ \E x \in Ids, v \in Values \cup {Absent} : Modify(i, x, v)
           \/ WatcherFires(i) \/ Gui(i) \/ \E t \in Slots : ReloadThread(i, t)
    PROVE  HInv'
<1>1. Sound(i)'
  BY ModifySound, WatcherSound, ApplySound, ReloadSound, SaveDoneSound,
     ThreadReadsSound, ThreadRemembersSound, ThreadPostsSound
  DEF Gui, ReloadThread
<1>2. ASSUME NEW j \in Instances, j # i
      PROVE  Sound(j)'
  <2>1. HTypeOK /\ Sound(j)
    BY DEF HInv
  <2>2. ASSUME NEW x \in Ids, NEW v \in Values \cup {Absent}, Modify(i, x, v)
        PROVE  Same(j) /\ disk' = disk /\ noticed'[j] = noticed[j]
    BY <1>2, <2>1, <2>2 DEF Modify, Edit, Same, HTypeOK, TypeOK, reloadVars
  <2>3. CASE WatcherFires(i)
    <3>1. posted'[j] = posted[j]
      BY <1>2, <2>1, <2>3, Events, EventPosted DEF WatcherFires
    <3>2. noticed'[j] = noticed[j]
      BY <1>2, <2>1, <2>3 DEF WatcherFires, HTypeOK
    <3>3. Same(j) /\ disk' = disk
      BY <2>3, <3>1 DEF WatcherFires, Same, vars
    <3>4. QED
      BY <2>1, <3>2, <3>3, OthersSound
  <2>4. CASE OnApply(i)
    <3>1. posted'[j] = posted[j]
      BY <1>2, <2>1, <2>4, EventTaken DEF OnApply
    <3>2. mem'[j] = mem[j] /\ wanted'[j] = wanted[j] /\ locked'[j] = locked[j]
      BY <1>2, <2>1, <2>4 DEF OnApply, HTypeOK, TypeOK
    <3>3. Same(j) /\ disk' = disk /\ noticed'[j] = noticed[j]
      BY <2>4, <3>1, <3>2 DEF OnApply, Same
    <3>4. QED
      BY <2>1, <3>3, OthersSound
  <2>5. ASSUME NEW t \in Slots, OnReload(i, t)
        PROVE  Same(j) /\ disk' = disk /\ noticed'[j] = noticed[j]
    <3>1. posted'[j] = posted[j]
      BY <1>2, <2>1, <2>5, EventTaken DEF OnReload
    <3>2. thr'[j] = thr[j] /\ overlap'[j] = overlap[j]
      BY <1>2, <2>1, <2>5, Spawned DEF OnReload
    <3>3. QED
      BY <2>5, <3>1, <3>2 DEF OnReload, Same, vars
  <2>6. ASSUME NEW t \in Slots, OnSaveDone(i, t)
        PROVE  Same(j) /\ disk' = disk /\ noticed'[j] = noticed[j]
    <3>1. posted'[j] = posted[j]
      BY <1>2, <2>1, <2>6, EventTaken DEF OnSaveDone
    <3>2. thr'[j] = thr[j] /\ overlap'[j] = overlap[j]
      <4>1. CASE Spawn(i, t)
        BY <1>2, <2>1, <4>1, Spawned
      <4>2. CASE UNCHANGED <<thr, overlap>>
        BY <4>2
      <4>3. QED
        BY <2>6, <4>1, <4>2 DEF OnSaveDone
    <3>3. done'[j] = done[j] /\ wanted'[j] = wanted[j]
      BY <1>2, <2>1, <2>6 DEF OnSaveDone, HTypeOK
    <3>4. QED
      BY <2>6, <3>1, <3>2, <3>3 DEF OnSaveDone, Same, vars
  <2>7. ASSUME NEW t \in Slots, ThreadReads(i, t)
        PROVE  Same(j) /\ disk' = disk /\ noticed'[j] = noticed[j]
    BY <1>2, <2>1, <2>7 DEF ThreadReads, Same, HTypeOK, vars
  <2>8. ASSUME NEW t \in Slots, ThreadRemembers(i, t)
        PROVE  Same(j) /\ disk' = disk /\ noticed'[j] = noticed[j]
    <3>1. thr'[j] = thr[j] /\ overlap'[j] = overlap[j] /\ base'[j] = base[j]
      BY <1>2, <2>1, <2>8 DEF ThreadRemembers, RememberRead, HTypeOK, TypeOK
    <3>2. QED
      BY <2>8, <3>1 DEF ThreadRemembers, Same
  <2>9. ASSUME NEW t \in Slots, ThreadPosts(i, t)
        PROVE  Same(j) /\ disk' = disk /\ noticed'[j] = noticed[j]
    <3>1. posted'[j] = posted[j] /\ thr'[j] = thr[j]
      BY <1>2, <2>1, <2>9 DEF ThreadPosts, HTypeOK
    <3>2. QED
      BY <2>9, <3>1 DEF ThreadPosts, Same, vars
  <2>10. QED
    BY <2>1, <2>2, <2>3, <2>4, <2>5, <2>6, <2>7, <2>8, <2>9, OthersSound DEF Gui, ReloadThread
<1>3. QED
  BY <1>1, <1>2 DEF HInv

LEMMA ExternalKeeps ==
    ASSUME HInv, HTypeOK', NEW file \in Docs \cup {Broken}, External(file)
    PROVE  HInv'
<1>1. disk' # Missing
  BY ConstantsAssumption DEF External
<1>2. ASSUME NEW j \in Instances PROVE Sound(j)'
  <2>1. HTypeOK /\ Sound(j) /\ Same(j)
    BY DEF HInv, External, Same
  <2>2. QED
    BY <1>1, <2>1, NotifyTells, OthersSound DEF External
<1>3. QED
  BY <1>2 DEF HInv

(***************************************************************************)
(* The invariant is inductive, for any instances, records, reload threads, *)
(* saves and changes by others.                                            *)
(***************************************************************************)
THEOREM HostsInductive == HSpec => []HInv
<1>1. HInv /\ [HNext]_allVars => HInv'
  <2> SUFFICES ASSUME HInv, [HNext]_allVars PROVE HInv'
    OBVIOUS
  <2>1. HTypeOK'
    BY HNextTypeOK DEF HInv
  <2>2. CASE UNCHANGED allVars
    <3>1. \A j \in Instances : Sound(j)'
      BY <2>2 DEF HInv, Sound, Tracked, Latest, Unread, Orderly, Pending, allVars, vars, reloadVars
    <3>2. QED
      BY <2>1, <3>1 DEF HInv
  <2>3. CASE HNext
    BY <2>1, <2>3, WriterKeeps, HostsKeep, ExternalKeeps DEF HNext
  <2>4. QED
    BY <2>2, <2>3
<1>2. QED
  BY <1>1, InitHInv, PTL DEF HSpec

LEMMA HostsAreTrue == HInv => HostsTrue
<1> SUFFICES ASSUME HInv PROVE HostsTrue
  OBVIOUS
<1>1. TrackerExact
  <2>1. ASSUME NEW i \in Instances
        PROVE  Pending(i) <=> ~Settled(i) \/ DoneWaits(i)
    <3>1. HTypeOK /\ TrackerOK(queued[i], chan[i], pend[i], wr[i], posted[i], done[i])
      BY DEF HInv, Sound, Tracked
    <3>2. /\ queued[i] \in Nat /\ chan[i] \in Seq(Job) /\ wr[i] \in Write
          /\ posted[i] \in Seq(Event) /\ done[i] \in Nat
      BY <3>1, Holdings
    <3>3. done[i] < queued[i] <=> \/ ~(chan[i] = <<>> /\ pend[i] = None /\ wr[i].st = "idle")
                                  \/ \E k \in 1 .. Len(posted[i]) : posted[i][k].kind = "done"
      BY <3>1, <3>2, TrackerTells, Zenon
    <3>4. QED
      BY <3>3 DEF Pending, Settled, DoneWaits
  <2>2. QED
    BY <2>1 DEF TrackerExact
<1>2. WantedHasATrigger
  BY DEF HInv, Sound, WantedHasATrigger
<1>3. QuietAgrees
  <2> SUFFICES ASSUME NEW i \in Instances, HostsQuiet(i), ~failed[i], ~overlap[i]
               PROVE  mem[i] = Content(disk) /\ (locked[i] <=> disk = Broken)
    BY DEF QuietAgrees
  <2>1. Sound(i) /\ HTypeOK
    BY DEF HInv
  <2>2. Len(posted[i]) = 0
    BY DEF HostsQuiet
  <2>3. ~Coming(noticed[i], posted[i], thr[i])
    BY <2>2 DEF HostsQuiet, Coming, Told
  <2>4. ~wanted[i]
    <3>1. ~DoneWaits(i)
      BY <2>2 DEF DoneWaits
    <3>2. ~Pending(i)
      BY <1>1, <3>1 DEF HostsQuiet, TrackerExact
    <3>3. QED
      BY <1>2, <3>2 DEF WantedHasATrigger
  <2>5. ShownOK(disk, mem[i], chan[i], pend[i], wr[i], failed[i], locked[i], posted[i], thr[i])
    BY <2>1, <2>3, <2>4 DEF Sound, Orderly
  <2>6. QED
    BY <2>2, <2>5 DEF ShownOK, LastApply, HostsQuiet, Settled
<1>4. QED
  BY <1>1, <1>2, <1>3 DEF HostsTrue

(***************************************************************************)
(* Whatever is edited, saved, reloaded and changed by others, in whatever  *)
(* order: saves are pending exactly when one is on its way, a reload that  *)
(* was put off has a save that starts it, and when all is quiet the hosts  *)
(* shown are those on disk and are locked exactly when it can not be read. *)
(***************************************************************************)
THEOREM HostsFollowTheirFile == HSpec => []HostsTrue
BY HostsInductive, HostsAreTrue, PTL

-----------------------------------------------------------------------------
(***************************************************************************)
(* The keychain: keychain.toml and the vault's entries.  Its slots are the *)
(* Places here, and what it has in memory of the file is keysInMemory.     *)
(***************************************************************************)
CONSTANTS Places, Secrets, NoValue, Lost, MaxRefs, MaxHandEdits

VARIABLES toml, vault, status, keysInMemory, lockedFile, op, nextRef, handEdits, expected

Keys == INSTANCE Keychain
    WITH Slots <- Places, Values <- Secrets, MaxEdits <- MaxHandEdits,
         file <- keysInMemory, edits <- handEdits

KeysBounds == MaxRefs \in Nat /\ MaxHandEdits \in Nat

NoRef == Keys!NoRef

\* What a place holds after a commit of what is in memory.
InMemory(s) == IF keysInMemory[s] = NoRef THEN NoValue ELSE vault[keysInMemory[s]]

\* No two places share an entry of the vault, and ids are used once.
OwnRefs(refs) == \A s, t \in Places : refs[s] # NoRef /\ refs[s] = refs[t] => s = t
Issued(refs) == \A s \in Places : refs[s] < nextRef

\* The file and the memory differ only where the user took a reference out of the
\* file, or where the program could not read one.
RefsFit ==
    /\ Issued(toml.refs) /\ Issued(keysInMemory)
    /\ OwnRefs(toml.refs) /\ OwnRefs(keysInMemory)
    /\ \A s, t \in Places :
         keysInMemory[s] # NoRef /\ keysInMemory[s] = toml.refs[t] => s = t
    /\ \A s \in Places : keysInMemory[s] # NoRef => toml.refs[s] \in {NoRef, keysInMemory[s]}

\* What a job is about to write, and what it is about to take out of the vault,
\* which neither the file nor the memory refers to.
JobFits ==
    /\ lockedFile => op.phase \in {"idle", "tidy"}
    /\ op.phase = "commit" =>
         /\ Issued(op.new) /\ OwnRefs(op.new)
         /\ \A s \in Places \ op.touched : op.new[s] = keysInMemory[s]
         /\ \A s \in Places : /\ op.new[s] \notin op.doomed
                              /\ toml.refs[s] \notin op.inserted
                              /\ keysInMemory[s] \notin op.inserted
    /\ op.phase = "forget" =>
         \A s \in Places : toml.refs[s] \notin op.doomed /\ keysInMemory[s] \notin op.doomed

\* Every place holds a value the user may expect, and would after a commit of what
\* is in memory.  Where the memory has no reference although the file has one, the
\* entry may be collected as garbage: the user may expect that too.
Expected ==
    \A s \in Places :
        /\ Keys!Holds(s) \in expected[s]
        /\ ~lockedFile =>
             /\ InMemory(s) \in expected[s]
             /\ keysInMemory[s] = NoRef /\ toml.refs[s] # NoRef => Lost \in expected[s]
        /\ s \in toml.mistyped => NoValue \in expected[s] /\ Lost \in expected[s]

KeysInv == Keys!TypeOK /\ RefsFit /\ JobFits /\ Expected

\* What the types say of one place.
LEMMA KeysTypes ==
    ASSUME KeysBounds, Keys!TypeOK
    PROVE  /\ NoRef = 0 /\ nextRef \in Nat \ {0} /\ NoRef \notin Keys!Refs
           /\ \A s \in Places : /\ toml.refs[s] \in Nat /\ keysInMemory[s] \in Nat
                                /\ op.new[s] \in Nat
                                /\ toml.refs[s] # NoRef => toml.refs[s] \in Keys!Refs
                                /\ keysInMemory[s] # NoRef => keysInMemory[s] \in Keys!Refs
                                /\ op.new[s] # NoRef => op.new[s] \in Keys!Refs
           /\ NoRef \notin op.doomed /\ NoRef \notin op.inserted
BY DEF KeysBounds, Keys!TypeOK, Keys!References, Keys!Refs, Keys!NoRef, NoRef

\* A new keychain is empty, and so is what is expected of it.
LEMMA KeysInit == ASSUME KeysBounds, Keys!Init PROVE KeysInv
<1>1. Keys!TypeOK
  <2> USE DEF KeysBounds, Keys!Init, Keys!References, Keys!Refs, Keys!NoRef
  <2>1. toml \in [refs : Keys!References, mistyped : SUBSET Places, readable : BOOLEAN]
    OBVIOUS
  <2>2. op \in [phase : {"idle", "commit", "forget", "tidy"}, new : Keys!References,
                doomed : SUBSET Keys!Refs, inserted : SUBSET Keys!Refs, touched : SUBSET Places]
    BY DEF Keys!IdleOp
  <2>3. vault \in [Keys!Refs -> Secrets \cup {Lost}] /\ keysInMemory \in Keys!References
    OBVIOUS
  <2>4. nextRef \in 1 .. MaxRefs + 1 /\ handEdits \in 0 .. MaxHandEdits
    OBVIOUS
  <2>5. expected \in [Places -> SUBSET (Secrets \cup {NoValue, Lost})]
    OBVIOUS
  <2>6. status \in {"missing", "locked", "unlocked"} /\ lockedFile \in BOOLEAN
    OBVIOUS
  <2> QED BY <2>1, <2>2, <2>3, <2>4, <2>5, <2>6 DEF Keys!TypeOK
<1>2. RefsFit /\ JobFits
  BY DEF KeysBounds, Keys!Init, RefsFit, JobFits, Issued, OwnRefs, NoRef, Keys!NoRef, Keys!IdleOp
<1>3. Expected
  BY DEF Keys!Init, Expected, Keys!Holds, InMemory, NoRef, Keys!NoRef
<1> QED BY <1>1, <1>2, <1>3 DEF KeysInv

\* Every step keeps the types.
LEMMA KeysTypeStep == ASSUME KeysBounds, KeysInv, [Keys!Next]_(Keys!vars) PROVE Keys!TypeOK'
<1> DEFINE KeysOps == [phase : {"idle", "commit", "forget", "tidy"}, new : Keys!References,
                       doomed : SUBSET Keys!Refs, inserted : SUBSET Keys!Refs,
                       touched : SUBSET Places]
<1> USE DEF KeysBounds, Keys!TypeOK, Keys!References, Keys!Refs, Keys!NoRef
<1>0. Keys!TypeOK
  BY DEF KeysInv
<1>1. ASSUME NEW s \in Places, NEW v \in Secrets, Keys!SetSecret(s, v) PROVE Keys!TypeOK'
  BY <1>0, <1>1 DEF Keys!SetSecret, Keys!Free
<1>2. ASSUME NEW S \in SUBSET Places, Keys!ClearSecrets(S) PROVE Keys!TypeOK'
  BY <1>0, <1>2 DEF Keys!ClearSecrets, Keys!Free, Keys!secret_ids, Keys!Restrict, Keys!Range
<1>3. CASE Keys!SaveOther
  BY <1>0, <1>3 DEF Keys!SaveOther, Keys!Free, Keys!IdleOp
<1>4. CASE Keys!ResetVault
  BY <1>0, <1>4 DEF Keys!ResetVault, Keys!Free, Keys!IdleOp
<1>5. CASE Keys!Reload
  BY <1>0, <1>5 DEF Keys!Reload, Keys!Loaded, Keys!IdleOp
<1>6. CASE Keys!Unlock
  BY <1>0, <1>6 DEF Keys!Unlock, Keys!IdleOp
<1>14. CASE Keys!Lock
  BY <1>0, <1>14 DEF Keys!Lock
<1>7. CASE Keys!Commit
  <2>1. op' \in KeysOps
    BY <1>0, <1>7 DEF Keys!Commit
  <2>2. toml' \in [refs : Keys!References, mistyped : SUBSET Places, readable : BOOLEAN]
    BY <1>0, <1>7 DEF Keys!Commit
  <2>3. expected' \in [Places -> SUBSET (Secrets \cup {NoValue, Lost})]
    BY <1>0, <1>7 DEF Keys!Commit
  <2> QED
    BY <1>0, <1>7, <2>1, <2>2, <2>3 DEF Keys!Commit
<1>8. CASE Keys!CommitFails
  <2>1. op' \in KeysOps
    BY <1>0, <1>8 DEF Keys!CommitFails
  <2> QED
    BY <1>0, <1>8, <2>1 DEF Keys!CommitFails
<1>9. CASE Keys!Forget
  <2>1. op' \in KeysOps
    BY <1>0, <1>9 DEF Keys!Forget
  <2>2. vault' \in [Keys!Refs -> Secrets \cup {Lost}]
    BY <1>0, <1>9 DEF Keys!Forget, Keys!Without
  <2> QED
    BY <1>0, <1>9, <2>1, <2>2 DEF Keys!Forget
<1>10. CASE Keys!Tidy
  BY <1>0, <1>10 DEF Keys!Tidy, Keys!Without, Keys!IdleOp
<1>11. CASE Keys!Restart
  BY <1>0, <1>11 DEF Keys!Restart, Keys!Loaded, Keys!IdleOp
<1>12. CASE Keys!EditByHand
  <2>1. toml' \in [refs : Keys!References, mistyped : SUBSET Places, readable : BOOLEAN]
    <3>1. CASE \E s \in Places : toml' = [toml EXCEPT !.refs[s] = Keys!NoRef]
      BY <1>0, <3>1
    <3>2. CASE \E s \in Places : toml' = [toml EXCEPT !.mistyped = @ \cup {s}]
      BY <1>0, <3>2
    <3>3. CASE \E readable \in BOOLEAN :
                 toml' = [toml EXCEPT !.readable = readable, !.mistyped = {}]
      BY <1>0, <3>3
    <3> QED BY <1>12, <3>1, <3>2, <3>3 DEF Keys!EditByHand
  <2>2. expected' \in [Places -> SUBSET (Secrets \cup {NoValue, Lost})]
    <3>1. CASE \E s \in Places : expected' = [expected EXCEPT ![s] = @ \cup {NoValue}]
      BY <1>0, <3>1
    <3>2. CASE \E s \in Places : expected' = [expected EXCEPT ![s] = @ \cup {NoValue, Lost}]
      BY <1>0, <3>2
    <3>3. CASE UNCHANGED expected
      BY <1>0, <3>3
    <3> HIDE DEF Keys!TypeOK
    <3> QED BY <1>12, <3>1, <3>2, <3>3 DEF Keys!EditByHand
  <2>3. /\ handEdits' = handEdits + 1 /\ handEdits < MaxHandEdits
        /\ UNCHANGED <<vault, status, keysInMemory, lockedFile, op, nextRef>>
    <3> HIDE DEF Keys!TypeOK
    <3> QED BY <1>12 DEF Keys!EditByHand
  <2> QED
    BY <1>0, <2>1, <2>2, <2>3
<1>13. CASE UNCHANGED Keys!vars
  BY <1>0, <1>13 DEF Keys!vars
<1> HIDE DEF KeysBounds, Keys!TypeOK, Keys!References, Keys!Refs, Keys!NoRef
<1> QED
  BY <1>1, <1>2, <1>3, <1>4, <1>5, <1>6, <1>7, <1>8, <1>9, <1>10, <1>11, <1>12, <1>13,
     <1>14 DEF Keys!Next

\* A secret typed goes into the vault, in an entry no other place refers to.
LEMMA KeysSetSecret ==
    ASSUME KeysBounds, KeysInv, Keys!TypeOK', NEW slot \in Places, NEW value \in Secrets,
           Keys!SetSecret(slot, value)
    PROVE  KeysInv'
<1> DEFINE ref == IF keysInMemory[slot] = NoRef THEN nextRef ELSE keysInMemory[slot]
<1>1. /\ ~lockedFile /\ op.phase = "idle" /\ UNCHANGED <<toml, keysInMemory, lockedFile>>
      /\ vault' = [vault EXCEPT ![ref] = value]
      /\ op'.phase = "commit" /\ op'.doomed = {} /\ op'.touched = {slot}
      /\ op'.inserted = {ref} \ {keysInMemory[slot]}
      /\ op'.new = [keysInMemory EXCEPT ![slot] = ref]
      /\ expected' = [expected EXCEPT ![slot] = @ \cup {value}]
      /\ ref < nextRef' /\ nextRef <= nextRef' /\ nextRef' \in Nat
  BY DEF Keys!SetSecret, Keys!Free, NoRef, KeysInv, RefsFit, Issued, Keys!TypeOK, KeysBounds
<1>2. Keys!TypeOK /\ RefsFit /\ JobFits /\ Expected
  BY DEF KeysInv
<1>3. /\ nextRef \in Nat \ {0} /\ NoRef = 0
      /\ \A s \in Places : toml.refs[s] \in Nat /\ keysInMemory[s] \in Nat
  BY <1>2, KeysTypes
<1>4. /\ keysInMemory \in [Places -> Nat] /\ vault \in [Keys!Refs -> Secrets \cup {Lost}]
      /\ expected \in [Places -> SUBSET (Secrets \cup {NoValue, Lost})]
  BY <1>2, KeysBounds DEF Keys!TypeOK, Keys!References, Keys!Refs, Keys!NoRef, KeysBounds
<1>5. \A s \in Places : /\ toml.refs[s] = ref /\ ref # NoRef => s = slot
                        /\ keysInMemory[s] = ref /\ ref # NoRef => s = slot
  BY <1>2, <1>3 DEF RefsFit, Issued, OwnRefs
<1>6. ref # NoRef /\ ref \in Nat
  BY <1>3
<1>7. RefsFit'
  BY <1>1, <1>2, <1>3 DEF RefsFit, Issued, OwnRefs
<1>8. JobFits'
  <2>1. \A s \in Places : op'.new[s] = IF s = slot THEN ref ELSE keysInMemory[s]
    BY <1>1, <1>4
  <2>2. Issued(op.new)' /\ OwnRefs(op.new)'
    BY <1>1, <1>2, <1>3, <1>5, <1>6, <2>1 DEF RefsFit, Issued, OwnRefs
  <2>3. \A s \in Places : toml.refs[s] \notin op'.inserted /\ keysInMemory[s] \notin op'.inserted
    BY <1>1, <1>2, <1>3, <1>5 DEF RefsFit, Issued
  <2> QED
    BY <1>1, <2>1, <2>2, <2>3 DEF JobFits
<1>9. Expected'
  <2>1. \A s \in Places : expected[s] \subseteq expected'[s] /\ value \in expected'[slot]
    BY <1>1, <1>4
  <2>2. \A r \in Keys!Refs : vault'[r] = IF r = ref THEN value ELSE vault[r]
    BY <1>1, <1>4
  <2>3. \A s \in Places : /\ toml.refs[s] # NoRef => toml.refs[s] \in Keys!Refs
                          /\ keysInMemory[s] # NoRef => keysInMemory[s] \in Keys!Refs
    BY <1>2, KeysTypes
  <2>4. ASSUME NEW s \in Places PROVE Keys!Holds(s)' \in expected'[s]
    BY <1>1, <1>2, <1>5, <1>6, <2>1, <2>2, <2>3 DEF Expected, Keys!Holds, NoRef
  <2>5. ASSUME NEW s \in Places PROVE InMemory(s)' \in expected'[s]
    BY <1>1, <1>2, <1>5, <1>6, <2>1, <2>2, <2>3 DEF Expected, InMemory
  <2> QED
    BY <1>1, <1>2, <2>1, <2>4, <2>5 DEF Expected
<1> QED BY <1>7, <1>8, <1>9 DEF KeysInv

\* A job that begins with keychain.toml: a secret is cleared, or something else
\* of an entry is saved.
LEMMA KeysCommitBegins ==
    ASSUME KeysBounds, KeysInv, Keys!TypeOK',
           (\E S \in SUBSET Places : Keys!ClearSecrets(S)) \/ Keys!SaveOther
    PROVE  KeysInv'
<1>1. PICK S \in SUBSET Places :
        /\ ~lockedFile /\ UNCHANGED <<toml, keysInMemory, lockedFile, vault, nextRef>>
        /\ op'.phase = "commit" /\ op'.inserted = {} /\ op'.touched = S
        /\ op'.doomed = {keysInMemory[s] : s \in S} \ {NoRef}
        /\ \A s \in Places : op'.new[s] = IF s \in S THEN NoRef ELSE keysInMemory[s]
        /\ \A s \in Places : expected[s] \subseteq expected'[s]
  <2>1. ASSUME NEW S \in SUBSET Places, Keys!ClearSecrets(S)
        PROVE  /\ op'.doomed = {keysInMemory[s] : s \in S} \ {NoRef}
               /\ \A s \in Places : op'.new[s] = IF s \in S THEN NoRef ELSE keysInMemory[s]
               /\ \A s \in Places : expected[s] \subseteq expected'[s]
    BY <2>1 DEF Keys!ClearSecrets, Keys!secret_ids, Keys!Restrict, Keys!Range, NoRef
  <2>2. CASE Keys!SaveOther
    <3>1. op' = [phase |-> "commit", new |-> keysInMemory, doomed |-> {}, inserted |-> {},
                 touched |-> {}]
      BY <2>2 DEF Keys!SaveOther, Keys!IdleOp
    <3>2. {keysInMemory[s] : s \in {}} = {}
      OBVIOUS
    <3>3. /\ ~lockedFile
          /\ UNCHANGED <<toml, keysInMemory, lockedFile, vault, nextRef, expected>>
      BY <2>2 DEF Keys!SaveOther
    <3> QED
      BY <3>1, <3>2, <3>3
  <2> QED
    BY <2>1, <2>2 DEF Keys!ClearSecrets
<1>2. Keys!TypeOK /\ RefsFit /\ JobFits /\ Expected
  BY DEF KeysInv
<1>3. RefsFit' /\ Expected'
  BY <1>1, <1>2 DEF RefsFit, Issued, OwnRefs, Expected, Keys!Holds, InMemory
<1>4. JobFits'
  <2>1. NoRef = 0 /\ nextRef \in Nat \ {0}
    BY <1>2, KeysTypes
  <2>2. Issued(op.new)' /\ OwnRefs(op.new)'
    BY <1>1, <1>2, <2>1 DEF RefsFit, Issued, OwnRefs
  <2>3. \A s \in Places : op'.new[s] \notin op'.doomed
    BY <1>1, <1>2 DEF RefsFit, OwnRefs
  <2> QED
    BY <1>1, <2>2, <2>3 DEF JobFits
<1> QED BY <1>3, <1>4 DEF KeysInv

\* The vault is reset, and the references to it go next.
LEMMA KeysReset == ASSUME KeysBounds, KeysInv, Keys!TypeOK', Keys!ResetVault PROVE KeysInv'
<1>1. /\ UNCHANGED <<toml, keysInMemory, lockedFile, nextRef>>
      /\ vault' = [r \in Keys!Refs |-> Lost]
      /\ expected' = [s \in Places |-> {NoValue, Lost}]
      /\ op' = IF lockedFile THEN Keys!IdleOp
               ELSE [Keys!IdleOp EXCEPT !.phase = "commit", !.touched = Places]
  BY DEF Keys!ResetVault
<1>2. Keys!TypeOK /\ RefsFit
  BY DEF KeysInv
<1>3. RefsFit'
  BY <1>1, <1>2 DEF RefsFit, Issued, OwnRefs
<1>4. JobFits'
  <2>1. op' = [phase |-> IF lockedFile THEN "idle" ELSE "commit", new |-> [s \in Places |-> NoRef],
               doomed |-> {}, inserted |-> {}, touched |-> IF lockedFile THEN {} ELSE Places]
    BY <1>1 DEF Keys!IdleOp, NoRef
  <2>2. /\ op'.phase = IF lockedFile THEN "idle" ELSE "commit"
        /\ op'.doomed = {} /\ op'.inserted = {} /\ (~lockedFile => op'.touched = Places)
        /\ \A s \in Places : op'.new[s] = NoRef
    BY <2>1
  <2>3. NoRef = 0 /\ nextRef \in Nat \ {0}
    BY <1>2, KeysTypes
  <2> QED
    BY <1>1, <2>2, <2>3 DEF JobFits, Issued, OwnRefs
<1>5. Expected'
  <2>1. \A s \in Places : /\ toml.refs[s] # NoRef => toml.refs[s] \in Keys!Refs
                          /\ keysInMemory[s] # NoRef => keysInMemory[s] \in Keys!Refs
    BY <1>2, KeysTypes
  <2> QED
    BY <1>1, <2>1 DEF Expected, Keys!Holds, InMemory, NoRef
<1> QED BY <1>3, <1>4, <1>5 DEF KeysInv

\* keychain.toml is read: by a reload, or by the program that starts again.
LEMMA KeysRead ==
    ASSUME KeysBounds, KeysInv, Keys!TypeOK', Keys!Reload \/ Keys!Restart
    PROVE  KeysInv'
<1>1. /\ UNCHANGED <<toml, vault, nextRef, expected>> /\ lockedFile' = ~toml.readable
      /\ keysInMemory' = Keys!Loaded(toml) /\ op'.phase \in {"idle", "tidy"}
  BY DEF Keys!Reload, Keys!Restart, Keys!IdleOp
<1>2. Keys!TypeOK /\ RefsFit /\ Expected
  BY DEF KeysInv
<1>3. NoRef = 0 /\ nextRef \in Nat \ {0}
  BY <1>2, KeysTypes
<1>4. \A s \in Places :
        keysInMemory'[s] = IF toml.readable /\ s \notin toml.mistyped THEN toml.refs[s] ELSE NoRef
  BY <1>1 DEF Keys!Loaded, NoRef
<1>5. RefsFit'
  BY <1>1, <1>2, <1>3, <1>4 DEF RefsFit, Issued, OwnRefs
<1>6. JobFits'
  BY <1>1 DEF JobFits
<1>7. Expected'
  BY <1>1, <1>2, <1>4 DEF Expected, Keys!Holds, InMemory, NoRef
<1> QED BY <1>5, <1>6, <1>7 DEF KeysInv

\* keychain.toml is written.
LEMMA KeysCommit == ASSUME KeysBounds, KeysInv, Keys!TypeOK', Keys!Commit PROVE KeysInv'
<1>1. /\ op.phase = "commit" /\ UNCHANGED <<vault, lockedFile, nextRef>>
      /\ toml'.refs = op.new /\ toml'.mistyped = {} /\ keysInMemory' = op.new
      /\ expected' = [s \in Places |->
                       IF s \notin op.touched THEN expected[s]
                       ELSE {IF op.new[s] = NoRef THEN NoValue ELSE vault[op.new[s]]}]
  BY DEF Keys!Commit, NoRef
<1>2. op'.phase \in {"forget", "tidy"} /\ op'.doomed = op.doomed
  BY DEF Keys!Commit, KeysInv, Keys!TypeOK
<1>3. RefsFit /\ JobFits /\ Expected
  BY DEF KeysInv
<1>4. RefsFit' /\ JobFits'
  BY <1>1, <1>2, <1>3 DEF RefsFit, JobFits, Issued, OwnRefs
<1>5. Expected'
  BY <1>1, <1>3 DEF Expected, JobFits, Keys!Holds, InMemory, NoRef
<1> QED BY <1>4, <1>5 DEF KeysInv

\* keychain.toml could not be written.
LEMMA KeysCommitFails ==
    ASSUME KeysBounds, KeysInv, Keys!TypeOK', Keys!CommitFails PROVE KeysInv'
<1>1. /\ op.phase = "commit" /\ op'.phase \in {"forget", "tidy"} /\ op'.doomed = op.inserted
      /\ UNCHANGED <<toml, vault, keysInMemory, lockedFile, nextRef, expected>>
  BY DEF Keys!CommitFails, KeysInv, Keys!TypeOK
<1> QED
  BY <1>1 DEF KeysInv, RefsFit, JobFits, Issued, OwnRefs, Expected, Keys!Holds, InMemory

\* Entries are taken out of the vault: the secrets of a job, or the garbage.
LEMMA KeysForget ==
    ASSUME KeysBounds, KeysInv, Keys!TypeOK', Keys!Forget \/ Keys!Tidy
    PROVE  KeysInv'
<1> DEFINE garbage == Keys!Refs \ Keys!secret_ids(keysInMemory)
           Taken(gone) ==
             /\ vault' = Keys!Without(vault, gone) \/ (gone = {} /\ UNCHANGED vault)
             /\ \/ op.phase = "forget" /\ gone = op.doomed
                \/ ~lockedFile /\ gone = garbage
                \/ gone = {}
<1>1. PICK gone : Taken(gone)
  <2>1. CASE Keys!Forget
    <3>1. op.phase = "forget" /\ vault' \in {vault, Keys!Without(vault, op.doomed)}
      BY <2>1 DEF Keys!Forget
    <3>2. Taken({}) \/ Taken(op.doomed)
      BY <3>1
    <3> QED BY <3>2
  <2>2. CASE Keys!Tidy
    <3>1. \/ ~lockedFile /\ vault' = Keys!Without(vault, garbage)
          \/ UNCHANGED vault
      BY <2>2 DEF Keys!Tidy
    <3>2. Taken({}) \/ Taken(garbage)
      BY <3>1
    <3> QED BY <3>2
  <2> QED BY <2>1, <2>2
<1>2. /\ UNCHANGED <<toml, keysInMemory, lockedFile, nextRef, expected>>
      /\ op'.phase \in {"idle", "tidy"}
  BY DEF Keys!Forget, Keys!Tidy, Keys!IdleOp, KeysInv, Keys!TypeOK
<1>3. Keys!TypeOK /\ RefsFit /\ JobFits /\ Expected
  BY DEF KeysInv
<1>4. RefsFit' /\ JobFits'
  BY <1>2, <1>3 DEF RefsFit, JobFits, Issued, OwnRefs
<1>5. /\ keysInMemory \in [Places -> Nat]
      /\ \A s \in Places : /\ toml.refs[s] # NoRef => toml.refs[s] \in Keys!Refs
                           /\ keysInMemory[s] # NoRef => keysInMemory[s] \in Keys!Refs
  <2>1. keysInMemory \in [Places -> Nat]
    BY <1>3 DEF Keys!TypeOK, Keys!References, Keys!Refs, Keys!NoRef, KeysBounds
  <2> QED
    BY <1>3, <2>1, KeysTypes
<1>6. \A r \in Keys!Refs : vault'[r] = IF r \in gone THEN Lost ELSE vault[r]
  BY <1>1, <1>3 DEF Keys!Without, Keys!TypeOK
<1>7. \A s \in Places : keysInMemory[s] \in Keys!Refs => keysInMemory[s] \notin gone
  <2>1. \A s \in Places : keysInMemory[s] \in Keys!Refs =>
                            keysInMemory[s] \in Keys!secret_ids(keysInMemory)
    <3>1. NoRef \notin Keys!Refs /\ DOMAIN keysInMemory = Places
      BY <1>3, <1>5, KeysTypes
    <3> QED BY <3>1 DEF Keys!secret_ids, Keys!Range, NoRef
  <2> QED BY <1>1, <1>3, <2>1 DEF JobFits
<1>8. ASSUME NEW s \in Places, toml.refs[s] \in gone, toml.refs[s] # NoRef
      PROVE  ~lockedFile /\ keysInMemory[s] = NoRef
  BY <1>1, <1>3, <1>5, <1>7, <1>8 DEF JobFits, RefsFit
<1>9. Expected'
  <2>1. ASSUME NEW s \in Places PROVE Keys!Holds(s)' \in expected[s]
    BY <1>2, <1>3, <1>5, <1>6, <1>8 DEF Expected, Keys!Holds, NoRef
  <2>2. ASSUME NEW s \in Places PROVE InMemory(s)' = InMemory(s)
    BY <1>2, <1>5, <1>6, <1>7 DEF InMemory
  <2> QED
    BY <1>2, <1>3, <2>1, <2>2 DEF Expected
<1> QED BY <1>4, <1>9 DEF KeysInv

\* The user edits keychain.toml.
LEMMA KeysByHand == ASSUME KeysBounds, KeysInv, Keys!TypeOK', Keys!EditByHand PROVE KeysInv'
<1>1. UNCHANGED <<vault, keysInMemory, lockedFile, op, nextRef>>
  BY DEF Keys!EditByHand
<1>2. Keys!TypeOK /\ RefsFit /\ JobFits /\ Expected
  BY DEF KeysInv
<1>3. /\ \A s \in Places : toml'.refs[s] = toml.refs[s] \/ toml'.refs[s] = NoRef
      /\ \A s \in Places : expected[s] \subseteq expected'[s]
      /\ \A s \in Places : toml'.refs[s] # toml.refs[s] => NoValue \in expected'[s]
      /\ \A s \in toml'.mistyped :
           s \in toml.mistyped \/ {NoValue, Lost} \subseteq expected'[s]
  <2>0. /\ toml \in [refs : [Places -> Nat], mistyped : SUBSET Places, readable : BOOLEAN]
        /\ toml.refs \in [Places -> Nat]
        /\ expected \in [Places -> SUBSET (Secrets \cup {NoValue, Lost})]
    BY <1>2 DEF Keys!TypeOK, Keys!References, Keys!Refs, Keys!NoRef, KeysBounds
  <2>1. CASE \E s \in Places : /\ toml' = [toml EXCEPT !.refs[s] = Keys!NoRef]
                               /\ expected' = [expected EXCEPT ![s] = @ \cup {NoValue}]
    <3>1. PICK p \in Places : /\ toml' = [toml EXCEPT !.refs[p] = Keys!NoRef]
                              /\ expected' = [expected EXCEPT ![p] = @ \cup {NoValue}]
      BY <2>1
    <3>2. toml'.mistyped = toml.mistyped /\ toml'.refs = [toml.refs EXCEPT ![p] = NoRef]
      BY <2>0, <3>1 DEF NoRef
    <3>3. \A s \in Places : /\ expected[s] \subseteq expected'[s]
                            /\ s # p => toml'.refs[s] = toml.refs[s]
      BY <2>0, <3>1, <3>2
    <3>4. toml'.refs[p] \in {toml.refs[p], NoRef}
      BY <2>0, <3>2
    <3>5. NoValue \in expected'[p] /\ (p \in toml.mistyped \/ p \notin toml'.mistyped
                                      \/ Lost \in expected'[p])
      BY <2>0, <3>1, <3>2
    <3>6. toml'.mistyped \subseteq toml.mistyped \cup {p}
      BY <3>2
    <3> QED BY <3>3, <3>4, <3>5, <3>6
  <2>2. CASE \E s \in Places : /\ toml' = [toml EXCEPT !.mistyped = @ \cup {s}]
                               /\ expected' = [expected EXCEPT ![s] = @ \cup {NoValue, Lost}]
    <3>1. PICK p \in Places :
            /\ toml' = [toml EXCEPT !.mistyped = @ \cup {p}]
            /\ expected' = [expected EXCEPT ![p] = @ \cup {NoValue, Lost}]
      BY <2>2
    <3>2. toml'.mistyped = toml.mistyped \cup {p} /\ toml'.refs = toml.refs
      BY <2>0, <3>1
    <3>3. \A s \in Places : /\ expected[s] \subseteq expected'[s]
                            /\ s # p => toml'.refs[s] = toml.refs[s]
      BY <2>0, <3>1, <3>2
    <3>4. toml'.refs[p] \in {toml.refs[p], NoRef}
      BY <2>0, <3>2
    <3>5. NoValue \in expected'[p] /\ (p \in toml.mistyped \/ p \notin toml'.mistyped
                                      \/ Lost \in expected'[p])
      BY <2>0, <3>1, <3>2
    <3>6. toml'.mistyped \subseteq toml.mistyped \cup {p}
      BY <3>2
    <3> QED BY <3>3, <3>4, <3>5, <3>6
  <2>3. CASE /\ \E readable \in BOOLEAN :
                   toml' = [toml EXCEPT !.readable = readable, !.mistyped = {}]
             /\ UNCHANGED expected
    BY <2>0, <2>3
  <2> QED
    BY <2>1, <2>2, <2>3 DEF Keys!EditByHand
<1>4. NoRef = 0 /\ nextRef \in Nat \ {0} /\ NoRef \notin op.inserted /\ NoRef \notin op.doomed
  BY <1>2, KeysTypes
<1>5. RefsFit'
  BY <1>1, <1>2, <1>3, <1>4 DEF RefsFit, Issued, OwnRefs
<1>6. JobFits'
  BY <1>1, <1>2, <1>3, <1>4 DEF JobFits, Issued, OwnRefs
<1>7. Expected'
  <2>1. ASSUME NEW s \in Places PROVE Keys!Holds(s)' \in expected'[s]
    BY <1>1, <1>2, <1>3 DEF Expected, Keys!Holds, NoRef
  <2> QED
    BY <1>1, <1>2, <1>3, <2>1, <1>4 DEF Expected, InMemory
<1> QED BY <1>5, <1>6, <1>7 DEF KeysInv

\* Every step of a job, of the user and of a restart keeps the invariant.
LEMMA KeysInvStep == ASSUME KeysBounds, KeysInv, [Keys!Next]_(Keys!vars) PROVE KeysInv'
<1>0. Keys!TypeOK'
  BY KeysTypeStep
<1>1. CASE Keys!Unlock \/ Keys!Lock
  <2>1. /\ UNCHANGED <<toml, vault, keysInMemory, lockedFile, nextRef, expected>>
        /\ op' = op \/ op'.phase = "tidy"
    BY <1>1 DEF Keys!Unlock, Keys!Lock, Keys!IdleOp
  <2> QED
    BY <1>0, <2>1 DEF KeysInv, RefsFit, JobFits, Issued, OwnRefs, Expected, Keys!Holds, InMemory
<1>2. CASE UNCHANGED Keys!vars
  BY <1>0, <1>2 DEF Keys!vars, KeysInv, RefsFit, JobFits, Issued, OwnRefs, Expected,
     Keys!Holds, InMemory
<1> QED
  BY <1>0, <1>1, <1>2, KeysSetSecret, KeysCommitBegins, KeysReset, KeysRead, KeysCommit,
     KeysCommitFails, KeysForget, KeysByHand DEF Keys!Next

\* In any sequence of jobs that fail anywhere, edits by hand and restarts, a place of
\* keychain.toml holds what its last save put there or what a failed one may have.
THEOREM SecretsAreThere == ASSUME KeysBounds PROVE Keys!Spec => []Keys!SecretsStay
<1>1. Keys!Init => KeysInv
  BY KeysInit
<1>2. KeysInv /\ [Keys!Next]_(Keys!vars) => KeysInv'
  BY KeysInvStep
<1>3. KeysInv => Keys!SecretsStay
  BY DEF KeysInv, Expected, Keys!SecretsStay
<1> QED BY <1>1, <1>2, <1>3, PTL DEF Keys!Spec

\* While keychain.toml cannot be read, only the user writes it, and only a reset
\* takes anything from the vault.
THEOREM UnreadIsKept ==
    ASSUME KeysBounds PROVE Keys!Spec => [][Keys!UnreadKept]_(Keys!vars)
<1>1. Keys!Init => KeysInv
  BY KeysInit
<1>2. KeysInv /\ [Keys!Next]_(Keys!vars) => KeysInv'
  BY KeysInvStep
<1>3. KeysInv /\ [Keys!Next]_(Keys!vars) => [Keys!UnreadKept]_(Keys!vars)
  <2> SUFFICES ASSUME KeysInv, Keys!Next, lockedFile, lockedFile'
               PROVE  /\ toml' # toml => handEdits' # handEdits
                      /\ vault' # vault => status' = "missing"
    BY DEF Keys!UnreadKept
  <2>1. op.phase \in {"idle", "tidy"} /\ handEdits \in Nat
    BY DEF KeysInv, JobFits, Keys!TypeOK, KeysBounds
  <2>2. CASE Keys!ResetVault
    BY <2>2 DEF Keys!ResetVault
  <2>3. CASE Keys!Tidy
    BY <2>3 DEF Keys!Tidy
  <2>4. CASE Keys!EditByHand
    <3>1. handEdits' = handEdits + 1 /\ vault' = vault
      BY <2>4 DEF Keys!EditByHand
    <3> QED BY <2>1, <3>1
  <2>5. CASE Keys!Reload \/ Keys!Unlock \/ Keys!Lock \/ Keys!Restart
    BY <2>5 DEF Keys!Reload, Keys!Unlock, Keys!Lock, Keys!Restart
  <2>6. ASSUME NEW s \in Places, NEW v \in Secrets PROVE ~Keys!SetSecret(s, v)
    BY DEF Keys!SetSecret
  <2>7. ~(\E S \in SUBSET Places : Keys!ClearSecrets(S)) /\ ~Keys!SaveOther
    BY DEF Keys!ClearSecrets, Keys!SaveOther
  <2>8. ~(Keys!Commit \/ Keys!CommitFails \/ Keys!Forget)
    BY <2>1 DEF Keys!Commit, Keys!CommitFails, Keys!Forget
  <2> QED
    BY <2>2, <2>3, <2>4, <2>5, <2>6, <2>7, <2>8 DEF Keys!Next
<1> QED BY <1>1, <1>2, <1>3, PTL DEF Keys!Spec
=============================================================================
