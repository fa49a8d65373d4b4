---------------------------- MODULE ConfigReload ----------------------------
(***************************************************************************)
(* The AppSettings singleton (opensesh-app/src/bridge/settings.rs) over    *)
(* the settings writer of SettingsSync: config.toml is saved by the user's *)
(* changes and reloaded when somebody else edits it.  Unlike the hosts, a  *)
(* reload is applied at once, unless OwnWrites takes what was read for an  *)
(* echo of a save.  Here a record is a settings key.  The proofs that      *)
(* OwnWrites is exact and that the settings follow the file are at the     *)
(* end.                                                                    *)
(*                                                                         *)
(* A file of a newer schema is protected like an unreadable one and is not *)
(* modelled apart.                                                         *)
(***************************************************************************)
EXTENDS SettingsSync, SequenceTheorems, TLAPS

CONSTANTS
    MaxPending,   \* OwnWrites::MAX_PENDING
    MaxExternal   \* bound: changes made by somebody else

ASSUME ConfigAssumption == MaxPending \in Nat \ {0} /\ MaxExternal \in Nat

\* What somebody else may leave in the file.
Edits == [Ids -> Values] \cup {Broken, Missing}

\* The owner of every key: one app on its own config.toml.
SoleOwner == [x \in Ids |-> CHOOSE i \in Instances : TRUE]

VARIABLES
    own,     \* OwnWrites: pending (oldest first) and last_written
    prot,    \* Protection::Unreadable: the file is never written
    dirty,   \* the watcher has an event it has not handled yet
    rd,      \* the watcher thread: idle, or what it has read
    gui,     \* closures queued on the GUI thread
    changes, \* changes made by somebody else so far
    raced,   \* history: a change came before an earlier one had settled: one by
             \* somebody else over a save, or one here over a write
    restored \* history: somebody else put back what was written last from here

cfgVars == <<own, prot, dirty, rd, gui, changes, raced, restored>>
allVars == <<vars, cfgVars>>

Resting == [st |-> "idle", text |-> Missing]

CInit ==
    /\ Init
    /\ own = [i \in Instances |-> [pending |-> <<>>, last |-> None]]
    /\ prot = [i \in Instances |-> FALSE]
    /\ dirty = [i \in Instances |-> FALSE]
    /\ rd = [i \in Instances |-> Resting]
    /\ gui = [i \in Instances |-> <<>>]
    /\ changes = 0
    /\ raced = FALSE
    /\ restored = FALSE

-----------------------------------------------------------------------------
\* No write is under way, and none is still being noticed or reported.
Calm(i) ==
    wr[i].st = "idle" /\ gui[i] = <<>> /\ ~dirty[i] /\ rd[i].st = "idle"

\* Nothing is on its way to or from the disk.
Quiet(i) == Settled(i) /\ Calm(i)

\* OwnWrites::queued: at the bound the oldest is forgotten.
Queued(q, job) ==
    Append(IF Len(q) = MaxPending THEN Tail(q) ELSE q, job)

\* Mutant: only the write that finished is settled, not the ones it replaced.
SettledOne(q, seq) == SelectSeq(q, LAMBDA job : job.seq # seq)

\* Mutant: finished writes stay pending.
NeverSettled(q, seq) == q

\* OwnWrites::settled: write seq finished, and with it every older one; they are
\* taken off the front.
Leaves(q, seq, n) ==
    /\ \A j \in 1..n : q[j].seq <= seq
    /\ n < Len(q) => q[n + 1].seq > seq
SettledUpTo(q, seq) ==
    SubSeq(q, 1 + (CHOOSE n \in 0..Len(q) : Leaves(q, seq, n)), Len(q))

\* OwnWrites::is_echo
IsEcho(i, text) ==
    \/ own[i].last = text
    \/ \E j \in 1..Len(own[i].pending) : own[i].pending[j].doc = text

\* AppSettings::change and save: the change is kept in memory, and saved unless
\* the file is protected.
Change(i, x, v) ==
    /\ ~prot[i]
    /\ Edit(i, x, v)
    /\ raced' = (raced \/ ~Calm(i))
    /\ own' = [own EXCEPT ![i].pending =
                 Queued(@, [doc |-> mem'[i], seq |-> queued'[i]])]
    /\ UNCHANGED <<prot, dirty, rd, gui, changes, restored>>

ChangeBlocked(i, x, v) ==
    /\ prot[i]
    /\ Owner[x] = i /\ v # mem[i][x]
    /\ mem' = [mem EXCEPT ![i][x] = v]
    /\ UNCHANGED <<disk, lock, base, queued, chan, pend, wr, failed, first, stale>>
    /\ UNCHANGED cfgVars

Notify == dirty' = IF disk' = disk THEN dirty ELSE [i \in Instances |-> TRUE]

WriterWorks(i) ==
    /\ \/ Receive(i) \/ Debounced(i) \/ LockAndRead(i) \/ Rename(i)
    /\ Notify
    /\ UNCHANGED <<own, prot, rd, gui, changes, raced, restored>>

\* The writer's callback queues write_done with the text that was given to it
\* (whether or not a merge was written), or with the failure.
WriterFinishes(i) ==
    /\ \/ WriteAsGiven(i) \/ Remember(i) \/ WriteFails(i) \/ DirSyncFailed(i)
    /\ Notify
    /\ gui' = [gui EXCEPT ![i] =
                 Append(@, [kind |-> "done", seq |-> wr[i].job.seq,
                            text |-> IF failed'[i] THEN None ELSE wr[i].job.doc])]
    /\ UNCHANGED <<own, prot, rd, changes, raced, restored>>

\* Somebody else edits config.toml, leaves it unreadable or removes it.
External(file) ==
    /\ changes < MaxExternal
    /\ file # disk
    /\ raced' = (raced \/ \E i \in Instances : ~Quiet(i))
    /\ restored' = (restored \/ \E i \in Instances : file = own[i].last)
    /\ disk' = file
    /\ changes' = changes + 1
    /\ Notify
    /\ UNCHANGED <<lock, mem, base, queued, chan, pend, wr, failed, first, stale>>
    /\ UNCHANGED <<own, prot, rd, gui>>

\* The watcher's callback thread, read_config: reads the file...
WatcherReads(i) ==
    /\ dirty[i] /\ rd[i].st = "idle"
    /\ dirty' = [dirty EXCEPT ![i] = FALSE]
    /\ rd' = [rd EXCEPT ![i] = [st |-> "read", text |-> disk]]
    /\ UNCHANGED <<own, prot, gui, changes, raced, restored>>
    /\ UNCHANGED vars

\* ... remembers it as the baseline, parses it and queues file_changed.
WatcherPosts(i) ==
    /\ rd[i].st = "read"
    /\ RememberRead(i, rd[i].text)
    /\ gui' = [gui EXCEPT ![i] =
                 Append(@, [kind |-> "changed", seq |-> 0, text |-> rd[i].text])]
    /\ rd' = [rd EXCEPT ![i] = Resting]
    /\ UNCHANGED <<disk, lock, mem, queued, chan, pend, wr, failed, first>>
    /\ UNCHANGED <<own, prot, dirty, changes, raced, restored>>

\* AppSettings::write_done
OnWriteDone(i) ==
    /\ gui[i] # <<>> /\ Head(gui[i]).kind = "done"
    /\ own' = [own EXCEPT ![i] =
                 [pending |-> SettledUpTo(@.pending, Head(gui[i]).seq),
                  last |-> IF Head(gui[i]).text = None THEN @.last
                                                       ELSE Head(gui[i]).text]]
    /\ gui' = [gui EXCEPT ![i] = Tail(@)]
    /\ UNCHANGED <<prot, dirty, rd, changes, raced, restored>>
    /\ UNCHANGED vars

\* AppSettings::file_changed and apply_reload: an echo is ignored, an unreadable
\* file keeps the settings and protects the file, anything else is applied.
OnFileChanged(i) ==
    /\ gui[i] # <<>> /\ Head(gui[i]).kind = "changed"
    /\ LET text == Head(gui[i]).text IN
         IF ~prot[i] /\ text # Missing /\ IsEcho(i, text)
         THEN UNCHANGED <<mem, prot>>
         ELSE /\ prot' = [prot EXCEPT ![i] = text = Broken]
              /\ mem' = IF text = Broken THEN mem
                        ELSE [mem EXCEPT ![i] = Content(text)]
    /\ gui' = [gui EXCEPT ![i] = Tail(@)]
    /\ UNCHANGED <<disk, lock, base, queued, chan, pend, wr, failed, first, stale>>
    /\ UNCHANGED <<own, dirty, rd, changes, raced, restored>>

CNext ==
    \/ \E i \in Instances :
         \/ \E x \in Ids, v \in Values : Change(i, x, v) \/ ChangeBlocked(i, x, v)
         \/ WriterWorks(i) \/ WriterFinishes(i)
         \/ WatcherReads(i) \/ WatcherPosts(i)
         \/ OnWriteDone(i) \/ OnFileChanged(i)
    \/ \E file \in Edits : External(file)

CSpec == CInit /\ [][CNext]_allVars

-----------------------------------------------------------------------------
(***************************************************************************)
(* Every save on its way to the disk is known to OwnWrites (up to its      *)
(* bound), and nothing else is: when no save is in flight and no result    *)
(* waits, nothing is pending.  The comment of OwnWrites promises it: "when *)
(* write n finishes, every write queued before it is settled too".         *)
(***************************************************************************)
OwnWritesExact ==
    \A i \in Instances :
        LET waiting == {gui[i][j].seq : j \in {n \in 1..Len(gui[i]) : gui[i][n].kind = "done"}}
            flying == {chan[i][j].seq : j \in 1..Len(chan[i])}
                      \cup (IF pend[i] = None THEN {} ELSE {pend[i].seq})
                      \cup (IF wr[i].st = "idle" THEN {} ELSE {wr[i].job.seq})
            known == {own[i].pending[j].seq : j \in 1..Len(own[i].pending)}
        IN /\ \A s \in flying \cup waiting : s + MaxPending > queued[i] => s \in known
           /\ known # {} => flying \cup waiting # {}

(***************************************************************************)
(* "Settings apply live both ways" (ADR 0007): when everything has settled *)
(* the settings in use are those in config.toml, unless it is unreadable,  *)
(* and it is protected exactly then.  Changes that race a write are        *)
(* excepted: file_changed applies an edit that a save in flight replaces,  *)
(* and an older text of ours that is read late.                            *)
(***************************************************************************)
InUse(i) ==
    /\ prot[i] <=> disk = Broken
    /\ disk # Broken => mem[i] = Content(disk)

(***************************************************************************)
(* The ADR also says that "an external edit that restores an older text of *)
(* ours (an editor undo, or a value flipped back) is applied, not mistaken *)
(* for an echo".  OwnWrites::is_echo does mistake it: last_written is      *)
(* still the text that was written last from here after somebody else's    *)
(* edit was applied, so when that edit is undone it stays in use.          *)
(***************************************************************************)
UndoApplied == \A i \in Instances : Quiet(i) /\ ~failed[i] /\ ~raced => InUse(i)

\* But for such an undo, the settings in use are those of the file: what
\* AppSettings::file_changed takes for an echo is in use already.
SettingsFollow ==
    \A i \in Instances :
        Quiet(i) /\ ~failed[i] /\ ~raced /\ ~restored => InUse(i)
-----------------------------------------------------------------------------
(***************************************************************************)
(* The inductive invariant behind OwnWritesExact, of one app's settings:   *)
(* n saves were queued, the channel holds ch, pd is the pending job, w the *)
(* write under way, g the closures on the GUI thread and q what OwnWrites  *)
(* remembers.                                                              *)
(***************************************************************************)
\* The channel holds the newest saves, one after another, and OwnWrites too.
InOrder(n, ch) == Len(ch) <= n /\ \A k \in 1..Len(ch) : ch[k].seq = n - Len(ch) + k

\* The last save that the writer received is the one it holds.
LastReceived(n, ch, pd, w) ==
    /\ pd # None => pd.seq = n - Len(ch) /\ w.st = "idle"
    /\ w.st # "idle" => w.job.seq = n - Len(ch)

\* Results come in the order of the saves, and all before the write under way.
InTurn(n, ch, pd, w, g) ==
    \A k \in 1..Len(g) : g[k].kind = "done" =>
        /\ g[k].seq <= n - Len(ch)
        /\ pd # None \/ w.st # "idle" => g[k].seq < n - Len(ch)
        /\ \A h \in 1..(k - 1) : g[h].kind = "done" => g[h].seq < g[k].seq

\* A save on its way, or whose result waits, is remembered or was forgotten at
\* the bound.
Remembered(n, q, seq) == seq > n - Len(q) \/ seq + MaxPending <= n

AllRemembered(n, ch, pd, w, g, q) ==
    /\ \A k \in 1..Len(ch) : Remembered(n, q, ch[k].seq)
    /\ pd # None => Remembered(n, q, pd.seq)
    /\ w.st # "idle" => Remembered(n, q, w.job.seq)
    /\ \A k \in 1..Len(g) : g[k].kind = "done" => Remembered(n, q, g[k].seq)

\* While anything is remembered, the newest save is on its way or its result
\* waits.
NewestAwaited(n, ch, pd, w, g, q) ==
    Len(q) > 0 =>
        \/ Len(ch) > 0 \/ pd # None \/ w.st # "idle"
        \/ \E k \in 1..Len(g) : g[k].kind = "done" /\ g[k].seq = n

WritesKnown(n, ch, pd, w, g, q) ==
    /\ InOrder(n, ch) /\ InOrder(n, q) /\ Len(q) <= MaxPending
    /\ LastReceived(n, ch, pd, w) /\ InTurn(n, ch, pd, w, g)
    /\ AllRemembered(n, ch, pd, w, g, q) /\ NewestAwaited(n, ch, pd, w, g, q)

WritesInv ==
    \A i \in Instances :
        WritesKnown(queued[i], chan[i], pend[i], wr[i], gui[i], own[i].pending)

Closure == [kind : {"done", "changed"}, seq : Nat, text : Files \cup {None}]

ConfigTypes ==
    /\ TypeOK
    /\ own \in [Instances -> [pending : Seq(Job), last : Docs \cup {None}]]
    /\ prot \in [Instances -> BOOLEAN]
    /\ dirty \in [Instances -> BOOLEAN]
    /\ rd \in [Instances -> [st : {"idle", "read"}, text : Files]]
    /\ gui \in [Instances -> Seq(Closure)]
    /\ \A i \in Instances : \A k \in 1..Len(gui[i]) :
         IF gui[i][k].kind = "done" THEN gui[i][k].text \in Docs \cup {None}
                                    ELSE gui[i][k].text \in Files
    /\ changes \in Nat

(***************************************************************************)
(* The inductive invariant behind SettingsFollow, of the one app on its    *)
(* file, as long as nothing raced and nobody put the last text back.       *)
(***************************************************************************)
OneApp == \A i, j \in Instances : i = j

\* A closure that says what the file holds waits on the GUI thread.
HasNews(g) == \E k \in 1..Len(g) : g[k].kind = "changed"

\* The app is about to be told what the file holds.
Coming(i) == dirty[i] \/ rd[i].st = "read" \/ HasNews(gui[i])

\* The settings are the newest document on its way to the disk.
NewestInUse(i) ==
    /\ chan[i] # <<>> => chan[i][Len(chan[i])].doc = mem[i]
    /\ chan[i] = <<>> /\ pend[i] # None => pend[i].doc = mem[i]
    /\ wr[i].st # "idle" => wr[i].job.doc = mem[i]

\* A write starts when nothing is still being noticed or reported, and until it
\* is reported nothing else happens.
OneAtATime(i) ==
    /\ ~Calm(i) => chan[i] = <<>> /\ pend[i] = None
    /\ wr[i].st \in {"based", "read"} => gui[i] = <<>> /\ ~dirty[i] /\ rd[i].st = "idle"
    /\ prot[i] => Settled(i)

\* What closure e tells is so, when the file holds d, the settings are m and p
\* says whether the file is protected.
Told(e, d, m, p) ==
    /\ e.kind = "changed" => e.text = d
    /\ e.kind = "done" => ~p /\ d # Broken /\ (e.text # None => e.text = d /\ m = d)

AllTold(g, d, m, p) == \A k \in 1..Len(g) : Told(g[k], d, m, p)

\* What the app holds, or was told, of the file.
FileKnown(i) ==
    /\ disk = Missing \/ base[i] = disk \/ dirty[i] \/ rd[i].st = "read"
    /\ wr[i].st = "based" => wr[i].base = base[i]
    /\ wr[i].st \in {"read", "renamed"} => wr[i].out = wr[i].job.doc
    /\ wr[i].st = "renamed" => disk = wr[i].job.doc
    /\ rd[i].st = "read" => rd[i].text = disk
    /\ AllTold(gui[i], disk, mem[i], prot[i])

\* What is taken for an echo is in use.
EchoInUse(i) ==
    Coming(i) => \/ mem[i] = disk /\ ~prot[i]
                 \/ disk # own[i].last /\ own[i].pending = <<>>

\* What is not about to be told is in use.
ToldInUse(i) ==
    ~Coming(i) =>
        /\ prot[i] <=> disk = Broken
        /\ Settled(i) /\ ~failed[i] /\ disk # Broken => mem[i] = Content(disk)

Follows(i) ==
    NewestInUse(i) /\ OneAtATime(i) /\ FileKnown(i) /\ EchoInUse(i) /\ ToldInUse(i)

FollowInv == ~raced /\ ~restored => \A i \in Instances : Follows(i)

ConfigInv == ConfigTypes /\ WritesInv /\ FollowInv

-----------------------------------------------------------------------------
(* Proofs: OwnWrites is exact, and the settings in use are the file's.      *)
USE ConstantsAssumption, ConfigAssumption

\* A job or a closure more at the end of a queue.
LEMMA Appended ==
    ASSUME NEW S, NEW q \in Seq(S), NEW e \in S
    PROVE  /\ Append(q, e) \in Seq(S) /\ Len(Append(q, e)) = Len(q) + 1
           /\ Append(q, e) # <<>> /\ Append(q, e)[Len(q) + 1] = e
           /\ \A k \in 1..Len(q) : Append(q, e)[k] = q[k]
OBVIOUS

\* One less at its front.
LEMMA TakenOff ==
    ASSUME NEW S, NEW q \in Seq(S), q # <<>>
    PROVE  /\ Len(q) \in Nat \ {0} /\ Head(q) = q[1] /\ Head(q) \in S
           /\ Tail(q) \in Seq(S) /\ Len(Tail(q)) = Len(q) - 1
           /\ \A k \in 1..Len(Tail(q)) : Tail(q)[k] = q[k + 1]
<1>1. Len(q) \in Nat \ {0} /\ Len(Tail(q)) = Len(q) - 1 /\ Head(q) = q[1] /\ Head(q) \in S
  OBVIOUS
<1>2. \A k \in 1..Len(Tail(q)) : Tail(q)[k] = q[k + 1]
  BY <1>1
<1>3. Tail(q) \in Seq(S)
  OBVIOUS
<1> QED BY <1>1, <1>2, <1>3

\* An empty queue has no element, and only an empty one.
LEMMA NoElements ==
    ASSUME NEW S, NEW q \in Seq(S)
    PROVE  /\ Len(q) \in Nat /\ (q = <<>> => Len(q) = 0) /\ (Len(q) = 0 => q = <<>>)
OBVIOUS

\* What OwnWrites remembers once a save is queued.
LEMMA QueuedIsInOrder ==
    ASSUME NEW n \in Nat, NEW q \in Seq(Job), InOrder(n, q), Len(q) <= MaxPending,
           NEW job \in Job, job.seq = n + 1
    PROVE  LET r == Queued(q, job) IN
           /\ r \in Seq(Job) /\ InOrder(n + 1, r) /\ Len(r) <= MaxPending /\ Len(r) > 0
           /\ \A seq \in Nat : Remembered(n, q, seq) => Remembered(n + 1, r, seq)
           /\ Remembered(n + 1, r, n + 1)
<1>1. CASE Len(q) = MaxPending
  <2> DEFINE t == Tail(q)
  <2>1. /\ q # <<>> /\ t \in Seq(Job) /\ Len(t) = Len(q) - 1
        /\ \A k \in 1..Len(t) : t[k] = q[k + 1]
    <3>1. q # <<>>
      BY <1>1, NoElements
    <3> QED BY <3>1, TakenOff
  <2>2. Queued(q, job) = Append(t, job)
    BY <1>1 DEF Queued
  <2> HIDE DEF t
  <2>3. /\ Append(t, job) \in Seq(Job) /\ Len(Append(t, job)) = Len(t) + 1
        /\ Append(t, job)[Len(t) + 1] = job
        /\ \A k \in 1..Len(t) : Append(t, job)[k] = t[k]
    BY <2>1, Appended
  <2> DEFINE r == Append(t, job)
  <2>4. Len(r) = Len(q) /\ Len(r) \in Nat /\ Len(q) \in Nat \ {0}
    BY <2>1, <2>3, <1>1, NoElements
  <2>5. \A k \in 1..Len(r) : r[k].seq = n + 1 - Len(r) + k
    <3> TAKE k \in 1..Len(r)
    <3>1. CASE k = Len(q)
      BY <3>1, <2>1, <2>3, <2>4
    <3>2. CASE k # Len(q)
      <4>1. k \in 1..Len(t) /\ k + 1 \in 1..Len(q)
        BY <3>2, <2>1, <2>4
      <4>2. r[k] = q[k + 1]
        BY <4>1, <2>1, <2>3
      <4>3. q[k + 1].seq = n - Len(q) + (k + 1)
        BY <4>1 DEF InOrder
      <4> QED BY <4>2, <4>3, <2>4
    <3> QED BY <3>1, <3>2
  <2>6. r \in Seq(Job)
    BY <2>3
  <2> HIDE DEF r
  <2>7. InOrder(n + 1, r)
    BY <2>4, <2>5 DEF InOrder
  <2>8. /\ \A seq \in Nat : Remembered(n, q, seq) => Remembered(n + 1, r, seq)
        /\ Remembered(n + 1, r, n + 1)
    BY <2>4, <1>1 DEF Remembered
  <2> QED BY <2>2, <2>4, <2>6, <2>7, <2>8, <1>1 DEF r
<1>2. CASE Len(q) # MaxPending
  <2> DEFINE r == Append(q, job)
  <2>1. Queued(q, job) = r
    BY <1>2 DEF Queued
  <2>2. /\ r \in Seq(Job) /\ Len(r) = Len(q) + 1 /\ r[Len(q) + 1] = job
        /\ \A k \in 1..Len(q) : r[k] = q[k]
    BY Appended
  <2>3. Len(q) \in Nat /\ Len(r) \in Nat
    BY <2>2, NoElements
  <2> HIDE DEF r
  <2>4. InOrder(n + 1, r)
    <3>1. ASSUME NEW k \in 1..Len(r) PROVE r[k].seq = n + 1 - Len(r) + k
      <4>1. CASE k = Len(q) + 1
        BY <4>1, <2>2, <2>3
      <4>2. CASE k # Len(q) + 1
        <5>1. k \in 1..Len(q)
          BY <4>2, <2>2, <2>3
        <5> QED BY <5>1, <2>2, <2>3 DEF InOrder
      <4> QED BY <4>1, <4>2
    <3> QED BY <3>1, <2>2, <2>3 DEF InOrder
  <2>5. /\ \A seq \in Nat : Remembered(n, q, seq) => Remembered(n + 1, r, seq)
        /\ Remembered(n + 1, r, n + 1)
    BY <2>2, <2>3 DEF Remembered
  <2> QED BY <2>1, <2>2, <2>3, <2>4, <2>5, <1>2
<1> QED BY <1>1, <1>2

\* What it remembers once the result of save seq was handled: the saves after it.
LEMMA SettledIsInOrder ==
    ASSUME NEW n \in Nat, NEW q \in Seq(Job), InOrder(n, q), NEW seq \in Nat, seq <= n
    PROVE  LET r == SettledUpTo(q, seq) IN
           /\ r \in Seq(Job) /\ InOrder(n, r) /\ Len(r) <= Len(q)
           /\ \A s \in Nat : s > seq /\ Remembered(n, q, s) => Remembered(n, r, s)
           /\ seq = n => Len(r) = 0
<1>1. Len(q) \in Nat /\ Len(q) <= n /\ \A k \in 1..Len(q) : q[k].seq = n - Len(q) + k
  BY NoElements DEF InOrder
<1>2. \E m \in 0..Len(q) : Leaves(q, seq, m)
  <2>1. CASE seq <= n - Len(q)
    BY <2>1, <1>1 DEF Leaves
  <2>2. CASE seq > n - Len(q)
    <3> DEFINE m == seq - (n - Len(q))
    <3>1. m \in 0..Len(q)
      BY <2>2, <1>1
    <3>2. \A j \in 1..m : q[j].seq <= seq
      BY <3>1, <1>1
    <3>3. m < Len(q) => q[m + 1].seq > seq
      BY <3>1, <1>1
    <3> QED BY <3>1, <3>2, <3>3 DEF Leaves
  <2> QED BY <2>1, <2>2, <1>1
<1> DEFINE m == CHOOSE k \in 0..Len(q) : Leaves(q, seq, k)
<1>3. m \in 0..Len(q) /\ Leaves(q, seq, m)
  BY <1>2
<1>4. SettledUpTo(q, seq) = SubSeq(q, 1 + m, Len(q))
  BY DEF SettledUpTo
<1> HIDE DEF m
<1> DEFINE r == SubSeq(q, 1 + m, Len(q))
<1>5. /\ r \in Seq(Job) /\ Len(r) = Len(q) - m
      /\ \A k \in 1..Len(r) : r[k] = q[m + k]
  <2>1. \A k \in (1 + m)..Len(q) : q[k] \in Job
    BY <1>1, <1>3
  <2>2. r \in Seq(Job) /\ Len(r) = Len(q) - m
    BY <1>1, <1>3, SubSeqProperties
  <2>3. \A k \in 1..(Len(q) - (1 + m) + 1) : r[k] = q[(1 + m) + k - 1]
    BY <2>1, <1>1, <1>3, SubSeqProperties
  <2>4. ASSUME NEW k \in 1..Len(r) PROVE r[k] = q[m + k]
    <3>1. k \in 1..(Len(q) - (1 + m) + 1) /\ (1 + m) + k - 1 = m + k
      BY <2>2, <1>1, <1>3
    <3> QED BY <3>1, <2>3
  <2> QED BY <2>2, <2>4
<1> HIDE DEF r
<1>6. InOrder(n, r)
  <2>1. ASSUME NEW k \in 1..Len(r) PROVE r[k].seq = n - Len(r) + k
    <3>1. m + k \in 1..Len(q) /\ r[k] = q[m + k]
      BY <1>1, <1>3, <1>5
    <3>2. q[m + k].seq = n - Len(q) + (m + k)
      BY <3>1, <1>1
    <3> QED BY <3>1, <3>2, <1>1, <1>3, <1>5
  <2> QED BY <2>1, <1>1, <1>3, <1>5 DEF InOrder
<1>7. ASSUME NEW s \in Nat, s > seq, Remembered(n, q, s) PROVE Remembered(n, r, s)
  <2>1. CASE s + MaxPending <= n
    BY <2>1 DEF Remembered
  <2>2. CASE s > n - Len(q) /\ s <= n
    <3>1. m > 0 => q[m].seq <= seq /\ q[m].seq = n - Len(q) + m
      BY <1>1, <1>3 DEF Leaves
    <3>2. s > n - Len(q) + m
      BY <3>1, <2>2, <1>1, <1>3, <1>7
    <3> QED BY <3>2, <1>1, <1>3, <1>5 DEF Remembered
  <2>3. CASE s > n
    BY <2>3, <1>1, <1>3, <1>5 DEF Remembered
  <2> QED BY <2>1, <2>2, <2>3, <1>7, <1>1 DEF Remembered
<1>8. seq = n => Len(r) = 0
  BY <1>1, <1>3, <1>5 DEF Leaves
<1> QED BY <1>4, <1>5, <1>6, <1>7, <1>8, <1>1, <1>3 DEF r

-----------------------------------------------------------------------------
(* What each step does to one app's writes.                                 *)

\* A change queues the next save.
LEMMA WritesQueued ==
    ASSUME NEW n \in Nat, NEW ch \in Seq(Job), NEW pd \in Job \cup {None}, NEW w \in Write,
           NEW g \in Seq(Closure), NEW q \in Seq(Job), NEW job \in Job, job.seq = n + 1,
           WritesKnown(n, ch, pd, w, g, q)
    PROVE  WritesKnown(n + 1, Append(ch, job), pd, w, g, Queued(q, job))
<1> DEFINE c == Append(ch, job)
           r == Queued(q, job)
<1>1. /\ InOrder(n, ch) /\ InOrder(n, q) /\ Len(q) <= MaxPending /\ LastReceived(n, ch, pd, w)
      /\ InTurn(n, ch, pd, w, g) /\ AllRemembered(n, ch, pd, w, g, q)
  BY DEF WritesKnown
<1>2. /\ c \in Seq(Job) /\ Len(c) = Len(ch) + 1 /\ c[Len(ch) + 1] = job
      /\ \A k \in 1..Len(ch) : c[k] = ch[k]
  BY Appended
<1>3. /\ r \in Seq(Job) /\ InOrder(n + 1, r) /\ Len(r) <= MaxPending /\ Len(r) > 0
      /\ \A seq \in Nat : Remembered(n, q, seq) => Remembered(n + 1, r, seq)
      /\ Remembered(n + 1, r, n + 1)
  BY <1>1, QueuedIsInOrder
<1>4. Len(ch) \in Nat /\ Len(c) \in Nat /\ n + 1 - Len(c) = n - Len(ch)
  BY <1>2, NoElements
<1> HIDE DEF c, r
<1>5. InOrder(n + 1, c)
  <2>1. ASSUME NEW k \in 1..Len(c) PROVE c[k].seq = n + 1 - Len(c) + k
    <3>1. CASE k = Len(ch) + 1
      BY <3>1, <1>2, <1>4
    <3>2. CASE k # Len(ch) + 1
      <4>1. k \in 1..Len(ch)
        BY <3>2, <1>2, <1>4
      <4> QED BY <4>1, <1>1, <1>2, <1>4 DEF InOrder
    <3> QED BY <3>1, <3>2
  <2> QED BY <2>1, <1>1, <1>2, <1>4 DEF InOrder
<1>6. LastReceived(n + 1, c, pd, w) /\ InTurn(n + 1, c, pd, w, g)
  <2>1. LastReceived(n + 1, c, pd, w)
    <3>1. ASSUME pd # None PROVE pd.seq = n + 1 - Len(c) /\ w.st = "idle"
      BY <3>1, <1>1, <1>4 DEF LastReceived, Job
    <3>2. ASSUME w.st # "idle" PROVE w.job.seq = n + 1 - Len(c)
      BY <3>2, <1>1, <1>4 DEF LastReceived, Write, Job
    <3> QED BY <3>1, <3>2 DEF LastReceived
  <2>2. ASSUME NEW k \in 1..Len(g), g[k].kind = "done"
        PROVE  /\ g[k].seq <= n - Len(ch)
               /\ pd # None \/ w.st # "idle" => g[k].seq < n - Len(ch)
               /\ \A h \in 1..(k - 1) : g[h].kind = "done" => g[h].seq < g[k].seq
    BY <2>2, <1>1 DEF InTurn
  <2>3. InTurn(n + 1, c, pd, w, g)
    BY <2>2, <1>4 DEF InTurn
  <2> QED BY <2>1, <2>3
<1>7. AllRemembered(n + 1, c, pd, w, g, r)
  <2>1. ASSUME NEW k \in 1..Len(c) PROVE Remembered(n + 1, r, c[k].seq)
    <3>1. CASE k = Len(ch) + 1
      BY <3>1, <1>2, <1>3
    <3>2. CASE k # Len(ch) + 1
      <4>1. k \in 1..Len(ch) /\ ch[k] \in Job
        BY <3>2, <1>2, <1>4
      <4>2. Remembered(n, q, ch[k].seq) /\ ch[k].seq \in Nat
        BY <4>1, <1>1 DEF AllRemembered, Job
      <4> QED BY <4>1, <4>2, <1>2, <1>3
    <3> QED BY <3>1, <3>2
  <2>2. pd # None => Remembered(n + 1, r, pd.seq)
    BY <1>1, <1>3 DEF AllRemembered, Job
  <2>3. w.st # "idle" => Remembered(n + 1, r, w.job.seq)
    BY <1>1, <1>3 DEF AllRemembered, Write, Job
  <2>4. ASSUME NEW k \in 1..Len(g), g[k].kind = "done" PROVE Remembered(n + 1, r, g[k].seq)
    <3>1. g[k] \in Closure
      OBVIOUS
    <3> QED BY <3>1, <2>4, <1>1, <1>3 DEF AllRemembered, Closure
  <2> QED BY <2>1, <2>2, <2>3, <2>4 DEF AllRemembered
<1>8. NewestAwaited(n + 1, c, pd, w, g, r)
  BY <1>2, <1>4 DEF NewestAwaited
<1> QED BY <1>3, <1>5, <1>6, <1>7, <1>8 DEF WritesKnown, c, r

\* The writer takes the oldest job of its channel.
LEMMA WritesReceived ==
    ASSUME NEW n \in Nat, NEW ch \in Seq(Job), NEW pd \in Job \cup {None}, NEW w \in Write,
           NEW g \in Seq(Closure), NEW q \in Seq(Job), ch # <<>>, w.st = "idle",
           WritesKnown(n, ch, pd, w, g, q)
    PROVE  WritesKnown(n, Tail(ch), Head(ch), w, g, q)
<1> DEFINE c == Tail(ch)
           p == Head(ch)
<1>1. /\ InOrder(n, ch) /\ InOrder(n, q) /\ Len(q) <= MaxPending
      /\ InTurn(n, ch, pd, w, g) /\ AllRemembered(n, ch, pd, w, g, q)
  BY DEF WritesKnown
<1>2. /\ Len(ch) \in Nat \ {0} /\ p = ch[1] /\ p \in Job /\ c \in Seq(Job)
      /\ Len(c) = Len(ch) - 1 /\ \A k \in 1..Len(c) : c[k] = ch[k + 1]
  BY TakenOff
<1>3. p # None
  BY <1>2
<1> HIDE DEF c, p
<1>4. \A k \in 1..Len(c) : k + 1 \in 1..Len(ch)
  BY <1>2
<1>5. InOrder(n, c)
  <2>1. ASSUME NEW k \in 1..Len(c) PROVE c[k].seq = n - Len(c) + k
    <3>1. ch[k + 1].seq = n - Len(ch) + (k + 1)
      BY <1>1, <1>4 DEF InOrder
    <3> QED BY <3>1, <1>2
  <2> QED BY <2>1, <1>1, <1>2 DEF InOrder
<1>6. p.seq = n - Len(c)
  <2>1. ch[1].seq = n - Len(ch) + 1
    BY <1>1, <1>2 DEF InOrder
  <2> QED BY <2>1, <1>2
<1>7. LastReceived(n, c, p, w)
  BY <1>3, <1>6 DEF LastReceived
<1>8. InTurn(n, c, p, w, g)
  <2>1. ASSUME NEW k \in 1..Len(g), g[k].kind = "done"
        PROVE  /\ g[k].seq <= n - Len(c) /\ g[k].seq < n - Len(c)
               /\ \A h \in 1..(k - 1) : g[h].kind = "done" => g[h].seq < g[k].seq
    <3>1. g[k] \in Closure
      OBVIOUS
    <3>2. g[k].seq \in Nat /\ g[k].seq <= n - Len(ch)
      BY <3>1, <2>1, <1>1 DEF InTurn, Closure
    <3>3. \A h \in 1..(k - 1) : g[h].kind = "done" => g[h].seq < g[k].seq
      BY <2>1, <1>1 DEF InTurn
    <3> QED BY <3>2, <3>3, <1>2
  <2> QED BY <2>1 DEF InTurn
<1>9. AllRemembered(n, c, p, w, g, q)
  <2>1. \A k \in 1..Len(c) : Remembered(n, q, c[k].seq)
    BY <1>1, <1>2, <1>4 DEF AllRemembered
  <2>2. Remembered(n, q, p.seq)
    BY <1>1, <1>2 DEF AllRemembered
  <2> QED BY <2>1, <2>2, <1>1 DEF AllRemembered
<1>10. NewestAwaited(n, c, p, w, g, q)
  BY <1>3 DEF NewestAwaited
<1> QED BY <1>1, <1>5, <1>7, <1>8, <1>9, <1>10 DEF WritesKnown, c, p

\* The pending job becomes the write under way.
LEMMA WritesStarted ==
    ASSUME NEW n \in Nat, NEW ch \in Seq(Job), NEW pd \in Job, NEW w \in Write,
           NEW g \in Seq(Closure), NEW q \in Seq(Job), NEW v \in Write,
           v.st # "idle", v.job = pd, WritesKnown(n, ch, pd, w, g, q)
    PROVE  WritesKnown(n, ch, None, v, g, q)
<1>1. pd # None
  OBVIOUS
<1>2. LastReceived(n, ch, None, v) /\ InTurn(n, ch, None, v, g)
  BY <1>1 DEF WritesKnown, LastReceived, InTurn
<1>3. AllRemembered(n, ch, None, v, g, q) /\ NewestAwaited(n, ch, None, v, g, q)
  BY <1>1 DEF WritesKnown, AllRemembered, NewestAwaited
<1> QED BY <1>2, <1>3 DEF WritesKnown

\* The write under way goes on.
LEMMA WritesAdvance ==
    ASSUME NEW n, NEW ch, NEW pd, NEW w, NEW g, NEW q, NEW v,
           w.st # "idle", v.st # "idle", v.job = w.job, WritesKnown(n, ch, pd, w, g, q)
    PROVE  WritesKnown(n, ch, pd, v, g, q)
<1>1. LastReceived(n, ch, pd, v) /\ InTurn(n, ch, pd, v, g)
  BY DEF WritesKnown, LastReceived, InTurn
<1>2. AllRemembered(n, ch, pd, v, g, q) /\ NewestAwaited(n, ch, pd, v, g, q)
  BY DEF WritesKnown, AllRemembered, NewestAwaited
<1> QED BY <1>1, <1>2 DEF WritesKnown

\* A closure is posted: the result of the write under way, or what was read.
LEMMA WritesReported ==
    ASSUME NEW n \in Nat, NEW ch \in Seq(Job), NEW pd \in Job \cup {None}, NEW w \in Write,
           NEW g \in Seq(Closure), NEW q \in Seq(Job), NEW v \in Write, NEW e \in Closure,
           w.st # "idle", v.st = "idle", e.kind = "done", e.seq = w.job.seq,
           WritesKnown(n, ch, pd, w, g, q)
    PROVE  WritesKnown(n, ch, pd, v, Append(g, e), q)
<1> DEFINE a == Append(g, e)
<1>1. /\ LastReceived(n, ch, pd, w) /\ InTurn(n, ch, pd, w, g)
      /\ AllRemembered(n, ch, pd, w, g, q) /\ NewestAwaited(n, ch, pd, w, g, q)
      /\ InOrder(n, ch)
  BY DEF WritesKnown
<1>2. /\ a \in Seq(Closure) /\ Len(a) = Len(g) + 1 /\ a[Len(g) + 1] = e
      /\ \A k \in 1..Len(g) : a[k] = g[k]
  BY Appended
<1>3. Len(g) \in Nat /\ Len(ch) \in Nat
  BY NoElements
<1> HIDE DEF a
<1>4. pd = None /\ e.seq = n - Len(ch) /\ LastReceived(n, ch, pd, v)
  BY <1>1 DEF LastReceived
<1>5. InTurn(n, ch, pd, v, a)
  <2>1. ASSUME NEW k \in 1..Len(a), a[k].kind = "done"
        PROVE  /\ a[k].seq <= n - Len(ch)
               /\ \A h \in 1..(k - 1) : a[h].kind = "done" => a[h].seq < a[k].seq
    <3>1. CASE k = Len(g) + 1
      <4>1. a[k] = e /\ e.seq \in Nat
        BY <3>1, <1>2 DEF Closure
      <4>2. ASSUME NEW h \in 1..(k - 1), a[h].kind = "done" PROVE a[h].seq < a[k].seq
        <5>1. h \in 1..Len(g) /\ a[h] = g[h]
          BY <3>1, <1>2, <1>3
        <5> QED BY <5>1, <4>1, <4>2, <1>1, <1>4 DEF InTurn
      <4> QED BY <4>1, <4>2, <1>3, <1>4
    <3>2. CASE k # Len(g) + 1
      <4>1. k \in 1..Len(g) /\ a[k] = g[k]
        BY <3>2, <1>2, <1>3
      <4>2. \A h \in 1..(k - 1) : h \in 1..Len(g) /\ a[h] = g[h]
        BY <4>1, <1>2, <1>3
      <4> QED BY <4>1, <4>2, <2>1, <1>1 DEF InTurn
    <3> QED BY <3>1, <3>2
  <2> QED BY <2>1, <1>4 DEF InTurn
<1>6. AllRemembered(n, ch, pd, v, a, q)
  <2>1. ASSUME NEW k \in 1..Len(a), a[k].kind = "done" PROVE Remembered(n, q, a[k].seq)
    <3>1. CASE k = Len(g) + 1
      BY <3>1, <1>1, <1>2 DEF AllRemembered
    <3>2. CASE k # Len(g) + 1
      <4>1. k \in 1..Len(g) /\ a[k] = g[k]
        BY <3>2, <1>2, <1>3
      <4> QED BY <4>1, <2>1, <1>1 DEF AllRemembered
    <3> QED BY <3>1, <3>2
  <2> QED BY <2>1, <1>1 DEF AllRemembered
<1>7. NewestAwaited(n, ch, pd, v, a, q)
  <2>1. CASE Len(ch) > 0
    BY <2>1 DEF NewestAwaited
  <2>2. CASE Len(ch) = 0
    <3>1. Len(g) + 1 \in 1..Len(a) /\ a[Len(g) + 1].kind = "done" /\ a[Len(g) + 1].seq = n
      BY <2>2, <1>2, <1>3, <1>4
    <3> QED BY <3>1 DEF NewestAwaited
  <2> QED BY <2>1, <2>2, <1>3
<1> QED BY <1>4, <1>5, <1>6, <1>7 DEF WritesKnown, a

LEMMA WritesNoticed ==
    ASSUME NEW n \in Nat, NEW ch \in Seq(Job), NEW pd \in Job \cup {None}, NEW w \in Write,
           NEW g \in Seq(Closure), NEW q \in Seq(Job), NEW e \in Closure, e.kind = "changed",
           WritesKnown(n, ch, pd, w, g, q)
    PROVE  WritesKnown(n, ch, pd, w, Append(g, e), q)
<1> DEFINE a == Append(g, e)
<1>1. /\ Len(a) = Len(g) + 1 /\ a[Len(g) + 1].kind # "done"
      /\ \A k \in 1..Len(g) : a[k] = g[k]
  BY Appended
<1>2. Len(g) \in Nat
  BY NoElements
<1> HIDE DEF a
<1>3. ASSUME NEW k \in 1..Len(a), a[k].kind = "done" PROVE k \in 1..Len(g) /\ a[k] = g[k]
  BY <1>1, <1>2, <1>3
<1>4. \A k \in 1..Len(g) : \A h \in 1..(k - 1) : h \in 1..Len(g)
  BY <1>2
<1>5. InTurn(n, ch, pd, w, a)
  <2>1. ASSUME NEW k \in 1..Len(a), a[k].kind = "done"
        PROVE  /\ a[k].seq <= n - Len(ch)
               /\ pd # None \/ w.st # "idle" => a[k].seq < n - Len(ch)
               /\ \A h \in 1..(k - 1) : a[h].kind = "done" => a[h].seq < a[k].seq
    BY <2>1, <1>1, <1>3, <1>4 DEF WritesKnown, InTurn
  <2> QED BY <2>1 DEF InTurn
<1>6. AllRemembered(n, ch, pd, w, a, q)
  BY <1>3 DEF WritesKnown, AllRemembered
<1>7. NewestAwaited(n, ch, pd, w, a, q)
  <2>1. \A k \in 1..Len(g) : k \in 1..Len(a) /\ a[k] = g[k]
    BY <1>1, <1>2
  <2> QED BY <2>1 DEF WritesKnown, NewestAwaited
<1> QED BY <1>5, <1>6, <1>7 DEF WritesKnown, a

\* A closure is run: what was read, or a result.
LEMMA WritesHeard ==
    ASSUME NEW n \in Nat, NEW ch \in Seq(Job), NEW pd \in Job \cup {None}, NEW w \in Write,
           NEW g \in Seq(Closure), NEW q \in Seq(Job), g # <<>>, Head(g).kind = "changed",
           WritesKnown(n, ch, pd, w, g, q)
    PROVE  WritesKnown(n, ch, pd, w, Tail(g), q)
<1> DEFINE t == Tail(g)
<1>1. /\ Len(g) \in Nat \ {0} /\ g[1].kind # "done" /\ Len(t) = Len(g) - 1
      /\ \A k \in 1..Len(t) : t[k] = g[k + 1]
  BY TakenOff
<1> HIDE DEF t
<1>2. \A k \in 1..Len(t) : k + 1 \in 1..Len(g) /\ t[k] = g[k + 1]
  BY <1>1
<1>3. InTurn(n, ch, pd, w, t)
  <2>1. \A k \in 1..Len(t) : \A h \in 1..(k - 1) :
          h \in 1..Len(t) /\ h + 1 \in 1..((k + 1) - 1)
    BY <1>1
  <2>2. ASSUME NEW k \in 1..Len(t), t[k].kind = "done"
        PROVE  /\ t[k].seq <= n - Len(ch)
               /\ pd # None \/ w.st # "idle" => t[k].seq < n - Len(ch)
               /\ \A h \in 1..(k - 1) : t[h].kind = "done" => t[h].seq < t[k].seq
    BY <2>1, <2>2, <1>2 DEF WritesKnown, InTurn
  <2> QED BY <2>2 DEF InTurn
<1>4. AllRemembered(n, ch, pd, w, t, q)
  BY <1>2 DEF WritesKnown, AllRemembered
<1>5. NewestAwaited(n, ch, pd, w, t, q)
  <2>1. ASSUME NEW k \in 1..Len(g), g[k].kind = "done", g[k].seq = n
        PROVE  \E h \in 1..Len(t) : t[h].kind = "done" /\ t[h].seq = n
    <3>1. k - 1 \in 1..Len(t) /\ t[k - 1] = g[k]
      BY <2>1, <1>1
    <3> QED BY <3>1, <2>1
  <2> QED BY <2>1 DEF WritesKnown, NewestAwaited
<1> QED BY <1>3, <1>4, <1>5 DEF WritesKnown, t

LEMMA WritesSettled ==
    ASSUME NEW n \in Nat, NEW ch \in Seq(Job), NEW pd \in Job \cup {None}, NEW w \in Write,
           NEW g \in Seq(Closure), NEW q \in Seq(Job), g # <<>>, Head(g).kind = "done",
           WritesKnown(n, ch, pd, w, g, q)
    PROVE  WritesKnown(n, ch, pd, w, Tail(g), SettledUpTo(q, Head(g).seq))
<1> DEFINE t == Tail(g)
           seq == Head(g).seq
           r == SettledUpTo(q, seq)
<1>1. /\ Len(g) \in Nat \ {0} /\ g[1].kind = "done" /\ g[1].seq = seq /\ seq \in Nat
      /\ Len(t) = Len(g) - 1 /\ \A k \in 1..Len(t) : t[k] = g[k + 1]
  <2>1. Head(g) = g[1] /\ Head(g) \in Closure
    BY TakenOff
  <2> QED BY <2>1, TakenOff DEF Closure
<1>2. /\ InOrder(n, ch) /\ InOrder(n, q) /\ Len(q) <= MaxPending /\ LastReceived(n, ch, pd, w)
      /\ InTurn(n, ch, pd, w, g) /\ AllRemembered(n, ch, pd, w, g, q)
      /\ NewestAwaited(n, ch, pd, w, g, q)
  BY DEF WritesKnown
<1>3. Len(ch) \in Nat /\ Len(q) \in Nat
  BY NoElements
<1> HIDE DEF seq
<1>4. /\ seq <= n - Len(ch) /\ seq <= n
      /\ pd # None \/ w.st # "idle" => seq < n - Len(ch)
  BY <1>1, <1>2, <1>3 DEF InTurn
<1>5. /\ r \in Seq(Job) /\ InOrder(n, r) /\ Len(r) <= Len(q)
      /\ \A s \in Nat : s > seq /\ Remembered(n, q, s) => Remembered(n, r, s)
      /\ seq = n => Len(r) = 0
  BY <1>1, <1>2, <1>4, SettledIsInOrder
<1> HIDE DEF t, r
<1>6. Len(r) \in Nat /\ Len(r) <= MaxPending
  BY <1>2, <1>3, <1>5, NoElements
<1>7. \A k \in 1..Len(t) : k + 1 \in 1..Len(g) /\ t[k] = g[k + 1] /\ 1 \in 1..((k + 1) - 1)
  BY <1>1
<1>8. InTurn(n, ch, pd, w, t)
  <2>1. \A k \in 1..Len(t) : \A h \in 1..(k - 1) :
          h \in 1..Len(t) /\ h + 1 \in 1..((k + 1) - 1)
    BY <1>1
  <2>2. ASSUME NEW k \in 1..Len(t), t[k].kind = "done"
        PROVE  /\ t[k].seq <= n - Len(ch)
               /\ pd # None \/ w.st # "idle" => t[k].seq < n - Len(ch)
               /\ \A h \in 1..(k - 1) : t[h].kind = "done" => t[h].seq < t[k].seq
    BY <2>1, <2>2, <1>2, <1>7 DEF InTurn
  <2> QED BY <2>2 DEF InTurn
<1>9. AllRemembered(n, ch, pd, w, t, r)
  <2>1. ASSUME NEW k \in 1..Len(ch) PROVE Remembered(n, r, ch[k].seq)
    <3>1. ch[k] \in Job /\ Remembered(n, q, ch[k].seq) /\ ch[k].seq = n - Len(ch) + k
      BY <1>2 DEF AllRemembered, InOrder
    <3>2. ch[k].seq \in Nat /\ ch[k].seq > seq
      BY <3>1, <1>1, <1>3, <1>4 DEF Job
    <3> QED BY <3>1, <3>2, <1>5
  <2>2. ASSUME pd # None PROVE Remembered(n, r, pd.seq)
    <3>1. pd \in Job /\ Remembered(n, q, pd.seq) /\ pd.seq = n - Len(ch)
      BY <2>2, <1>2 DEF AllRemembered, LastReceived
    <3> QED BY <3>1, <2>2, <1>4, <1>5 DEF Job
  <2>3. ASSUME w.st # "idle" PROVE Remembered(n, r, w.job.seq)
    <3>1. w.job \in Job /\ Remembered(n, q, w.job.seq) /\ w.job.seq = n - Len(ch)
      BY <2>3, <1>2 DEF AllRemembered, LastReceived, Write
    <3> QED BY <3>1, <2>3, <1>4, <1>5 DEF Job
  <2>4. ASSUME NEW k \in 1..Len(t), t[k].kind = "done" PROVE Remembered(n, r, t[k].seq)
    <3>1. t[k] = g[k + 1] /\ k + 1 \in 1..Len(g) /\ g[k + 1] \in Closure
      BY <1>7
    <3>2. t[k].seq \in Nat /\ Remembered(n, q, t[k].seq)
      BY <3>1, <2>4, <1>2 DEF AllRemembered, Closure
    <3>3. seq < t[k].seq
      BY <3>1, <2>4, <1>1, <1>2, <1>7 DEF InTurn
    <3> QED BY <3>2, <3>3, <1>1, <1>5
  <2> QED BY <2>1, <2>2, <2>3, <2>4 DEF AllRemembered
<1>10. NewestAwaited(n, ch, pd, w, t, r)
  <2>1. CASE Len(r) = 0
    BY <2>1 DEF NewestAwaited
  <2>2. CASE Len(r) > 0
    <3>1. seq # n /\ Len(q) > 0
      BY <2>2, <1>3, <1>5, <1>6
    <3>2. ASSUME NEW k \in 1..Len(g), g[k].kind = "done", g[k].seq = n
          PROVE  \E h \in 1..Len(t) : t[h].kind = "done" /\ t[h].seq = n
      <4>1. k # 1
        BY <3>1, <3>2, <1>1
      <4>2. k - 1 \in 1..Len(t) /\ t[k - 1] = g[k]
        BY <4>1, <1>1
      <4> QED BY <4>2, <3>2
    <3> QED BY <3>1, <3>2, <1>2 DEF NewestAwaited
  <2> QED BY <2>1, <2>2, <1>6
<1> QED BY <1>2, <1>5, <1>6, <1>8, <1>9, <1>10 DEF WritesKnown, t, r, seq

-----------------------------------------------------------------------------
(* Types.                                                                   *)
LEMMA Documents ==
    /\ EmptyDoc \in Docs /\ Idle \in Write /\ Idle.st = "idle" /\ Idle.job.doc = EmptyDoc
    /\ \A text : Content(text) \in Docs
    /\ \A text \in Docs : Content(text) = text
    /\ Edits \subseteq Files /\ Missing \in Files
BY DEF EmptyDoc, Docs, Idle, Write, NoJob, Job, Content, Edits, Files

\* Whatever was read from disk, write_merging writes a document.
LEMMA OutIsDoc ==
    ASSUME NEW b, NEW bytes \in Docs, NEW current
    PROVE  Out(b, bytes, current) \in Docs
<1>1. b \in Docs /\ current \in Docs => MergeList(b, bytes, current) \in Docs
  BY DEF MergeList, MergeRecord, Docs
<1> QED BY <1>1 DEF Out, Merge3

\* What instance i's writer and watcher are in.
LEMMA ParamTypes ==
    ASSUME ConfigTypes, NEW i \in Instances
    PROVE  /\ queued[i] \in Nat /\ chan[i] \in Seq(Job) /\ pend[i] \in Job \cup {None}
           /\ wr[i] \in Write /\ gui[i] \in Seq(Closure) /\ own[i].pending \in Seq(Job)
           /\ own[i].last \in Docs \cup {None}
           /\ wr[i].job \in Job /\ wr[i].job.seq \in Nat /\ wr[i].job.doc \in Docs
           /\ wr[i].out \in Docs /\ mem[i] \in Docs /\ rd[i].text \in Files
BY DEF ConfigTypes, TypeOK, Write, Job

LEMMA EditTypes ==
    ASSUME TypeOK, NEW i \in Instances, NEW x \in Ids, NEW v \in Values, Edit(i, x, v)
    PROVE  /\ TypeOK' /\ mem'[i] \in Docs
           /\ queued' = [queued EXCEPT ![i] = queued[i] + 1]
           /\ \E job \in Job : /\ job.seq = queued[i] + 1 /\ job.doc = mem'[i]
                               /\ [doc |-> mem'[i], seq |-> queued'[i]] = job
                               /\ chan' = [chan EXCEPT ![i] = Append(chan[i], job)]
<1>1. [mem[i] EXCEPT ![x] = v] \in Docs
  BY DEF TypeOK, Docs
<1> DEFINE job == [doc |-> [mem[i] EXCEPT ![x] = v], seq |-> queued[i] + 1]
<1>2. job \in Job /\ job.seq = queued[i] + 1 /\ job.doc = [mem[i] EXCEPT ![x] = v]
  BY <1>1 DEF TypeOK, Job
<1>3. mem' \in [Instances -> Docs] /\ mem'[i] = [mem[i] EXCEPT ![x] = v]
  BY <1>1 DEF TypeOK, Edit
<1>4. /\ queued' = [queued EXCEPT ![i] = queued[i] + 1] /\ queued'[i] = queued[i] + 1
      /\ queued' \in [Instances -> Nat]
  BY DEF TypeOK, Edit
<1>5. [doc |-> mem'[i], seq |-> queued'[i]] = job
  BY <1>3, <1>4
<1>6. chan' = [chan EXCEPT ![i] = Append(chan[i], job)]
  BY DEF Edit
<1> HIDE DEF job
<1>7. chan' \in [Instances -> Seq(Job)]
  BY <1>2, <1>6 DEF TypeOK
<1>8. TypeOK'
  BY <1>3, <1>4, <1>7 DEF TypeOK, Edit
<1> QED BY <1>1, <1>2, <1>3, <1>4, <1>5, <1>6, <1>8

LEMMA WorksTypes ==
    ASSUME TypeOK, NEW i \in Instances,
           Receive(i) \/ Debounced(i) \/ LockAndRead(i) \/ Rename(i)
    PROVE  TypeOK'
<1>1. CASE Receive(i)
  <2>1. Head(chan[i]) \in Job /\ Tail(chan[i]) \in Seq(Job)
    BY <1>1 DEF TypeOK, Receive
  <2>2. pend' \in [Instances -> Job \cup {None}] /\ chan' \in [Instances -> Seq(Job)]
    BY <1>1, <2>1 DEF TypeOK, Receive
  <2> QED BY <1>1, <2>2 DEF TypeOK, Receive
<1>2. CASE Debounced(i)
  <2>1. [st |-> "based", job |-> pend[i], base |-> base[i], out |-> EmptyDoc] \in Write
    BY <1>2, Documents DEF TypeOK, Debounced, Write
  <2> QED BY <1>2, <2>1 DEF TypeOK, Debounced
<1>3. CASE LockAndRead(i)
  <2>1. wr[i] \in Write /\ wr[i].job.doc \in Docs
    BY DEF TypeOK, Write, Job
  <2>2. Out(wr[i].base, wr[i].job.doc, disk) \in Docs
    BY <2>1, OutIsDoc
  <2>3. wr' \in [Instances -> Write]
    BY <1>3, <2>1, <2>2 DEF TypeOK, LockAndRead, Write
  <2> QED BY <1>3, <2>3 DEF TypeOK, LockAndRead
<1>4. CASE Rename(i)
  <2>1. disk' \in Files
    BY <1>4 DEF TypeOK, Rename, Files, Write
  <2>2. wr[i] \in Write
    BY DEF TypeOK
  <2>3. [wr[i] EXCEPT !.st = "renamed"] \in Write
    BY <2>2 DEF Write
  <2>4. wr' \in [Instances -> Write]
    BY <1>4, <2>3 DEF TypeOK, Rename
  <2> QED BY <1>4, <2>1, <2>4 DEF TypeOK, Rename
<1> QED BY <1>1, <1>2, <1>3, <1>4

LEMMA FinishesTypes ==
    ASSUME TypeOK, NEW i \in Instances,
           WriteAsGiven(i) \/ Remember(i) \/ WriteFails(i) \/ DirSyncFailed(i)
    PROVE  TypeOK' /\ wr[i].st # "idle" /\ wr' = [wr EXCEPT ![i] = Idle]
<1>1. wr' = [wr EXCEPT ![i] = Idle] /\ wr[i].st # "idle"
  BY DEF WriteAsGiven, Remember, WriteFails, DirSyncFailed
<1>2. wr' \in [Instances -> Write] /\ wr[i].job.doc \in Docs
  BY <1>1, Documents DEF TypeOK, Write, Job
<1>3. CASE WriteAsGiven(i)
  <2>1. PICK fsyncFails \in BOOLEAN : failed' = [failed EXCEPT ![i] = fsyncFails]
    BY <1>3 DEF WriteAsGiven
  <2>2. failed' \in [Instances -> BOOLEAN]
    BY <2>1 DEF TypeOK
  <2>3. disk' \in Files
    BY <1>3, <1>2 DEF WriteAsGiven, Files
  <2> QED BY <1>1, <1>2, <1>3, <2>2, <2>3 DEF TypeOK, WriteAsGiven
<1>4. CASE Remember(i)
  BY <1>1, <1>2, <1>4 DEF TypeOK, Remember
<1>5. CASE WriteFails(i)
  BY <1>1, <1>2, <1>5 DEF TypeOK, WriteFails
<1>6. CASE DirSyncFailed(i)
  BY <1>1, <1>2, <1>6 DEF TypeOK, DirSyncFailed
<1> QED BY <1>1, <1>3, <1>4, <1>5, <1>6

\* A closure is posted to the GUI thread...
LEMMA Posted ==
    ASSUME ConfigTypes, NEW i \in Instances, NEW e \in Closure,
           e.kind = "done" => e.text \in Docs \cup {None},
           e.kind # "done" => e.text \in Files,
           gui' = [gui EXCEPT ![i] = Append(@, e)]
    PROVE  /\ gui' \in [Instances -> Seq(Closure)] /\ gui'[i] = Append(gui[i], e)
           /\ \A j \in Instances : j # i => gui'[j] = gui[j]
           /\ \A j \in Instances : \A k \in 1..Len(gui'[j]) :
                IF gui'[j][k].kind = "done" THEN gui'[j][k].text \in Docs \cup {None}
                                            ELSE gui'[j][k].text \in Files
<1>1. gui[i] \in Seq(Closure)
  BY DEF ConfigTypes
<1>2. /\ Append(gui[i], e) \in Seq(Closure) /\ Len(Append(gui[i], e)) = Len(gui[i]) + 1
      /\ Append(gui[i], e)[Len(gui[i]) + 1] = e
      /\ \A k \in 1..Len(gui[i]) : Append(gui[i], e)[k] = gui[i][k]
  BY <1>1, Appended
<1>3. Len(gui[i]) \in Nat
  BY <1>1, NoElements
<1>4. /\ gui' \in [Instances -> Seq(Closure)] /\ gui'[i] = Append(gui[i], e)
      /\ \A j \in Instances : j # i => gui'[j] = gui[j]
  BY <1>2 DEF ConfigTypes
<1>5. ASSUME NEW j \in Instances, NEW k \in 1..Len(gui'[j])
      PROVE  IF gui'[j][k].kind = "done" THEN gui'[j][k].text \in Docs \cup {None}
                                         ELSE gui'[j][k].text \in Files
  <2>1. CASE j # i
    BY <2>1, <1>4 DEF ConfigTypes
  <2>2. CASE j = i /\ k = Len(gui[i]) + 1
    BY <2>2, <1>2, <1>4
  <2>3. CASE j = i /\ k # Len(gui[i]) + 1
    <3>1. k \in 1..Len(gui[i]) /\ gui'[j][k] = gui[i][k]
      BY <2>3, <1>2, <1>3, <1>4
    <3> QED BY <3>1 DEF ConfigTypes
  <2> QED BY <2>1, <2>2, <2>3
<1> QED BY <1>4, <1>5

\* ... and the oldest one is run.
LEMMA Ran ==
    ASSUME ConfigTypes, NEW i \in Instances, gui[i] # <<>>,
           gui' = [gui EXCEPT ![i] = Tail(@)]
    PROVE  /\ gui' \in [Instances -> Seq(Closure)] /\ gui'[i] = Tail(gui[i])
           /\ \A j \in Instances : j # i => gui'[j] = gui[j]
           /\ \A j \in Instances : \A k \in 1..Len(gui'[j]) :
                IF gui'[j][k].kind = "done" THEN gui'[j][k].text \in Docs \cup {None}
                                            ELSE gui'[j][k].text \in Files
           /\ Head(gui[i]) \in Closure
           /\ Head(gui[i]).kind = "done" => Head(gui[i]).text \in Docs \cup {None}
           /\ Head(gui[i]).kind = "changed" => Head(gui[i]).text \in Files
<1>1. gui[i] \in Seq(Closure)
  BY DEF ConfigTypes
<1>2. /\ Len(gui[i]) \in Nat \ {0} /\ Head(gui[i]) = gui[i][1] /\ Head(gui[i]) \in Closure
      /\ Tail(gui[i]) \in Seq(Closure) /\ Len(Tail(gui[i])) = Len(gui[i]) - 1
      /\ \A k \in 1..Len(Tail(gui[i])) : Tail(gui[i])[k] = gui[i][k + 1]
  BY <1>1, TakenOff
<1>3. /\ gui' \in [Instances -> Seq(Closure)] /\ gui'[i] = Tail(gui[i])
      /\ \A j \in Instances : j # i => gui'[j] = gui[j]
  BY <1>2 DEF ConfigTypes
<1>4. ASSUME NEW j \in Instances, NEW k \in 1..Len(gui'[j])
      PROVE  IF gui'[j][k].kind = "done" THEN gui'[j][k].text \in Docs \cup {None}
                                         ELSE gui'[j][k].text \in Files
  <2>1. CASE j # i
    BY <2>1, <1>3 DEF ConfigTypes
  <2>2. CASE j = i
    <3>1. k + 1 \in 1..Len(gui[i]) /\ gui'[j][k] = gui[i][k + 1]
      BY <2>2, <1>2, <1>3
    <3> QED BY <3>1 DEF ConfigTypes
  <2> QED BY <2>1, <2>2
<1>5. /\ Head(gui[i]).kind = "done" => Head(gui[i]).text \in Docs \cup {None}
      /\ Head(gui[i]).kind = "changed" => Head(gui[i]).text \in Files
  <2>1. 1 \in 1..Len(gui[i])
    BY <1>2
  <2> QED BY <2>1, <1>2 DEF ConfigTypes
<1> QED BY <1>2, <1>3, <1>4, <1>5

LEMMA NotifyTypes == ASSUME ConfigTypes, Notify PROVE dirty' \in [Instances -> BOOLEAN]
BY DEF ConfigTypes, Notify

LEMMA InitConfigTypes == CInit => ConfigTypes
<1> SUFFICES ASSUME CInit PROVE ConfigTypes
  OBVIOUS
<1>1. disk \in Files /\ lock \in Instances \cup {None} /\ first \in InitDisks
  BY DEF CInit, Init, Files
<1>2. mem \in [Instances -> Docs] /\ base \in [Instances -> Docs \cup {None, Broken}]
  BY Documents DEF CInit, Init
<1>3. /\ queued \in [Instances -> Nat] /\ chan \in [Instances -> Seq(Job)]
      /\ pend \in [Instances -> Job \cup {None}] /\ wr \in [Instances -> Write]
      /\ failed \in [Instances -> BOOLEAN] /\ stale \in [Instances -> BOOLEAN]
  BY Documents DEF CInit, Init
<1>4. own \in [Instances -> [pending : Seq(Job), last : Docs \cup {None}]]
  <2>1. <<>> \in Seq(Job)
    OBVIOUS
  <2> QED BY <2>1 DEF CInit
<1>5. /\ prot \in [Instances -> BOOLEAN] /\ dirty \in [Instances -> BOOLEAN]
      /\ rd \in [Instances -> [st : {"idle", "read"}, text : Files]] /\ changes \in Nat
  BY Documents DEF CInit, Resting
<1>6. gui \in [Instances -> Seq(Closure)] /\ \A i \in Instances : Len(gui[i]) = 0
  BY DEF CInit
<1> QED BY <1>1, <1>2, <1>3, <1>4, <1>5, <1>6 DEF ConfigTypes, TypeOK

\* The user changes a setting.
LEMMA ChangeTypes ==
    ASSUME ConfigTypes, NEW i \in Instances, NEW x \in Ids, NEW v \in Values,
           Change(i, x, v) \/ ChangeBlocked(i, x, v)
    PROVE  ConfigTypes'
<1>1. CASE Change(i, x, v)
  <2>1. TypeOK /\ Edit(i, x, v)
    BY <1>1 DEF ConfigTypes, Change
  <2>2. /\ TypeOK'
        /\ \E job \in Job : [doc |-> mem'[i], seq |-> queued'[i]] = job
    BY <2>1, EditTypes
  <2>3. PICK job \in Job : [doc |-> mem'[i], seq |-> queued'[i]] = job
    BY <2>2
  <2>4. Queued(own[i].pending, job) \in Seq(Job)
    <3>1. own[i].pending \in Seq(Job)
      BY ParamTypes
    <3>2. Len(own[i].pending) = MaxPending =>
            own[i].pending # <<>> /\ Tail(own[i].pending) \in Seq(Job)
      BY <3>1, NoElements, TakenOff
    <3> QED BY <3>1, <3>2 DEF Queued
  <2>5. own' = [own EXCEPT ![i].pending = Queued(own[i].pending, job)]
    BY <1>1, <2>3 DEF Change, ConfigTypes
  <2>6. own' \in [Instances -> [pending : Seq(Job), last : Docs \cup {None}]]
    BY <2>4, <2>5 DEF ConfigTypes
  <2> QED BY <1>1, <2>2, <2>6 DEF Change, ConfigTypes
<1>2. CASE ChangeBlocked(i, x, v)
  <2>1. [mem[i] EXCEPT ![x] = v] \in Docs
    BY DEF ConfigTypes, TypeOK, Docs
  <2>2. mem' \in [Instances -> Docs]
    BY <1>2, <2>1 DEF ConfigTypes, TypeOK, ChangeBlocked
  <2> QED BY <1>2, <2>2 DEF ConfigTypes, TypeOK, ChangeBlocked, cfgVars
<1> QED BY <1>1, <1>2

\* The result that a finished write reports.
LEMMA Reported ==
    ASSUME ConfigTypes, NEW i \in Instances, WriterFinishes(i)
    PROVE  \E e \in Closure :
             /\ e.kind = "done" /\ e.seq = wr[i].job.seq
             /\ e.text = IF failed'[i] THEN None ELSE wr[i].job.doc
             /\ e.text \in Docs \cup {None}
             /\ gui' = [gui EXCEPT ![i] = Append(@, e)]
<1> DEFINE e == [kind |-> "done", seq |-> wr[i].job.seq,
                 text |-> IF failed'[i] THEN None ELSE wr[i].job.doc]
<1>1. wr[i].job.seq \in Nat /\ wr[i].job.doc \in Docs
  BY ParamTypes
<1>2. e \in Closure /\ e.text \in Docs \cup {None}
  BY <1>1 DEF Closure, Files
<1>3. gui' = [gui EXCEPT ![i] = Append(@, e)]
  BY DEF WriterFinishes
<1> QED BY <1>2, <1>3

LEMMA WriterTypes ==
    ASSUME ConfigTypes, NEW i \in Instances, WriterWorks(i) \/ WriterFinishes(i)
    PROVE  ConfigTypes'
<1>1. CASE WriterWorks(i)
  <2>1. TypeOK'
    BY <1>1, WorksTypes DEF ConfigTypes, WriterWorks
  <2>2. dirty' \in [Instances -> BOOLEAN]
    BY <1>1, NotifyTypes DEF WriterWorks
  <2> QED BY <1>1, <2>1, <2>2 DEF ConfigTypes, WriterWorks
<1>2. CASE WriterFinishes(i)
  <2>1. TypeOK'
    BY <1>2, FinishesTypes DEF ConfigTypes, WriterFinishes
  <2>2. dirty' \in [Instances -> BOOLEAN]
    BY <1>2, NotifyTypes DEF WriterFinishes
  <2>3. PICK e \in Closure : /\ e.kind = "done" /\ e.text \in Docs \cup {None}
                             /\ gui' = [gui EXCEPT ![i] = Append(@, e)]
    BY <1>2, Reported
  <2>4. /\ gui' \in [Instances -> Seq(Closure)]
        /\ \A j \in Instances : \A k \in 1..Len(gui'[j]) :
             IF gui'[j][k].kind = "done" THEN gui'[j][k].text \in Docs \cup {None}
                                         ELSE gui'[j][k].text \in Files
    BY <2>3, Posted
  <2> QED BY <1>2, <2>1, <2>2, <2>4 DEF ConfigTypes, WriterFinishes
<1> QED BY <1>1, <1>2

LEMMA ExternalTypes ==
    ASSUME ConfigTypes, NEW file \in Edits, External(file)
    PROVE  ConfigTypes'
<1>1. disk' \in Files
  BY Documents DEF External
<1>2. TypeOK'
  BY <1>1 DEF ConfigTypes, TypeOK, External
<1>3. dirty' \in [Instances -> BOOLEAN] /\ changes' \in Nat
  BY NotifyTypes DEF External, ConfigTypes
<1> QED BY <1>2, <1>3 DEF ConfigTypes, External

\* What the watcher posts.
LEMMA Noticed ==
    ASSUME ConfigTypes, NEW i \in Instances, WatcherPosts(i)
    PROVE  \E e \in Closure : /\ e.kind = "changed" /\ e.text = rd[i].text /\ e.text \in Files
                              /\ gui' = [gui EXCEPT ![i] = Append(@, e)]
<1> DEFINE e == [kind |-> "changed", seq |-> 0, text |-> rd[i].text]
<1>1. e \in Closure /\ e.text \in Files
  BY ParamTypes DEF Closure
<1>2. gui' = [gui EXCEPT ![i] = Append(@, e)]
  BY DEF WatcherPosts
<1> QED BY <1>1, <1>2

LEMMA WatcherTypes ==
    ASSUME ConfigTypes, NEW i \in Instances, WatcherReads(i) \/ WatcherPosts(i)
    PROVE  ConfigTypes'
<1>1. CASE WatcherReads(i)
  <2>1. disk \in Files
    BY DEF ConfigTypes, TypeOK
  <2>2. /\ dirty' \in [Instances -> BOOLEAN]
        /\ rd' \in [Instances -> [st : {"idle", "read"}, text : Files]]
    BY <1>1, <2>1 DEF ConfigTypes, WatcherReads
  <2>3. TypeOK'
    BY <1>1 DEF ConfigTypes, TypeOK, WatcherReads, vars
  <2> QED BY <1>1, <2>2, <2>3 DEF ConfigTypes, WatcherReads, vars
<1>2. CASE WatcherPosts(i)
  <2>1. rd' \in [Instances -> [st : {"idle", "read"}, text : Files]]
    BY <1>2, Documents DEF ConfigTypes, WatcherPosts, Resting
  <2>2. base' \in [Instances -> Docs \cup {None, Broken}] /\ stale' \in [Instances -> BOOLEAN]
    <3>1. rd[i].text # Missing => rd[i].text \in Docs \cup {None, Broken}
      BY ParamTypes DEF Files
    <3>2. RememberRead(i, rd[i].text)
      BY <1>2 DEF WatcherPosts
    <3> QED BY <3>1, <3>2 DEF RememberRead, ConfigTypes, TypeOK
  <2>3. TypeOK'
    BY <1>2, <2>2 DEF ConfigTypes, TypeOK, WatcherPosts
  <2>4. PICK e \in Closure : /\ e.kind = "changed" /\ e.text \in Files
                             /\ gui' = [gui EXCEPT ![i] = Append(@, e)]
    BY <1>2, Noticed
  <2>5. /\ gui' \in [Instances -> Seq(Closure)]
        /\ \A j \in Instances : \A k \in 1..Len(gui'[j]) :
             IF gui'[j][k].kind = "done" THEN gui'[j][k].text \in Docs \cup {None}
                                         ELSE gui'[j][k].text \in Files
    BY <2>4, Posted
  <2> QED BY <1>2, <2>1, <2>3, <2>5 DEF ConfigTypes, WatcherPosts
<1> QED BY <1>1, <1>2

\* What a result that is handled leaves OwnWrites with.
LEMMA OwnAfter ==
    ASSUME ConfigTypes, WritesInv, NEW i \in Instances, OnWriteDone(i)
    PROVE  LET seq == Head(gui[i]).seq
               text == Head(gui[i]).text IN
           /\ own' \in [Instances -> [pending : Seq(Job), last : Docs \cup {None}]]
           /\ own'[i].pending = SettledUpTo(own[i].pending, seq)
           /\ own[i].pending = <<>> => own'[i].pending = <<>>
           /\ own'[i].last = IF text = None THEN own[i].last ELSE text
           /\ \A j \in Instances : j # i => own'[j] = own[j]
<1> DEFINE seq == Head(gui[i]).seq
           text == Head(gui[i]).text
           r == SettledUpTo(own[i].pending, seq)
           l == IF text = None THEN own[i].last ELSE text
<1>1. WritesKnown(queued[i], chan[i], pend[i], wr[i], gui[i], own[i].pending)
  BY DEF WritesInv
<1>2. gui[i] # <<>> /\ Head(gui[i]).kind = "done" /\ gui' = [gui EXCEPT ![i] = Tail(@)]
  BY DEF OnWriteDone
<1>3. Head(gui[i]) \in Closure /\ text \in Docs \cup {None}
  BY <1>2, Ran
<1>4. r \in Seq(Job) /\ (own[i].pending = <<>> => r = <<>>)
  <2>1. /\ queued[i] \in Nat /\ chan[i] \in Seq(Job) /\ own[i].pending \in Seq(Job)
        /\ gui[i] \in Seq(Closure)
    BY ParamTypes
  <2>2. seq \in Nat /\ InOrder(queued[i], own[i].pending)
    BY <1>1, <1>3 DEF Closure, WritesKnown
  <2>3. seq <= queued[i]
    <3>1. Len(gui[i]) \in Nat \ {0} /\ gui[i][1] = Head(gui[i])
      BY <1>2, <2>1, TakenOff
    <3>2. seq <= queued[i] - Len(chan[i]) /\ Len(chan[i]) \in Nat
      BY <3>1, <1>1, <1>2, <2>1, NoElements DEF WritesKnown, InTurn
    <3> QED BY <3>2, <2>1, <2>2
  <2>4. r \in Seq(Job) /\ Len(r) <= Len(own[i].pending)
    BY <2>1, <2>2, <2>3, SettledIsInOrder
  <2> HIDE DEF r
  <2> QED BY <2>1, <2>4, NoElements
<1>5. l \in Docs \cup {None}
  BY <1>3, ParamTypes
<1>6. own' = [own EXCEPT ![i] = [pending |-> r, last |-> l]]
  BY DEF OnWriteDone, ConfigTypes
<1> HIDE DEF seq, text, r, l
<1>7. /\ own' \in [Instances -> [pending : Seq(Job), last : Docs \cup {None}]]
      /\ own'[i].pending = r /\ own'[i].last = l
      /\ own[i].pending = <<>> => own'[i].pending = <<>>
      /\ \A j \in Instances : j # i => own'[j] = own[j]
  BY <1>4, <1>5, <1>6 DEF ConfigTypes
<1> QED BY <1>7 DEF seq, text, r, l

LEMMA GuiTypes ==
    ASSUME ConfigTypes, WritesInv, NEW i \in Instances, OnWriteDone(i) \/ OnFileChanged(i)
    PROVE  ConfigTypes'
<1>1. gui[i] # <<>> /\ gui' = [gui EXCEPT ![i] = Tail(@)]
  BY DEF OnWriteDone, OnFileChanged
<1>2. /\ gui' \in [Instances -> Seq(Closure)]
      /\ \A j \in Instances : \A k \in 1..Len(gui'[j]) :
           IF gui'[j][k].kind = "done" THEN gui'[j][k].text \in Docs \cup {None}
                                       ELSE gui'[j][k].text \in Files
  BY <1>1, Ran
<1>3. CASE OnWriteDone(i)
  <2>1. own' \in [Instances -> [pending : Seq(Job), last : Docs \cup {None}]]
    BY <1>3, OwnAfter
  <2>2. TypeOK'
    BY <1>3 DEF ConfigTypes, TypeOK, OnWriteDone, vars
  <2> QED BY <1>2, <1>3, <2>1, <2>2 DEF ConfigTypes, OnWriteDone
<1>4. CASE OnFileChanged(i)
  <2>1. mem' \in [Instances -> Docs] /\ prot' \in [Instances -> BOOLEAN]
    <3>1. \/ mem' = mem /\ prot' = prot
          \/ /\ prot' = [prot EXCEPT ![i] = Head(gui[i]).text = Broken]
             /\ mem' = mem \/ mem' = [mem EXCEPT ![i] = Content(Head(gui[i]).text)]
      BY <1>4 DEF OnFileChanged
    <3>2. PICK b \in BOOLEAN, d \in Docs :
            \/ mem' = mem /\ prot' = prot
            \/ /\ prot' = [prot EXCEPT ![i] = b]
               /\ mem' = mem \/ mem' = [mem EXCEPT ![i] = d]
      BY <3>1, Documents
    <3>3. mem' \in [Instances -> Docs]
      BY <3>2 DEF ConfigTypes, TypeOK
    <3>4. prot' \in [Instances -> BOOLEAN]
      BY <3>2 DEF ConfigTypes
    <3> QED BY <3>3, <3>4
  <2>2. TypeOK'
    BY <1>4, <2>1 DEF ConfigTypes, TypeOK, OnFileChanged
  <2> QED BY <1>2, <1>4, <2>1, <2>2 DEF ConfigTypes, OnFileChanged
<1> QED BY <1>3, <1>4

-----------------------------------------------------------------------------
(* OwnWrites is exact.                                                      *)
LEMMA InitWrites == CInit => WritesInv
<1> SUFFICES ASSUME CInit, NEW i \in Instances
             PROVE  WritesKnown(queued[i], chan[i], pend[i], wr[i], gui[i], own[i].pending)
  BY DEF WritesInv
<1>1. /\ queued[i] = 0 /\ Len(chan[i]) = 0 /\ pend[i] = None /\ wr[i].st = "idle"
      /\ Len(gui[i]) = 0 /\ Len(own[i].pending) = 0
  BY Documents DEF CInit, Init
<1> QED BY <1>1 DEF WritesKnown, InOrder, LastReceived, InTurn, AllRemembered, NewestAwaited

\* Only instance i's writes change.
LEMMA OnlyItsWrites ==
    ASSUME WritesInv, NEW i \in Instances,
           \A j \in Instances : j # i =>
               /\ queued'[j] = queued[j] /\ chan'[j] = chan[j] /\ pend'[j] = pend[j]
               /\ wr'[j] = wr[j] /\ gui'[j] = gui[j] /\ own'[j] = own[j],
           WritesKnown(queued'[i], chan'[i], pend'[i], wr'[i], gui'[i], own'[i].pending)
    PROVE  WritesInv'
BY DEF WritesInv

LEMMA ChangeWrites ==
    ASSUME ConfigTypes, WritesInv, NEW i \in Instances, NEW x \in Ids, NEW v \in Values,
           Change(i, x, v)
    PROVE  WritesInv'
<1>1. TypeOK /\ Edit(i, x, v)
  BY DEF ConfigTypes, Change
<1>2. PICK job \in Job : /\ job.seq = queued[i] + 1
                         /\ [doc |-> mem'[i], seq |-> queued'[i]] = job
                         /\ chan' = [chan EXCEPT ![i] = Append(chan[i], job)]
  BY <1>1, EditTypes
<1>3. queued' = [queued EXCEPT ![i] = queued[i] + 1]
  BY <1>1, EditTypes
<1>4. own' = [own EXCEPT ![i].pending = Queued(own[i].pending, job)]
  BY <1>2 DEF Change, ConfigTypes
<1>5. /\ queued'[i] = queued[i] + 1 /\ chan'[i] = Append(chan[i], job)
      /\ own'[i].pending = Queued(own[i].pending, job)
      /\ \A j \in Instances : j # i =>
            queued'[j] = queued[j] /\ chan'[j] = chan[j] /\ own'[j] = own[j]
  BY <1>2, <1>3, <1>4 DEF ConfigTypes, TypeOK
<1>6. UNCHANGED <<pend, wr, gui>>
  BY <1>1 DEF Change, Edit
<1>7. WritesKnown(queued[i], chan[i], pend[i], wr[i], gui[i], own[i].pending)
  BY DEF WritesInv
<1>8. WritesKnown(queued[i] + 1, Append(chan[i], job), pend[i], wr[i], gui[i],
                  Queued(own[i].pending, job))
  BY <1>2, <1>7, ParamTypes, WritesQueued
<1>9. WritesKnown(queued'[i], chan'[i], pend'[i], wr'[i], gui'[i], own'[i].pending)
  BY <1>5, <1>6, <1>8
<1> QED BY <1>5, <1>6, <1>9, OnlyItsWrites

LEMMA WorksWrites ==
    ASSUME ConfigTypes, WritesInv, NEW i \in Instances, WriterWorks(i)
    PROVE  WritesInv'
<1>1. WritesKnown(queued[i], chan[i], pend[i], wr[i], gui[i], own[i].pending)
  BY DEF WritesInv
<1>2. UNCHANGED <<gui, own>>
  BY DEF WriterWorks
<1>3. ConfigTypes'
  BY WriterTypes
<1>4. wr'[i] \in Write
  BY <1>3, ParamTypes DEF ConfigTypes, TypeOK
<1>5. CASE Receive(i)
  <2>1. /\ chan'[i] = Tail(chan[i]) /\ pend'[i] = Head(chan[i])
        /\ \A j \in Instances : j # i => chan'[j] = chan[j] /\ pend'[j] = pend[j]
        /\ UNCHANGED <<queued, wr>> /\ wr[i].st = "idle" /\ chan[i] # <<>>
    BY <1>5 DEF Receive, ConfigTypes, TypeOK
  <2>2. WritesKnown(queued[i], Tail(chan[i]), Head(chan[i]), wr[i], gui[i], own[i].pending)
    BY <1>1, <2>1, ParamTypes, WritesReceived
  <2>3. WritesKnown(queued'[i], chan'[i], pend'[i], wr'[i], gui'[i], own'[i].pending)
    BY <1>2, <2>1, <2>2
  <2> QED BY <1>2, <2>1, <2>3, OnlyItsWrites
<1>6. CASE Debounced(i)
  <2>1. /\ pend'[i] = None /\ wr'[i].st = "based" /\ wr'[i].job = pend[i]
        /\ \A j \in Instances : j # i => wr'[j] = wr[j] /\ pend'[j] = pend[j]
        /\ UNCHANGED <<queued, chan>> /\ pend[i] # None
    BY <1>6 DEF Debounced, ConfigTypes, TypeOK
  <2>2. pend[i] \in Job
    BY <2>1, ParamTypes
  <2>3. WritesKnown(queued[i], chan[i], None, wr'[i], gui[i], own[i].pending)
    BY <1>1, <1>4, <2>1, <2>2, ParamTypes, WritesStarted
  <2>4. WritesKnown(queued'[i], chan'[i], pend'[i], wr'[i], gui'[i], own'[i].pending)
    BY <1>2, <2>1, <2>3
  <2> QED BY <1>2, <2>1, <2>4, OnlyItsWrites
<1>7. CASE LockAndRead(i) \/ Rename(i)
  <2>1. /\ wr[i].st # "idle" /\ wr'[i].st # "idle" /\ wr'[i].job = wr[i].job
        /\ \A j \in Instances : j # i => wr'[j] = wr[j]
        /\ UNCHANGED <<queued, chan, pend>>
    <3>1. wr[i] \in Write /\ wr \in [Instances -> Write]
      BY DEF ConfigTypes, TypeOK
    <3>2. CASE LockAndRead(i)
      BY <3>1, <3>2 DEF LockAndRead, Write
    <3>3. CASE Rename(i)
      BY <3>1, <3>3 DEF Rename, Write
    <3> QED BY <1>7, <3>2, <3>3
  <2>2. WritesKnown(queued[i], chan[i], pend[i], wr'[i], gui[i], own[i].pending)
    BY <1>1, <2>1, WritesAdvance
  <2>3. WritesKnown(queued'[i], chan'[i], pend'[i], wr'[i], gui'[i], own'[i].pending)
    BY <1>2, <2>1, <2>2
  <2> QED BY <1>2, <2>1, <2>3, OnlyItsWrites
<1> QED BY <1>5, <1>6, <1>7 DEF WriterWorks

LEMMA FinishesWrites ==
    ASSUME ConfigTypes, WritesInv, NEW i \in Instances, WriterFinishes(i)
    PROVE  WritesInv'
<1>1. WritesKnown(queued[i], chan[i], pend[i], wr[i], gui[i], own[i].pending)
  BY DEF WritesInv
<1>2. UNCHANGED <<queued, chan, pend, own>>
  BY DEF WriterFinishes, WriteAsGiven, Remember, WriteFails, DirSyncFailed
<1>3. wr[i].st # "idle" /\ wr' = [wr EXCEPT ![i] = Idle]
  BY FinishesTypes DEF WriterFinishes, ConfigTypes
<1>4. /\ wr'[i] = Idle /\ wr'[i].st = "idle" /\ wr'[i] \in Write
      /\ \A j \in Instances : j # i => wr'[j] = wr[j]
  BY <1>3, Documents DEF ConfigTypes, TypeOK
<1>5. PICK e \in Closure : /\ e.kind = "done" /\ e.seq = wr[i].job.seq
                           /\ e.text \in Docs \cup {None}
                           /\ gui' = [gui EXCEPT ![i] = Append(@, e)]
  BY Reported
<1>6. gui'[i] = Append(gui[i], e) /\ \A j \in Instances : j # i => gui'[j] = gui[j]
  BY <1>5, Posted
<1>7. WritesKnown(queued[i], chan[i], pend[i], wr'[i], Append(gui[i], e), own[i].pending)
  BY <1>1, <1>3, <1>4, <1>5, ParamTypes, WritesReported
<1>8. WritesKnown(queued'[i], chan'[i], pend'[i], wr'[i], gui'[i], own'[i].pending)
  BY <1>2, <1>6, <1>7
<1> QED BY <1>2, <1>4, <1>6, <1>8, OnlyItsWrites

LEMMA PostsWrites ==
    ASSUME ConfigTypes, WritesInv, NEW i \in Instances, WatcherPosts(i)
    PROVE  WritesInv'
<1>1. WritesKnown(queued[i], chan[i], pend[i], wr[i], gui[i], own[i].pending)
  BY DEF WritesInv
<1>2. UNCHANGED <<queued, chan, pend, wr, own>>
  BY DEF WatcherPosts
<1>3. PICK e \in Closure : /\ e.kind = "changed" /\ e.text \in Files
                           /\ gui' = [gui EXCEPT ![i] = Append(@, e)]
  BY Noticed
<1>4. gui'[i] = Append(gui[i], e) /\ \A j \in Instances : j # i => gui'[j] = gui[j]
  BY <1>3, Posted
<1>5. WritesKnown(queued[i], chan[i], pend[i], wr[i], Append(gui[i], e), own[i].pending)
  BY <1>1, <1>3, ParamTypes, WritesNoticed
<1>6. WritesKnown(queued'[i], chan'[i], pend'[i], wr'[i], gui'[i], own'[i].pending)
  BY <1>2, <1>4, <1>5
<1> QED BY <1>2, <1>4, <1>6, OnlyItsWrites

LEMMA GuiWrites ==
    ASSUME ConfigTypes, WritesInv, NEW i \in Instances, OnWriteDone(i) \/ OnFileChanged(i)
    PROVE  WritesInv'
<1>1. WritesKnown(queued[i], chan[i], pend[i], wr[i], gui[i], own[i].pending)
  BY DEF WritesInv
<1>2. gui[i] # <<>> /\ gui' = [gui EXCEPT ![i] = Tail(@)] /\ UNCHANGED <<queued, chan, pend, wr>>
  BY DEF OnWriteDone, OnFileChanged, vars
<1>3. gui'[i] = Tail(gui[i]) /\ \A j \in Instances : j # i => gui'[j] = gui[j]
  BY <1>2, Ran
<1>4. CASE OnWriteDone(i)
  <2>1. /\ own'[i].pending = SettledUpTo(own[i].pending, Head(gui[i]).seq)
        /\ \A j \in Instances : j # i => own'[j] = own[j]
    BY <1>4, OwnAfter
  <2>2. WritesKnown(queued[i], chan[i], pend[i], wr[i], Tail(gui[i]),
                    SettledUpTo(own[i].pending, Head(gui[i]).seq))
    BY <1>1, <1>4, ParamTypes, WritesSettled DEF OnWriteDone
  <2>3. WritesKnown(queued'[i], chan'[i], pend'[i], wr'[i], gui'[i], own'[i].pending)
    BY <1>2, <1>3, <2>1, <2>2
  <2> QED BY <1>2, <1>3, <2>1, <2>3, OnlyItsWrites
<1>5. CASE OnFileChanged(i)
  <2>1. own' = own
    BY <1>5 DEF OnFileChanged
  <2>2. WritesKnown(queued[i], chan[i], pend[i], wr[i], Tail(gui[i]), own[i].pending)
    BY <1>1, <1>5, ParamTypes, WritesHeard DEF OnFileChanged
  <2>3. WritesKnown(queued'[i], chan'[i], pend'[i], wr'[i], gui'[i], own'[i].pending)
    BY <1>2, <1>3, <2>1, <2>2
  <2> QED BY <1>2, <1>3, <2>1, <2>3, OnlyItsWrites
<1> QED BY <1>4, <1>5

LEMMA SameWrites ==
    ASSUME WritesInv, UNCHANGED <<queued, chan, pend, wr, gui, own>>
    PROVE  WritesInv'
BY DEF WritesInv

LEMMA NextWrites ==
    ASSUME ConfigTypes, WritesInv, [CNext]_allVars
    PROVE  ConfigTypes' /\ WritesInv'
<1>1. CASE UNCHANGED allVars
  <2>1. WritesInv'
    BY <1>1, SameWrites DEF allVars, vars, cfgVars
  <2>2. ConfigTypes'
    BY <1>1 DEF ConfigTypes, TypeOK, allVars, vars, cfgVars
  <2> QED BY <2>1, <2>2
<1>2. ASSUME NEW i \in Instances, NEW x \in Ids, NEW v \in Values, Change(i, x, v)
      PROVE  ConfigTypes' /\ WritesInv'
  BY <1>2, ChangeTypes, ChangeWrites
<1>3. ASSUME NEW i \in Instances, NEW x \in Ids, NEW v \in Values, ChangeBlocked(i, x, v)
      PROVE  ConfigTypes' /\ WritesInv'
  <2>1. UNCHANGED <<queued, chan, pend, wr, gui, own>>
    BY <1>3 DEF ChangeBlocked, cfgVars
  <2> QED BY <1>3, <2>1, ChangeTypes, SameWrites
<1>4. ASSUME NEW i \in Instances, WriterWorks(i) \/ WriterFinishes(i)
      PROVE  ConfigTypes' /\ WritesInv'
  BY <1>4, WriterTypes, WorksWrites, FinishesWrites
<1>5. ASSUME NEW i \in Instances, WatcherReads(i) PROVE ConfigTypes' /\ WritesInv'
  <2>1. UNCHANGED <<queued, chan, pend, wr, gui, own>>
    BY <1>5 DEF WatcherReads, vars
  <2> QED BY <1>5, <2>1, WatcherTypes, SameWrites
<1>6. ASSUME NEW i \in Instances, WatcherPosts(i) PROVE ConfigTypes' /\ WritesInv'
  BY <1>6, WatcherTypes, PostsWrites
<1>7. ASSUME NEW i \in Instances, OnWriteDone(i) \/ OnFileChanged(i)
      PROVE  ConfigTypes' /\ WritesInv'
  BY <1>7, GuiTypes, GuiWrites
<1>8. ASSUME NEW file \in Edits, External(file) PROVE ConfigTypes' /\ WritesInv'
  <2>1. UNCHANGED <<queued, chan, pend, wr, gui, own>>
    BY <1>8 DEF External
  <2> QED BY <1>8, <2>1, ExternalTypes, SameWrites
<1> QED BY <1>1, <1>2, <1>3, <1>4, <1>5, <1>6, <1>7, <1>8 DEF CNext

\* Once nothing is on its way and no result waits, nothing is remembered.

LEMMA WritesExact == ConfigTypes /\ WritesInv => OwnWritesExact
<1> SUFFICES ASSUME ConfigTypes, WritesInv, NEW i \in Instances
             PROVE  LET waiting == {gui[i][j].seq : j \in {n \in 1..Len(gui[i]) :
                                                            gui[i][n].kind = "done"}}
                        flying == {chan[i][j].seq : j \in 1..Len(chan[i])}
                                  \cup (IF pend[i] = None THEN {} ELSE {pend[i].seq})
                                  \cup (IF wr[i].st = "idle" THEN {} ELSE {wr[i].job.seq})
                        known == {own[i].pending[j].seq : j \in 1..Len(own[i].pending)}
                    IN /\ \A s \in flying \cup waiting :
                             s + MaxPending > queued[i] => s \in known
                       /\ known # {} => flying \cup waiting # {}
  BY DEF OwnWritesExact
<1> DEFINE waiting == {gui[i][j].seq : j \in {n \in 1..Len(gui[i]) : gui[i][n].kind = "done"}}
           flying == {chan[i][j].seq : j \in 1..Len(chan[i])}
                     \cup (IF pend[i] = None THEN {} ELSE {pend[i].seq})
                     \cup (IF wr[i].st = "idle" THEN {} ELSE {wr[i].job.seq})
           q == own[i].pending
           known == {q[j].seq : j \in 1..Len(q)}
<1>1. WritesKnown(queued[i], chan[i], pend[i], wr[i], gui[i], q)
  BY DEF WritesInv
<1>2. /\ queued[i] \in Nat /\ chan[i] \in Seq(Job) /\ pend[i] \in Job \cup {None}
      /\ wr[i] \in Write /\ gui[i] \in Seq(Closure) /\ q \in Seq(Job) /\ wr[i].job.seq \in Nat
  BY ParamTypes
<1>3. Len(q) \in Nat /\ Len(chan[i]) \in Nat
  BY <1>2, NoElements
<1>4. ASSUME NEW s \in flying \cup waiting
      PROVE  s \in Nat /\ s <= queued[i] /\ Remembered(queued[i], q, s)
  <2>1. CASE s \in waiting
    <3>1. PICK k \in 1..Len(gui[i]) : gui[i][k].kind = "done" /\ s = gui[i][k].seq
      BY <2>1
    <3>2. gui[i][k] \in Closure
      BY <1>2, <3>1
    <3>3. s \in Nat /\ s <= queued[i] - Len(chan[i]) /\ Remembered(queued[i], q, s)
      BY <1>1, <3>1, <3>2 DEF WritesKnown, InTurn, AllRemembered, Closure
    <3> QED BY <3>3, <1>2, <1>3
  <2>2. CASE s \in {chan[i][j].seq : j \in 1..Len(chan[i])}
    <3>1. PICK k \in 1..Len(chan[i]) : s = chan[i][k].seq
      BY <2>2
    <3>2. chan[i][k] \in Job /\ s = queued[i] - Len(chan[i]) + k
      BY <1>1, <1>2, <3>1 DEF WritesKnown, InOrder
    <3>3. Remembered(queued[i], q, s) /\ s \in Nat
      BY <1>1, <3>1, <3>2 DEF WritesKnown, AllRemembered, Job
    <3> QED BY <1>2, <1>3, <3>1, <3>2, <3>3
  <2>3. CASE pend[i] # None /\ s = pend[i].seq
    <3>1. pend[i] \in Job /\ s = queued[i] - Len(chan[i])
      BY <1>1, <1>2, <2>3 DEF WritesKnown, LastReceived
    <3>2. Remembered(queued[i], q, s) /\ s \in Nat
      BY <1>1, <2>3, <3>1 DEF WritesKnown, AllRemembered, Job
    <3> QED BY <1>2, <1>3, <3>1, <3>2
  <2>4. CASE wr[i].st # "idle" /\ s = wr[i].job.seq
    <3>1. s = queued[i] - Len(chan[i])
      BY <1>1, <2>4 DEF WritesKnown, LastReceived
    <3> QED BY <1>1, <1>2, <1>3, <2>4, <3>1 DEF WritesKnown, AllRemembered
  <2> QED BY <2>1, <2>2, <2>3, <2>4
<1>5. ASSUME NEW s \in flying \cup waiting, s + MaxPending > queued[i] PROVE s \in known
  <2>1. s \in Nat /\ s <= queued[i] /\ s > queued[i] - Len(q)
    BY <1>2, <1>3, <1>4, <1>5 DEF Remembered
  <2> DEFINE k == s - (queued[i] - Len(q))
  <2>2. Len(q) <= queued[i] /\ \A j \in 1..Len(q) : q[j].seq = queued[i] - Len(q) + j
    BY <1>1 DEF WritesKnown, InOrder
  <2>3. k \in 1..Len(q) /\ s = queued[i] - Len(q) + k
    BY <1>2, <1>3, <2>1, <2>2
  <2>4. q[k].seq = s
    BY <2>2, <2>3
  <2> QED BY <2>3, <2>4
<1>6. ASSUME known # {} PROVE flying \cup waiting # {}
  <2>1. Len(q) > 0
    BY <1>3, <1>6
  <2>2. \/ Len(chan[i]) > 0 \/ pend[i] # None \/ wr[i].st # "idle"
        \/ \E k \in 1..Len(gui[i]) : gui[i][k].kind = "done" /\ gui[i][k].seq = queued[i]
    BY <1>1, <2>1 DEF WritesKnown, NewestAwaited
  <2>3. Len(chan[i]) > 0 => chan[i][1].seq \in flying
    BY <1>3
  <2> QED BY <2>2, <2>3
<1> QED BY <1>5, <1>6

(***************************************************************************)
(* OwnWrites knows every save on its way, up to its bound, and nothing     *)
(* else: for any number of apps, settings, saves and bounds, and any       *)
(* changes made by others.                                                 *)
(***************************************************************************)
THEOREM OwnWritesAreExact == CSpec => []OwnWritesExact
<1>1. CInit => ConfigTypes /\ WritesInv
  BY InitConfigTypes, InitWrites
<1>2. ConfigTypes /\ WritesInv /\ [CNext]_allVars => (ConfigTypes /\ WritesInv)'
  BY NextWrites
<1>3. ConfigTypes /\ WritesInv => OwnWritesExact
  BY WritesExact
<1> QED BY <1>1, <1>2, <1>3, PTL DEF CSpec

-----------------------------------------------------------------------------
(* The settings in use are those of the file.                               *)

\* What a closure more, or one less, changes.
LEMMA ToldMore ==
    ASSUME NEW g \in Seq(Closure), NEW e \in Closure, NEW d, NEW m, NEW p,
           AllTold(g, d, m, p), Told(e, d, m, p)
    PROVE  AllTold(Append(g, e), d, m, p)
<1>1. /\ Len(Append(g, e)) = Len(g) + 1 /\ Append(g, e)[Len(g) + 1] = e /\ Len(g) \in Nat
      /\ \A k \in 1..Len(g) : Append(g, e)[k] = g[k]
  BY Appended, NoElements
<1>2. ASSUME NEW k \in 1..Len(Append(g, e)) PROVE Told(Append(g, e)[k], d, m, p)
  <2>1. k = Len(g) + 1 \/ k \in 1..Len(g)
    BY <1>1
  <2> QED BY <2>1, <1>1 DEF AllTold
<1> QED BY <1>2 DEF AllTold

LEMMA ToldLess ==
    ASSUME NEW g \in Seq(Closure), NEW d, NEW m, NEW p, g # <<>>, AllTold(g, d, m, p)
    PROVE  AllTold(Tail(g), d, m, p) /\ Told(Head(g), d, m, p)
<1>1. /\ Len(g) \in Nat \ {0} /\ Head(g) = g[1] /\ Len(Tail(g)) = Len(g) - 1
      /\ \A k \in 1..Len(Tail(g)) : Tail(g)[k] = g[k + 1]
  BY TakenOff
<1>2. \A k \in 1..Len(Tail(g)) : k + 1 \in 1..Len(g)
  BY <1>1
<1>3. 1 \in 1..Len(g)
  BY <1>1
<1> QED BY <1>1, <1>2, <1>3 DEF AllTold

LEMMA NoneTold ==
    ASSUME NEW g \in Seq(Closure), g = <<>>, NEW d, NEW m, NEW p
    PROVE  AllTold(g, d, m, p) /\ ~HasNews(g)
BY NoElements DEF AllTold, HasNews

LEMMA NewsMore ==
    ASSUME NEW g \in Seq(Closure), NEW e \in Closure
    PROVE  /\ e.kind = "changed" => HasNews(Append(g, e))
           /\ HasNews(g) => HasNews(Append(g, e))
           /\ HasNews(Append(g, e)) => HasNews(g) \/ e.kind = "changed"
<1>1. /\ Len(Append(g, e)) = Len(g) + 1 /\ Append(g, e)[Len(g) + 1] = e /\ Len(g) \in Nat
      /\ \A k \in 1..Len(g) : Append(g, e)[k] = g[k]
  BY Appended, NoElements
<1>2. Len(g) + 1 \in 1..Len(Append(g, e)) /\ 1..Len(g) \subseteq 1..Len(Append(g, e))
  BY <1>1
<1>3. ASSUME HasNews(Append(g, e)) PROVE HasNews(g) \/ e.kind = "changed"
  <2>1. PICK k \in 1..Len(Append(g, e)) : Append(g, e)[k].kind = "changed"
    BY <1>3 DEF HasNews
  <2>2. k = Len(g) + 1 \/ k \in 1..Len(g)
    BY <1>1
  <2> QED BY <2>1, <2>2, <1>1 DEF HasNews
<1> QED BY <1>1, <1>2, <1>3 DEF HasNews

LEMMA NewsLess ==
    ASSUME NEW g \in Seq(Closure), g # <<>>
    PROVE  /\ HasNews(Tail(g)) => HasNews(g)
           /\ HasNews(g) => HasNews(Tail(g)) \/ Head(g).kind = "changed"
           /\ Head(g).kind = "changed" => HasNews(g)
<1>1. /\ Len(g) \in Nat \ {0} /\ Head(g) = g[1] /\ Len(Tail(g)) = Len(g) - 1
      /\ \A k \in 1..Len(Tail(g)) : Tail(g)[k] = g[k + 1]
  BY TakenOff
<1>2. \A k \in 1..Len(Tail(g)) : k + 1 \in 1..Len(g)
  BY <1>1
<1>3. 1 \in 1..Len(g)
  BY <1>1
<1>4. ASSUME HasNews(g) PROVE HasNews(Tail(g)) \/ Head(g).kind = "changed"
  <2>1. PICK k \in 1..Len(g) : g[k].kind = "changed"
    BY <1>4 DEF HasNews
  <2>2. CASE k = 1
    BY <2>1, <2>2, <1>1
  <2>3. CASE k # 1
    <3>1. k - 1 \in 1..Len(Tail(g)) /\ Tail(g)[k - 1] = g[k]
      BY <2>3, <1>1
    <3> QED BY <3>1, <2>1 DEF HasNews
  <2> QED BY <2>2, <2>3
<1> QED BY <1>1, <1>2, <1>3, <1>4 DEF HasNews

\* While nothing is noticed or reported, nothing is to be told.
LEMMA CalmIsQuiet ==
    ASSUME ConfigTypes, NEW i \in Instances, Calm(i)
    PROVE  ~Coming(i) /\ wr[i].st = "idle" /\ gui[i] = <<>> /\ ~HasNews(gui[i])
           /\ ~dirty[i] /\ rd[i].st = "idle"
BY ParamTypes, NoneTold DEF Calm, Coming

LEMMA InitFollows == ASSUME CInit, NEW i \in Instances PROVE Follows(i)
<1>1. ConfigTypes
  BY InitConfigTypes
<1>2. /\ gui[i] = <<>> /\ dirty[i] = FALSE /\ rd[i].st = "idle" /\ wr[i].st = "idle"
      /\ chan[i] = <<>> /\ pend[i] = None /\ prot[i] = FALSE
  BY Documents DEF CInit, Init, Resting
<1>3. disk # Broken /\ (disk = Missing \/ base[i] = disk) /\ mem[i] = Content(disk)
  BY Documents DEF CInit, Init, Content
<1>4. AllTold(gui[i], disk, mem[i], prot[i]) /\ ~HasNews(gui[i])
  BY <1>1, <1>2, ParamTypes, NoneTold
<1>5. ~Coming(i)
  BY <1>2, <1>4 DEF Coming
<1>6. NewestInUse(i) /\ OneAtATime(i) /\ FileKnown(i)
  BY <1>2, <1>3, <1>4 DEF NewestInUse, OneAtATime, FileKnown, Calm
<1>7. EchoInUse(i) /\ ToldInUse(i)
  BY <1>2, <1>3, <1>5 DEF EchoInUse, ToldInUse
<1> QED BY <1>6, <1>7 DEF Follows

LEMMA ChangeFollows ==
    ASSUME ConfigTypes, ConfigTypes', NEW i \in Instances, NEW x \in Ids, NEW v \in Values,
           Follows(i), Change(i, x, v), Calm(i)
    PROVE  Follows(i)'
<1>1. TypeOK /\ Edit(i, x, v) /\ ~prot[i]
  BY DEF ConfigTypes, Change
<1>2. PICK job \in Job : job.doc = mem'[i] /\ chan' = [chan EXCEPT ![i] = Append(chan[i], job)]
  BY <1>1, EditTypes
<1>3. /\ chan'[i] = Append(chan[i], job) /\ chan'[i] # <<>>
      /\ chan'[i][Len(chan'[i])].doc = mem'[i]
  <2>1. chan[i] \in Seq(Job) /\ chan'[i] = Append(chan[i], job)
    BY <1>1, <1>2 DEF TypeOK
  <2> QED BY <1>2, <2>1, Appended
<1>4. UNCHANGED <<disk, base, pend, wr, failed, prot, dirty, rd, gui>>
  BY <1>1 DEF Change, Edit
<1>5. Calm(i)' /\ ~Coming(i) /\ ~Coming(i)' /\ wr[i].st = "idle"
  BY <1>4, CalmIsQuiet DEF Calm, Coming, HasNews
<1>6. NewestInUse(i)'
  BY <1>3, <1>4, <1>5 DEF NewestInUse
<1>7. OneAtATime(i)'
  BY <1>1, <1>4, <1>5 DEF OneAtATime
<1>8. FileKnown(i)'
  <2>1. AllTold(gui'[i], disk', mem'[i], prot'[i])
    BY <1>4, CalmIsQuiet, ParamTypes, NoneTold
  <2> QED BY <2>1, <1>4, <1>5 DEF FileKnown, Follows
<1>9. EchoInUse(i)' /\ ToldInUse(i)'
  <2>1. ~Settled(i)'
    BY <1>3 DEF Settled
  <2> QED BY <2>1, <1>4, <1>5 DEF EchoInUse, ToldInUse, Follows
<1> QED BY <1>6, <1>7, <1>8, <1>9 DEF Follows

LEMMA BlockedFollows ==
    ASSUME ConfigTypes, NEW i \in Instances, NEW x \in Ids, NEW v \in Values,
           Follows(i), ChangeBlocked(i, x, v)
    PROVE  Follows(i)'
<1>1. prot[i] /\ UNCHANGED <<disk, base, chan, pend, wr, failed, own, prot, dirty, rd, gui>>
  BY DEF ChangeBlocked, cfgVars
<1>2. Settled(i) /\ Settled(i)'
  BY <1>1 DEF Follows, OneAtATime, Settled
<1>3. Coming(i)' <=> Coming(i)
  BY <1>1 DEF Coming, HasNews
<1>4. NewestInUse(i)'
  BY <1>2 DEF NewestInUse, Settled
<1>5. OneAtATime(i)'
  BY <1>1, <1>2 DEF Follows, OneAtATime, Calm
<1>6. FileKnown(i)'
  <2>1. AllTold(gui'[i], disk', mem'[i], prot'[i])
    BY <1>1 DEF Follows, FileKnown, AllTold, Told
  <2> QED BY <2>1, <1>1 DEF Follows, FileKnown
<1>7. EchoInUse(i)'
  BY <1>1, <1>3 DEF Follows, EchoInUse
<1>8. ToldInUse(i)'
  BY <1>1, <1>3 DEF Follows, ToldInUse
<1> QED BY <1>4, <1>5, <1>6, <1>7, <1>8 DEF Follows

LEMMA ReceiveFollows ==
    ASSUME ConfigTypes, NEW i \in Instances, Follows(i), Receive(i), UNCHANGED <<own, prot, rd, gui, dirty>>
    PROVE  Follows(i)'
<1>1. /\ chan[i] # <<>> /\ chan[i] \in Seq(Job) /\ wr[i].st = "idle"
      /\ chan'[i] = Tail(chan[i]) /\ pend'[i] = Head(chan[i])
      /\ UNCHANGED <<disk, mem, base, wr, failed>>
  BY DEF Receive, ConfigTypes, TypeOK
<1>2. /\ Len(chan[i]) \in Nat \ {0} /\ Head(chan[i]) = chan[i][1] /\ Head(chan[i]) \in Job
      /\ Tail(chan[i]) \in Seq(Job) /\ Len(Tail(chan[i])) = Len(chan[i]) - 1
      /\ \A k \in 1..Len(Tail(chan[i])) : Tail(chan[i])[k] = chan[i][k + 1]
  BY <1>1, TakenOff
<1>3. pend'[i] # None /\ ~Settled(i) /\ ~Settled(i)'
  BY <1>1, <1>2 DEF Settled
<1>4. Calm(i) /\ Calm(i)' /\ ~prot[i]
  BY <1>1, <1>3 DEF Follows, OneAtATime, Calm
<1>5. Coming(i)' <=> Coming(i)
  BY DEF Coming, HasNews
<1>6. NewestInUse(i)'
  <2>1. chan[i][Len(chan[i])].doc = mem[i]
    BY <1>1 DEF Follows, NewestInUse
  <2>2. chan'[i] # <<>> => chan'[i][Len(chan'[i])].doc = mem[i]
    <3>1. Tail(chan[i]) # <<>> => Len(Tail(chan[i])) \in 1..Len(Tail(chan[i]))
      <4>1. Tail(chan[i]) # <<>> => Len(Tail(chan[i])) # 0
        BY <1>2, NoElements
      <4> QED BY <4>1, <1>2
    <3>2. chan'[i] # <<>> => chan'[i][Len(chan'[i])] = chan[i][Len(chan[i])]
      BY <1>1, <1>2, <3>1
    <3> QED BY <3>2, <2>1
  <2>3. chan'[i] = <<>> => pend'[i].doc = mem[i]
    <3>1. Tail(chan[i]) = <<>> => Len(chan[i]) = 1
      <4>1. Tail(chan[i]) = <<>> => Len(Tail(chan[i])) = 0
        BY <1>2, NoElements
      <4> QED BY <4>1, <1>2
    <3> QED BY <3>1, <2>1, <1>1, <1>2
  <2> QED BY <1>1, <2>2, <2>3 DEF NewestInUse
<1>7. OneAtATime(i)'
  BY <1>1, <1>4 DEF OneAtATime
<1>8. FileKnown(i)'
  BY <1>1 DEF Follows, FileKnown
<1>9. EchoInUse(i)' /\ ToldInUse(i)'
  BY <1>1, <1>3, <1>5 DEF Follows, EchoInUse, ToldInUse
<1> QED BY <1>6, <1>7, <1>8, <1>9 DEF Follows

LEMMA DebouncedFollows ==
    ASSUME ConfigTypes, NEW i \in Instances, Follows(i), Debounced(i), UNCHANGED <<own, prot, rd, gui, dirty>>
    PROVE  Follows(i)'
<1>1. /\ chan[i] = <<>> /\ pend[i] # None /\ pend'[i] = None
      /\ wr'[i].st = "based" /\ wr'[i].job = pend[i] /\ wr'[i].base = base[i]
      /\ UNCHANGED <<disk, mem, base, chan, failed>>
  BY DEF Debounced, ConfigTypes, TypeOK
<1>2. Calm(i) /\ ~prot[i] /\ ~Settled(i)'
  BY <1>1 DEF Follows, OneAtATime, Settled
<1>3. gui[i] = <<>> /\ ~dirty[i] /\ rd[i].st = "idle"
  BY <1>2, CalmIsQuiet
<1>4. Coming(i)' <=> Coming(i)
  BY DEF Coming, HasNews
<1>5. NewestInUse(i)'
  BY <1>1 DEF Follows, NewestInUse
<1>6. OneAtATime(i)'
  BY <1>1, <1>2, <1>3 DEF OneAtATime
<1>7. FileKnown(i)'
  BY <1>1 DEF Follows, FileKnown
<1>8. EchoInUse(i)' /\ ToldInUse(i)'
  BY <1>1, <1>2, <1>4 DEF Follows, EchoInUse, ToldInUse
<1> QED BY <1>5, <1>6, <1>7, <1>8 DEF Follows

\* The file is as the app last saw it, so what is written is the settings.
LEMMA LockAndReadFollows ==
    ASSUME ConfigTypes, NEW i \in Instances, Follows(i), LockAndRead(i), UNCHANGED <<own, prot, rd, gui, dirty>>
    PROVE  Follows(i)'
<1>1. /\ wr[i].st = "based" /\ wr'[i].st = "read" /\ wr'[i].job = wr[i].job
      /\ wr'[i].out = Out(wr[i].base, wr[i].job.doc, disk)
      /\ UNCHANGED <<disk, mem, base, chan, pend, failed>>
  <2>1. wr[i] \in Write /\ wr \in [Instances -> Write]
    BY DEF ConfigTypes, TypeOK
  <2> QED BY <2>1 DEF LockAndRead, Write
<1>2. /\ gui[i] = <<>> /\ ~dirty[i] /\ rd[i].st = "idle" /\ ~prot[i]
      /\ chan[i] = <<>> /\ pend[i] = None
  BY <1>1 DEF Follows, OneAtATime, Settled, Calm
<1>3. wr'[i].out = wr'[i].job.doc
  <2>1. disk = Missing \/ wr[i].base = disk
    BY <1>1, <1>2 DEF Follows, FileKnown
  <2> QED BY <2>1, <1>1 DEF Out
<1>4. Coming(i)' <=> Coming(i)
  BY DEF Coming, HasNews
<1>5. NewestInUse(i)'
  BY <1>1 DEF Follows, NewestInUse
<1>6. OneAtATime(i)'
  BY <1>1, <1>2 DEF OneAtATime
<1>7. FileKnown(i)'
  BY <1>1, <1>3 DEF Follows, FileKnown
<1>8. EchoInUse(i)' /\ ToldInUse(i)'
  BY <1>1, <1>4 DEF Follows, EchoInUse, ToldInUse, Settled
<1> QED BY <1>5, <1>6, <1>7, <1>8 DEF Follows

LEMMA RenameFollows ==
    ASSUME ConfigTypes, NEW i \in Instances, Follows(i), Rename(i), Notify, UNCHANGED <<own, prot, rd, gui>>
    PROVE  Follows(i)'
<1>1. /\ wr[i].st = "read" /\ wr'[i].st = "renamed" /\ wr'[i].job = wr[i].job
      /\ wr'[i].out = wr[i].out /\ disk' = wr[i].out
      /\ UNCHANGED <<mem, base, chan, pend, failed>>
  <2>1. wr[i] \in Write /\ wr \in [Instances -> Write]
    BY DEF ConfigTypes, TypeOK
  <2> QED BY <2>1 DEF Rename, Write
<1>2. /\ gui[i] = <<>> /\ ~dirty[i] /\ rd[i].st = "idle" /\ ~prot[i]
      /\ chan[i] = <<>> /\ pend[i] = None
  BY <1>1 DEF Follows, OneAtATime, Settled, Calm
<1>3. disk' = wr[i].job.doc /\ disk' = mem[i]
  BY <1>1 DEF Follows, FileKnown, NewestInUse
<1>4. (disk' = disk /\ dirty' = dirty) \/ dirty'[i]
  BY DEF Notify
<1>5. ~HasNews(gui[i]) /\ AllTold(gui'[i], disk', mem'[i], prot'[i])
  BY <1>2, ParamTypes, NoneTold
<1>6. NewestInUse(i)'
  BY <1>1 DEF Follows, NewestInUse
<1>7. OneAtATime(i)'
  BY <1>1, <1>2 DEF OneAtATime
<1>8. FileKnown(i)'
  BY <1>1, <1>2, <1>3, <1>4, <1>5 DEF Follows, FileKnown
<1>9. EchoInUse(i)'
  BY <1>1, <1>2, <1>3 DEF EchoInUse
<1>10. ToldInUse(i)'
  <2>1. ~Settled(i)' /\ ~Coming(i)
    BY <1>1, <1>2, <1>5 DEF Settled, Coming
  <2>2. ~Coming(i)' => disk' = disk
    BY <1>4 DEF Coming
  <2> QED BY <2>1, <2>2 DEF Follows, ToldInUse
<1> QED BY <1>6, <1>7, <1>8, <1>9, <1>10 DEF Follows

LEMMA Apart ==
    /\ \A doc \in Docs : doc # Missing /\ doc # Broken /\ doc # None
    /\ Missing # Broken /\ Missing # None /\ Broken # None
BY ConstantsAssumption

\* What a finished write, and the result that it reports, must leave true.
LEMMA FinishesFollows ==
    ASSUME ConfigTypes, NEW i \in Instances, Follows(i), WriterFinishes(i)
    PROVE  Follows(i)'
<1>1. PICK e \in Closure :
        /\ e.kind = "done" /\ e.text = IF failed'[i] THEN None ELSE wr[i].job.doc
        /\ gui' = [gui EXCEPT ![i] = Append(gui[i], e)]
  BY Reported
<1>2. gui[i] \in Seq(Closure) /\ gui'[i] = Append(gui[i], e) /\ wr[i].job.doc \in Docs
  BY <1>1, ParamTypes DEF ConfigTypes
<1>3. /\ UNCHANGED <<own, prot, rd, mem, chan, pend>> /\ Notify /\ wr[i].st # "idle"
      /\ WriteAsGiven(i) \/ Remember(i) \/ WriteFails(i) \/ DirSyncFailed(i)
  BY DEF WriterFinishes, WriteAsGiven, Remember, WriteFails, DirSyncFailed
<1>4. wr'[i].st = "idle"
  BY <1>3, FinishesTypes, Documents DEF ConfigTypes, TypeOK
<1>5. /\ chan[i] = <<>> /\ pend[i] = None /\ ~prot[i] /\ Settled(i)'
      /\ wr[i].st \in {"based", "read"} => gui[i] = <<>> /\ ~dirty[i] /\ rd[i].st = "idle"
      /\ wr[i].job.doc = mem[i]
  BY <1>3, <1>4 DEF Follows, OneAtATime, NewestInUse, Settled, Calm
<1>6. HasNews(gui'[i]) <=> HasNews(gui[i])
  <2>1. /\ HasNews(gui[i]) => HasNews(Append(gui[i], e))
        /\ HasNews(Append(gui[i], e)) => HasNews(gui[i]) \/ e.kind = "changed"
    BY <1>2, NewsMore
  <2> QED BY <2>1, <1>1, <1>2
<1>7. gui[i] = <<>> => ~HasNews(gui[i]) /\ AllTold(gui[i], disk', mem[i], prot[i])
  BY <1>2, NoneTold
<1>8. (disk' = disk /\ dirty' = dirty) \/ dirty'[i]
  BY <1>3 DEF Notify
<1> DEFINE Heard == disk' # Broken /\ (e.text # None => e.text = disk' /\ mem[i] = disk')
           Read == disk' = Missing \/ base'[i] = disk' \/ dirty'[i] \/ rd[i].st = "read"
           Others == /\ AllTold(gui[i], disk', mem[i], prot[i])
                     /\ rd[i].st = "read" => rd[i].text = disk'
           Echo == mem[i] = disk' \/ ~Coming(i)'
           Same == ~Coming(i)' => failed'[i] \/ mem[i] = disk'
<1>9. ASSUME WriteAsGiven(i) PROVE Heard /\ Read /\ Others /\ Echo /\ Same
  <2>1. wr[i].st = "based" /\ wr[i].base = None /\ disk' = mem[i] /\ disk' \in Docs
    BY <1>9, <1>2, <1>5 DEF WriteAsGiven
  <2>2. base[i] = None /\ (disk = Missing \/ base[i] = disk)
    BY <2>1, <1>5 DEF Follows, FileKnown
  <2>3. dirty'[i]
    BY <2>1, <2>2, <1>8, Apart
  <2>4. Heard /\ Read
    BY <2>1, <2>3, <1>1, <1>5, Apart
  <2>5. Others /\ Echo /\ Same
    BY <2>1, <1>5, <1>7
  <2> QED BY <2>4, <2>5
<1>10. ASSUME Remember(i) PROVE Heard /\ Read /\ Others /\ Echo /\ Same
  <2>1. wr[i].st = "renamed" /\ disk' = disk /\ base'[i] = wr[i].job.doc
    BY <1>10 DEF Remember, ConfigTypes, TypeOK
  <2>2. /\ disk = mem[i] /\ disk \in Docs /\ AllTold(gui[i], disk, mem[i], prot[i])
        /\ rd[i].st = "read" => rd[i].text = disk
    BY <2>1, <1>2, <1>5 DEF Follows, FileKnown
  <2>3. Heard /\ Read
    BY <2>1, <2>2, <1>1, <1>5, Apart
  <2>4. Others /\ Echo /\ Same
    BY <2>1, <2>2
  <2> QED BY <2>3, <2>4
<1>11. ASSUME WriteFails(i) PROVE Heard /\ Read /\ Others /\ Echo /\ Same
  <2>1. wr[i].st \in {"based", "read"} /\ disk' = disk /\ base' = base /\ failed'[i]
    BY <1>11 DEF WriteFails, ConfigTypes, TypeOK
  <2>2. dirty' = dirty
    BY <2>1, <1>3 DEF Notify
  <2>3. ~Coming(i) /\ ~Coming(i)'
    BY <2>1, <2>2, <1>3, <1>5, <1>6, <1>7 DEF Coming
  <2>4. disk # Broken /\ (disk = Missing \/ base[i] = disk)
    BY <2>1, <2>3, <1>5 DEF Follows, FileKnown, ToldInUse
  <2>5. Heard /\ Read
    BY <2>1, <2>4, <1>1
  <2>6. Others /\ Echo /\ Same
    BY <2>1, <2>3, <1>5, <1>7
  <2> QED BY <2>5, <2>6
<1>12. ASSUME DirSyncFailed(i) PROVE Heard /\ Read /\ Others /\ Echo /\ Same
  <2>1. wr[i].st = "renamed" /\ disk' = disk /\ base' = base /\ failed'[i]
    BY <1>12 DEF DirSyncFailed, ConfigTypes, TypeOK
  <2>2. /\ disk = mem[i] /\ disk \in Docs /\ AllTold(gui[i], disk, mem[i], prot[i])
        /\ rd[i].st = "read" => rd[i].text = disk
    BY <2>1, <1>2, <1>5 DEF Follows, FileKnown
  <2>3. Heard
    BY <2>1, <2>2, <1>1, Apart
  <2>4. Read
    BY <2>1, <1>8 DEF Follows, FileKnown
  <2>5. Others /\ Echo /\ Same
    BY <2>1, <2>2
  <2> QED BY <2>3, <2>4, <2>5
<1>13. Heard /\ Read /\ Others /\ Echo /\ Same
  BY <1>3, <1>9, <1>10, <1>11, <1>12
<1>14. AllTold(gui'[i], disk', mem'[i], prot'[i])
  <2>1. Told(e, disk', mem[i], prot[i])
    BY <1>1, <1>5, <1>13 DEF Told
  <2>2. AllTold(Append(gui[i], e), disk', mem[i], prot[i])
    BY <2>1, <1>2, <1>13, ToldMore
  <2> QED BY <2>2, <1>2, <1>3
<1>15. NewestInUse(i)' /\ OneAtATime(i)'
  BY <1>3, <1>4, <1>5 DEF NewestInUse, OneAtATime
<1>16. FileKnown(i)'
  BY <1>3, <1>4, <1>13, <1>14 DEF FileKnown
<1>17. EchoInUse(i)'
  BY <1>3, <1>5, <1>13 DEF EchoInUse
<1>18. ToldInUse(i)'
  <2>1. mem[i] = disk' => mem[i] = Content(disk')
    BY ParamTypes, Documents
  <2> QED BY <2>1, <1>3, <1>5, <1>13 DEF ToldInUse
<1> QED BY <1>15, <1>16, <1>17, <1>18 DEF Follows

LEMMA WatcherReadsFollows ==
    ASSUME ConfigTypes, NEW i \in Instances, Follows(i), WatcherReads(i)
    PROVE  Follows(i)'
<1>1. /\ dirty[i] /\ rd[i].st = "idle" /\ rd'[i].st = "read" /\ rd'[i].text = disk
      /\ UNCHANGED <<disk, mem, base, chan, pend, wr, failed, own, prot, gui>>
  BY DEF WatcherReads, vars, ConfigTypes
<1>2. Coming(i) /\ Coming(i)' /\ ~Calm(i)
  BY <1>1 DEF Coming, Calm
<1>3. NewestInUse(i)'
  BY <1>1 DEF Follows, NewestInUse
<1>4. OneAtATime(i)'
  BY <1>1, <1>2 DEF Follows, OneAtATime, Settled
<1>5. FileKnown(i)'
  BY <1>1 DEF Follows, FileKnown, OneAtATime
<1>6. EchoInUse(i)' /\ ToldInUse(i)'
  BY <1>1, <1>2 DEF Follows, EchoInUse, ToldInUse
<1> QED BY <1>3, <1>4, <1>5, <1>6 DEF Follows

LEMMA WatcherPostsFollows ==
    ASSUME ConfigTypes, NEW i \in Instances, Follows(i), WatcherPosts(i)
    PROVE  Follows(i)'
<1>1. PICK e \in Closure : /\ e.kind = "changed" /\ e.text = rd[i].text
                           /\ gui' = [gui EXCEPT ![i] = Append(gui[i], e)]
  BY Noticed
<1>2. /\ rd[i].st = "read" /\ rd'[i].st = "idle" /\ RememberRead(i, rd[i].text)
      /\ gui[i] \in Seq(Closure) /\ gui'[i] = Append(gui[i], e)
      /\ UNCHANGED <<disk, mem, chan, pend, wr, failed, own, prot, dirty>>
  BY <1>1, ParamTypes DEF WatcherPosts, ConfigTypes, Resting
<1>3. Coming(i) /\ Coming(i)' /\ ~Calm(i)
  <2>1. HasNews(Append(gui[i], e))
    BY <1>1, <1>2, NewsMore
  <2>2. HasNews(gui'[i])
    BY <1>2, <2>1
  <2> QED BY <2>2, <1>2 DEF Coming, Calm
<1>4. rd[i].text = disk /\ AllTold(gui[i], disk, mem[i], prot[i])
  BY <1>2 DEF Follows, FileKnown
<1>5. disk = Missing \/ base'[i] = disk
  BY <1>2, <1>4 DEF RememberRead, ConfigTypes, TypeOK
<1>6. wr[i].st \notin {"based", "read"}
  BY <1>2 DEF Follows, OneAtATime
<1>7. NewestInUse(i)' /\ OneAtATime(i)'
  BY <1>2, <1>3, <1>6 DEF Follows, NewestInUse, OneAtATime, Settled
<1>8. FileKnown(i)'
  <2>1. Told(e, disk, mem[i], prot[i])
    BY <1>1, <1>4 DEF Told
  <2>2. AllTold(Append(gui[i], e), disk, mem[i], prot[i])
    BY <2>1, <1>2, <1>4, ToldMore
  <2>3. AllTold(gui'[i], disk', mem'[i], prot'[i])
    BY <2>2, <1>2
  <2> QED BY <2>3, <1>2, <1>5, <1>6 DEF Follows, FileKnown
<1>9. EchoInUse(i)' /\ ToldInUse(i)'
  BY <1>2, <1>3 DEF Follows, EchoInUse, ToldInUse
<1> QED BY <1>7, <1>8, <1>9 DEF Follows

LEMMA OnWriteDoneFollows ==
    ASSUME ConfigTypes, WritesInv, NEW i \in Instances, Follows(i), OnWriteDone(i)
    PROVE  Follows(i)'
<1> DEFINE text == Head(gui[i]).text
<1>1. /\ gui[i] \in Seq(Closure) /\ gui[i] # <<>> /\ gui'[i] = Tail(gui[i])
      /\ Head(gui[i]).kind = "done"
      /\ UNCHANGED <<disk, mem, base, chan, pend, wr, failed, prot, dirty, rd>>
  BY ParamTypes DEF OnWriteDone, vars, ConfigTypes
<1>2. /\ AllTold(Tail(gui[i]), disk, mem[i], prot[i])
      /\ ~prot[i] /\ (text # None => mem[i] = disk)
  <2>1. AllTold(gui[i], disk, mem[i], prot[i])
    BY DEF Follows, FileKnown
  <2>2. AllTold(Tail(gui[i]), disk, mem[i], prot[i]) /\ Told(Head(gui[i]), disk, mem[i], prot[i])
    BY <1>1, <2>1, ToldLess
  <2> QED BY <2>2, <1>1 DEF Told
<1>3. HasNews(gui'[i]) <=> HasNews(gui[i])
  <2>1. /\ HasNews(Tail(gui[i])) => HasNews(gui[i])
        /\ HasNews(gui[i]) => HasNews(Tail(gui[i])) \/ Head(gui[i]).kind = "changed"
    BY <1>1, NewsLess
  <2> QED BY <2>1, <1>1
<1>4. Coming(i)' <=> Coming(i)
  BY <1>1, <1>3 DEF Coming
<1>5. chan[i] = <<>> /\ pend[i] = None /\ wr[i].st \notin {"based", "read"}
  BY <1>1 DEF Follows, OneAtATime, Calm
<1>6. NewestInUse(i)' /\ OneAtATime(i)'
  BY <1>1, <1>2, <1>5 DEF Follows, NewestInUse, OneAtATime
<1>7. FileKnown(i)'
  <2>1. AllTold(gui'[i], disk', mem'[i], prot'[i])
    BY <1>1, <1>2
  <2> QED BY <2>1, <1>1, <1>5 DEF Follows, FileKnown
<1>8. EchoInUse(i)'
  <2>1. /\ own[i].pending = <<>> => own'[i].pending = <<>>
        /\ own'[i].last = IF text = None THEN own[i].last ELSE text
    BY OwnAfter
  <2> QED BY <2>1, <1>1, <1>2, <1>4 DEF Follows, EchoInUse
<1>9. ToldInUse(i)'
  BY <1>1, <1>4 DEF Follows, ToldInUse, Settled
<1> QED BY <1>6, <1>7, <1>8, <1>9 DEF Follows

\* What was read is in use, whether it was applied or was taken for an echo.
LEMMA Applied ==
    ASSUME ConfigTypes, NEW i \in Instances, Follows(i), OnFileChanged(i)
    PROVE  /\ prot'[i] <=> disk = Broken
           /\ disk # Broken => mem'[i] = Content(disk)
<1> DEFINE text == Head(gui[i]).text
<1>1. gui[i] \in Seq(Closure) /\ gui[i] # <<>> /\ Head(gui[i]).kind = "changed"
  BY ParamTypes DEF OnFileChanged
<1>2. text = disk
  <2>1. AllTold(gui[i], disk, mem[i], prot[i])
    BY DEF Follows, FileKnown
  <2>2. Told(Head(gui[i]), disk, mem[i], prot[i])
    BY <1>1, <2>1, ToldLess
  <2> QED BY <2>2, <1>1 DEF Told
<1>3. Coming(i)
  <2>1. HasNews(gui[i])
    BY <1>1, NewsLess
  <2> QED BY <2>1 DEF Coming
<1>4. CASE ~prot[i] /\ text # Missing /\ IsEcho(i, text)
  <2>1. mem' = mem /\ prot' = prot
    BY <1>4 DEF OnFileChanged
  <2>2. ~(disk # own[i].last /\ own[i].pending = <<>>)
    <3>1. own[i].pending = <<>> => Len(own[i].pending) = 0
      OBVIOUS
    <3> QED BY <3>1, <1>2, <1>4 DEF IsEcho
  <2>3. mem[i] = disk
    BY <2>2, <1>3 DEF Follows, EchoInUse
  <2>4. mem[i] \in Docs
    BY ParamTypes
  <2> QED BY <2>1, <2>3, <2>4, <1>4, Apart, Documents
<1>5. CASE ~(~prot[i] /\ text # Missing /\ IsEcho(i, text))
  <2>1. /\ prot' = [prot EXCEPT ![i] = text = Broken]
        /\ mem' = IF text = Broken THEN mem ELSE [mem EXCEPT ![i] = Content(text)]
    BY <1>5 DEF OnFileChanged
  <2>2. prot'[i] <=> disk = Broken
    BY <2>1, <1>2 DEF ConfigTypes
  <2>3. disk # Broken => mem'[i] = Content(disk)
    BY <2>1, <1>2 DEF ConfigTypes, TypeOK
  <2> QED BY <2>2, <2>3
<1> QED BY <1>4, <1>5

LEMMA OnFileChangedFollows ==
    ASSUME ConfigTypes, ConfigTypes', NEW i \in Instances, Follows(i), OnFileChanged(i)
    PROVE  Follows(i)'
<1>1. /\ gui[i] \in Seq(Closure) /\ gui[i] # <<>> /\ gui'[i] = Tail(gui[i])
      /\ Head(gui[i]).kind = "changed"
      /\ UNCHANGED <<disk, base, chan, pend, wr, failed, own, dirty, rd>>
  BY ParamTypes DEF OnFileChanged, ConfigTypes
<1>2. /\ prot'[i] <=> disk = Broken
      /\ disk # Broken => mem'[i] = Content(disk)
  BY Applied
<1>3. disk \in Docs => mem'[i] = disk
  BY <1>2, Apart, Documents
<1>4. Coming(i)
  <2>1. HasNews(gui[i])
    BY <1>1, NewsLess
  <2> QED BY <2>1 DEF Coming
<1>5. /\ chan[i] = <<>> /\ pend[i] = None /\ wr[i].st \notin {"based", "read"}
      /\ wr[i].st # "idle" => disk = wr[i].job.doc /\ disk \in Docs
  <2>1. chan[i] = <<>> /\ pend[i] = None /\ wr[i].st \notin {"based", "read"}
    BY <1>1 DEF Follows, OneAtATime, Calm
  <2>2. wr[i].st # "idle" => wr[i].st = "renamed"
    BY <2>1, ParamTypes DEF Write
  <2> QED BY <2>1, <2>2, ParamTypes DEF Follows, FileKnown
<1>6. NewestInUse(i)'
  BY <1>1, <1>3, <1>5 DEF NewestInUse
<1>7. OneAtATime(i)'
  <2>1. prot'[i] => wr[i].st = "idle"
    BY <1>2, <1>5, Apart
  <2> QED BY <2>1, <1>1, <1>5 DEF OneAtATime, Settled
<1>8. FileKnown(i)'
  <2>1. /\ Len(gui[i]) \in Nat \ {0} /\ Len(Tail(gui[i])) = Len(gui[i]) - 1
        /\ \A k \in 1..Len(Tail(gui[i])) : Tail(gui[i])[k] = gui[i][k + 1]
    BY <1>1, TakenOff
  <2>2. ASSUME NEW k \in 1..Len(Tail(gui[i])) PROVE Told(Tail(gui[i])[k], disk, mem'[i], prot'[i])
    <3>1. k + 1 \in 1..Len(gui[i]) /\ Tail(gui[i])[k] = gui[i][k + 1]
      BY <2>1
    <3>2. Told(gui[i][k + 1], disk, mem[i], prot[i])
      BY <3>1 DEF Follows, FileKnown, AllTold
    <3>3. gui[i][k + 1].kind = "done" => gui[i][k + 1].text \in Docs \cup {None}
      BY <3>1 DEF ConfigTypes
    <3> QED BY <3>1, <3>2, <3>3, <1>2, <1>3 DEF Told
  <2>3. AllTold(gui'[i], disk', mem'[i], prot'[i])
    BY <2>2, <1>1 DEF AllTold
  <2> QED BY <2>3, <1>1, <1>5 DEF Follows, FileKnown
<1>9. EchoInUse(i)'
  <2>1. \/ disk \in Docs /\ disk # Broken
        \/ disk # own[i].last /\ own[i].pending = <<>>
    <3>1. mem[i] \in Docs
      BY ParamTypes
    <3> QED BY <3>1, <1>4, Apart DEF Follows, EchoInUse
  <2> QED BY <2>1, <1>1, <1>2, <1>3 DEF EchoInUse
<1>10. ToldInUse(i)'
  BY <1>1, <1>2 DEF ToldInUse
<1> QED BY <1>6, <1>7, <1>8, <1>9, <1>10 DEF Follows

\* Somebody else changes the file while nothing is on its way, to something that
\* was not written last from here.
LEMMA ExternalFollows ==
    ASSUME ConfigTypes, WritesInv, NEW i \in Instances, NEW file \in Edits,
           External(file), Quiet(i), file # own[i].last
    PROVE  Follows(i)'
<1>1. /\ disk' = file /\ dirty'[i]
      /\ UNCHANGED <<mem, base, chan, pend, wr, failed, own, prot, rd, gui>>
  BY DEF External, Notify
<1>2. /\ chan[i] = <<>> /\ pend[i] = None /\ wr[i].st = "idle" /\ gui[i] = <<>>
      /\ rd[i].st = "idle"
  BY DEF Quiet, Settled, Calm
<1>3. own[i].pending = <<>>
  <2>1. WritesKnown(queued[i], chan[i], pend[i], wr[i], gui[i], own[i].pending)
    BY DEF WritesInv
  <2>2. /\ queued[i] \in Nat /\ gui[i] \in Seq(Closure) /\ chan[i] \in Seq(Job)
        /\ own[i].pending \in Seq(Job)
    BY ParamTypes
  <2>3. \A k \in 1..Len(gui[i]) : gui[i][k].kind # "done"
    BY <1>2
  <2>4. ~(Len(own[i].pending) > 0)
    BY <2>1, <2>3, <1>2 DEF WritesKnown, NewestAwaited
  <2>5. Len(own[i].pending) \in Nat /\ (Len(own[i].pending) = 0 => own[i].pending = <<>>)
    BY <2>2, NoElements
  <2> QED BY <2>4, <2>5
<1>4. Coming(i)'
  BY <1>1 DEF Coming
<1>5. AllTold(gui'[i], disk', mem'[i], prot'[i])
  BY <1>1, <1>2, ParamTypes, NoneTold
<1>6. NewestInUse(i)' /\ OneAtATime(i)'
  BY <1>1, <1>2 DEF NewestInUse, OneAtATime, Settled
<1>7. FileKnown(i)'
  BY <1>1, <1>2, <1>5 DEF FileKnown
<1>8. EchoInUse(i)' /\ ToldInUse(i)'
  BY <1>1, <1>3, <1>4 DEF EchoInUse, ToldInUse
<1> QED BY <1>6, <1>7, <1>8 DEF Follows

LEMMA NextFollows ==
    ASSUME OneApp, ConfigTypes, ConfigTypes', WritesInv, FollowInv, [CNext]_allVars
    PROVE  FollowInv'
<1> SUFFICES ASSUME ~raced', ~restored', NEW i \in Instances
             PROVE  Follows(i)'
  BY DEF FollowInv
<1>1. CASE UNCHANGED allVars
  BY <1>1 DEF allVars, vars, cfgVars, FollowInv, Follows, NewestInUse, OneAtATime, FileKnown,
              EchoInUse, ToldInUse, Calm, Settled, Coming
<1>2. ASSUME NEW file \in Edits, External(file) PROVE Follows(i)'
  <2>1. Quiet(i) /\ file # own[i].last
    BY <1>2 DEF External
  <2> QED BY <1>2, <2>1, ExternalFollows
<1>3. ASSUME NEW j \in Instances,
             \/ \E x \in Ids, v \in Values : Change(j, x, v) \/ ChangeBlocked(j, x, v)
             \/ WriterWorks(j) \/ WriterFinishes(j)
             \/ WatcherReads(j) \/ WatcherPosts(j)
             \/ OnWriteDone(j) \/ OnFileChanged(j)
      PROVE  Follows(i)'
  <2>1. j = i
    BY DEF OneApp
  <2>2. ~raced /\ ~restored
    <3>1. ASSUME NEW x \in Ids, NEW v \in Values, Change(j, x, v) PROVE ~raced /\ ~restored
      BY <3>1 DEF Change
    <3>2. ASSUME NEW x \in Ids, NEW v \in Values, ChangeBlocked(j, x, v)
          PROVE  ~raced /\ ~restored
      BY <3>2 DEF ChangeBlocked, cfgVars
    <3>3. CASE WriterWorks(j) \/ WriterFinishes(j)
      BY <3>3 DEF WriterWorks, WriterFinishes
    <3>4. CASE WatcherReads(j) \/ WatcherPosts(j) \/ OnWriteDone(j) \/ OnFileChanged(j)
      BY <3>4 DEF WatcherReads, WatcherPosts, OnWriteDone, OnFileChanged
    <3> QED BY <1>3, <3>1, <3>2, <3>3, <3>4
  <2>3. Follows(i)
    BY <2>2 DEF FollowInv
  <2>4. ASSUME NEW x \in Ids, NEW v \in Values, Change(i, x, v) PROVE Follows(i)'
    <3>1. Calm(i)
      BY <2>4 DEF Change
    <3> QED BY <2>3, <2>4, <3>1, ChangeFollows
  <2>5. ASSUME NEW x \in Ids, NEW v \in Values, ChangeBlocked(i, x, v) PROVE Follows(i)'
    BY <2>3, <2>5, BlockedFollows
  <2>6. CASE WriterWorks(i)
    <3>1. UNCHANGED <<own, prot, rd, gui>> /\ Notify
      BY <2>6 DEF WriterWorks
    <3>2. CASE Rename(i)
      BY <2>3, <3>1, <3>2, RenameFollows
    <3>3. CASE Receive(i) \/ Debounced(i) \/ LockAndRead(i)
      <4>1. dirty' = dirty
        BY <3>1, <3>3 DEF Notify, Receive, Debounced, LockAndRead
      <4> QED BY <2>3, <3>1, <3>3, <4>1, ReceiveFollows, DebouncedFollows, LockAndReadFollows
    <3> QED BY <2>6, <3>2, <3>3 DEF WriterWorks
  <2>7. CASE WriterFinishes(i)
    BY <2>3, <2>7, FinishesFollows
  <2>8. CASE WatcherReads(i)
    BY <2>3, <2>8, WatcherReadsFollows
  <2>9. CASE WatcherPosts(i)
    BY <2>3, <2>9, WatcherPostsFollows
  <2>10. CASE OnWriteDone(i)
    BY <2>3, <2>10, OnWriteDoneFollows
  <2>11. CASE OnFileChanged(i)
    BY <2>3, <2>11, OnFileChangedFollows
  <2> QED BY <1>3, <2>1, <2>4, <2>5, <2>6, <2>7, <2>8, <2>9, <2>10, <2>11
<1> QED BY <1>1, <1>2, <1>3 DEF CNext

LEMMA QuietInUse == ConfigTypes /\ FollowInv => SettingsFollow
<1> SUFFICES ASSUME ConfigTypes, FollowInv, NEW i \in Instances,
                    Quiet(i), ~failed[i], ~raced, ~restored
             PROVE  InUse(i)
  BY DEF SettingsFollow
<1>1. ~Coming(i) /\ Settled(i)
  BY CalmIsQuiet DEF Quiet
<1>2. ToldInUse(i)
  BY DEF FollowInv, Follows
<1> QED BY <1>1, <1>2 DEF ToldInUse, InUse

(***************************************************************************)
(* Settings apply live both ways: for any settings, numbers of saves and   *)
(* of changes made by others, one app on its file is left with the         *)
(* settings in use that the file holds, unless a save failed, changes      *)
(* raced, or the last text of its own was put back.                        *)
(***************************************************************************)
THEOREM SettingsAreFollowed == ASSUME OneApp PROVE CSpec => []SettingsFollow
<1>1. CInit => ConfigInv
  BY InitConfigTypes, InitWrites, InitFollows DEF ConfigInv, FollowInv
<1>2. ConfigInv /\ [CNext]_allVars => ConfigInv'
  BY NextWrites, NextFollows DEF ConfigInv
<1>3. ConfigInv => SettingsFollow
  BY QuietInUse DEF ConfigInv
<1> QED BY <1>1, <1>2, <1>3, PTL DEF CSpec
=============================================================================
