----------------------------- MODULE Workspaces -----------------------------
(***************************************************************************)
(* The saved workspaces and the last session (bridge/workspaces.rs) and    *)
(* the background writer they go through (opensesh-core/src/writer.rs):    *)
(* the only user of its removals.  The GUI thread queues writes and        *)
(* removals, the writer thread debounces the writes per file, and after    *)
(* each one a thread lists the folder for the dialog.                      *)
(*                                                                         *)
(* A workspace file is its name and its contents (module Layouts has what  *)
(* is inside).  One instance runs here, so write_merging finds the file as *)
(* it left it and replaces it; module SettingsSync has several.            *)
(***************************************************************************)
EXTENDS Naturals, Sequences, TLAPS

CONSTANTS
    GivenNames,  \* the names the user gives
    Contents,    \* what the windows hold when they are captured
    Candidates,  \* unique_id: a name -> the ids it tries, in order
    LastSession, \* the path of the last session's file
    Missing,     \* no such file
    MaxAsks      \* bound: requests of the user

Docs == [name : GivenNames, content : Contents]

ASSUME WorkspacesAssumption == Missing \notin Docs

Files ==
    {LastSession} \cup UNION {{Candidates[n][i] : i \in DOMAIN Candidates[n]} : n \in GivenNames}

VARIABLES
    wdisk,    \* the files
    wchan,    \* the writer's channel
    wpend,    \* its pending map: file -> document or Missing for none
    writing,  \* what write_all has taken and not written yet
    threads,  \* the folder listings under way: what each one saw, or Missing
    list,     \* Workspaces.workspaces
    asks,     \* requests so far
    running,  \* before the exit's flush
    asked,    \* history: what was last requested of each file
    failures  \* history: files whose last write or removal failed

wsVars == <<wdisk, wchan, wpend, writing, threads, list, asks, running, asked, failures>>

NoFiles == [f \in Files |-> Missing]

WInit ==
    /\ wdisk = NoFiles /\ wpend = NoFiles /\ writing = NoFiles
    /\ wchan = <<>>
    /\ threads = <<>>
    /\ list = NoFiles
    /\ asks = 0
    /\ running = TRUE
    /\ asked = NoFiles
    /\ failures = {}

(***************************************************************************)
(* The GUI thread                                                          *)
(***************************************************************************)
Message(kind, file, doc) == [kind |-> kind, file |-> file, doc |-> doc]
Ask(message) ==
    /\ running
    /\ asks < MaxAsks
    /\ asks' = asks + 1
    /\ wchan' = Append(wchan, message)
    /\ asked' = [asked EXCEPT ![message.file] = message.doc]
    /\ UNCHANGED <<wdisk, wpend, writing, threads, list, running, failures>>

\* unique_id: the first of a name's ids that no file has, if there is one.
UniqueId(name) ==
    {id \in Files : \E i \in DOMAIN Candidates[name] :
        /\ id = Candidates[name][i]
        /\ wdisk[id] = Missing
        /\ \A j \in 1 .. i - 1 : wdisk[Candidates[name][j]] # Missing}

\* The dialog passes the id it lists under the name, if any.
Save(name, content) ==
    LET listed == {f \in Files \ {LastSession} : list[f] # Missing /\ list[f].name = name}
        doc == [name |-> name, content |-> content]
    IN \E id \in IF listed # {} THEN listed ELSE UniqueId(name) :
          Ask(Message("write", id, doc))

\* Reads the file, changes its name and writes it back.
Rename(id, name) ==
    /\ list[id] # Missing
    /\ wdisk[id] # Missing
    /\ Ask(Message("write", id, [wdisk[id] EXCEPT !.name = name]))

Remove(id) ==
    /\ list[id] # Missing
    /\ Ask(Message("remove", id, Missing))

SaveLastSession(name, content) ==
    Ask(Message("write", LastSession, [name |-> name, content |-> content]))

\* At exit the writer is flushed: the flush comes after everything sent.
Exit ==
    /\ running
    /\ running' = FALSE
    /\ wchan' = Append(wchan, Message("flush", LastSession, Missing))
    /\ UNCHANGED <<wdisk, wpend, writing, threads, list, asks, asked, failures>>

(***************************************************************************)
(* The writer thread                                                       *)
(***************************************************************************)
Idle == writing = NoFiles
\* The callback has the GUI thread start a listing; it has seen nothing yet.
Refreshes == threads' = Append(threads, Missing)

RemovedKeepsPending(m) == UNCHANGED wpend
Removed(m) == wpend' = [wpend EXCEPT ![m.file] = Missing]
RemoveFile(m, ok) ==
    /\ Removed(m)
    /\ wdisk' = IF ok THEN [wdisk EXCEPT ![m.file] = Missing] ELSE wdisk
    /\ failures' = IF ok THEN failures \ {m.file} ELSE failures \cup {m.file}
    /\ Refreshes
    /\ UNCHANGED writing

Receive ==
    /\ Idle
    /\ wchan # <<>>
    /\ wchan' = Tail(wchan)
    /\ LET m == Head(wchan)
       IN \/ /\ m.kind = "write"
             /\ wpend' = [wpend EXCEPT ![m.file] = m.doc]
             /\ UNCHANGED <<wdisk, writing, threads, failures>>
          \/ /\ m.kind = "remove"
             /\ \E ok \in BOOLEAN : RemoveFile(m, ok)
          \/ /\ m.kind = "flush"
             /\ writing' = wpend
             /\ wpend' = NoFiles
             /\ UNCHANGED <<wdisk, threads, failures>>
    /\ UNCHANGED <<list, asks, running, asked>>

\* recv_timeout: nothing came for the debounce interval.
Debounced ==
    /\ Idle
    /\ wchan = <<>>
    /\ wpend # NoFiles
    /\ writing' = wpend
    /\ wpend' = NoFiles
    /\ UNCHANGED <<wdisk, wchan, threads, list, asks, running, asked, failures>>

\* write_all: one file after the other.  The callback tells a failure, which
\* can also be one after the file was replaced (syncing its folder), and lists
\* the folder.
WriteOne(f, ok) ==
    /\ writing[f] # Missing
    /\ \/ wdisk' = [wdisk EXCEPT ![f] = writing[f]]
       \/ ~ok /\ UNCHANGED wdisk
    /\ failures' = IF ok THEN failures \ {f} ELSE failures \cup {f}
    /\ writing' = [writing EXCEPT ![f] = Missing]
    /\ Refreshes
    /\ UNCHANGED <<wchan, wpend, list, asks, running, asked>>

\* list_dir, on its own thread.
ReadFolder(i) ==
    /\ i \in DOMAIN threads
    /\ threads[i] = Missing
    /\ threads' = [threads EXCEPT ![i] = wdisk]
    /\ UNCHANGED <<wdisk, wchan, wpend, writing, list, asks, running, asked, failures>>

\* A listing thread is done: the dialog shows what it saw.  The threads end
\* in any order.
Listed(i) ==
    /\ i \in DOMAIN threads
    /\ threads[i] # Missing
    /\ list' = [threads[i] EXCEPT ![LastSession] = Missing]
    /\ threads' = SubSeq(threads, 1, i - 1) \o SubSeq(threads, i + 1, Len(threads))
    /\ UNCHANGED <<wdisk, wchan, wpend, writing, asks, running, asked, failures>>

WNext ==
    \/ \E n \in GivenNames, c \in Contents : Save(n, c) \/ SaveLastSession(n, c)
    \/ \E id \in Files, n \in GivenNames : Rename(id, n)
    \/ \E id \in Files : Remove(id)
    \/ Exit
    \/ Receive \/ Debounced
    \/ \E f \in Files, ok \in BOOLEAN : WriteOne(f, ok)
    \/ \E i \in 1 .. MaxAsks : ReadFolder(i) \/ Listed(i)

WSpec == WInit /\ [][WNext]_wsVars

(***************************************************************************)
(* Properties                                                              *)
(***************************************************************************)
Quiet == wchan = <<>> /\ wpend = NoFiles /\ Idle

\* Once the writer has caught up, each file is what was last asked of it: the
\* last save, or nothing after a removal, whatever was pending when it came
\* ("A write still waiting for this file would bring it back."), except where
\* the last write or removal failed.  After the exit's flush nothing waits.
LastWordWins ==
    /\ Quiet => \A f \in Files \ failures : wdisk[f] = asked[f]
    /\ Idle /\ wchan = <<>> /\ ~running => wpend = NoFiles

(***************************************************************************)
(* Proof.  For each file: the newest request in the channel is the last    *)
(* one that was asked; without one, what was asked is in the pending map,  *)
(* else in what is being written, else on disk or told as failed.          *)
(***************************************************************************)
Messages ==
    {m \in [kind : {"write", "remove", "flush"}, file : Files, doc : Docs \cup {Missing}] :
        /\ m.kind = "write" => m.doc \in Docs
        /\ m.kind = "remove" => m.doc = Missing}

WTypes ==
    /\ wdisk \in [Files -> Docs \cup {Missing}]
    /\ wpend \in [Files -> Docs \cup {Missing}]
    /\ writing \in [Files -> Docs \cup {Missing}]
    /\ asked \in [Files -> Docs \cup {Missing}]
    /\ wchan \in Seq(Messages)

\* Requests for a file in the channel ch.
About(m, f) == m.file = f /\ m.kind # "flush"
NoneAbout(ch, f) == \A k \in 1 .. Len(ch) : ~About(ch[k], f)
Newest(ch, f, doc) ==
    \A k \in 1 .. Len(ch) :
        About(ch[k], f) /\ (\A h \in (k + 1) .. Len(ch) : ~About(ch[h], f)) => ch[k].doc = doc

\* What was last asked of file f, where the channel has no request for it.
Held(f, pend, taken, disk, word, failing) ==
    IF pend # Missing THEN pend = word
    ELSE IF taken # Missing THEN taken = word
    ELSE failing \/ disk = word

Kept(f) ==
    /\ Newest(wchan, f, asked[f])
    /\ NoneAbout(wchan, f) =>
         Held(f, wpend[f], writing[f], wdisk[f], asked[f], f \in failures)

\* The exit's flush comes last.
FlushedLast ==
    ~running => IF wchan = <<>> THEN wpend = NoFiles ELSE wchan[Len(wchan)].kind = "flush"

WInv == WTypes /\ FlushedLast /\ \A f \in Files : Kept(f)

USE WorkspacesAssumption

\* A request more at the end of the channel.
LEMMA Sent ==
    ASSUME NEW ch \in Seq(Messages), NEW m \in Messages, NEW f
    PROVE  LET r == Append(ch, m) IN
           /\ r \in Seq(Messages) /\ r # <<>> /\ r[Len(r)] = m
           /\ About(m, f) => ~NoneAbout(r, f) /\ Newest(r, f, m.doc)
           /\ ~About(m, f) => /\ NoneAbout(r, f) => NoneAbout(ch, f)
                              /\ \A doc : Newest(ch, f, doc) => Newest(r, f, doc)
<1> DEFINE r == Append(ch, m)
           n == Len(ch)
<1>1. /\ r \in Seq(Messages) /\ r # <<>> /\ n \in Nat /\ Len(r) = n + 1 /\ r[n + 1] = m
      /\ \A k \in 1 .. n : r[k] = ch[k]
  OBVIOUS
<1> HIDE DEF r, n
<1>2. n + 1 \in 1 .. Len(r) /\ \A k \in 1 .. Len(r) : k = n + 1 \/ k \in 1 .. n
  BY <1>1
<1>3. ASSUME About(m, f) PROVE ~NoneAbout(r, f) /\ Newest(r, f, m.doc)
  <2>1. ~NoneAbout(r, f)
    BY <1>1, <1>2, <1>3 DEF NoneAbout
  <2>2. \A k \in 1 .. n : n + 1 \in (k + 1) .. Len(r)
    BY <1>1
  <2>3. Newest(r, f, m.doc)
    BY <1>1, <1>2, <1>3, <2>2 DEF Newest
  <2> QED BY <2>1, <2>3
<1>4. ASSUME ~About(m, f), NoneAbout(r, f) PROVE NoneAbout(ch, f)
  <2>1. \A k \in 1 .. n : k \in 1 .. Len(r)
    BY <1>1
  <2> QED BY <1>1, <1>4, <2>1 DEF NoneAbout, n
<1>5. ASSUME ~About(m, f), NEW doc, Newest(ch, f, doc) PROVE Newest(r, f, doc)
  <2> SUFFICES ASSUME NEW k \in 1 .. Len(r), About(r[k], f),
                      \A h \in (k + 1) .. Len(r) : ~About(r[h], f)
               PROVE  r[k].doc = doc
    BY DEF Newest
  <2>1. k \in 1 .. n /\ r[k] = ch[k]
    BY <1>1, <1>2, <1>5
  <2>2. \A h \in (k + 1) .. n : h \in (k + 1) .. Len(r) /\ h \in 1 .. n
    BY <1>1, <2>1
  <2>3. \A h \in (k + 1) .. n : ~About(ch[h], f)
    BY <2>2, <1>1
  <2> QED BY <2>1, <2>3, <1>5 DEF Newest, n
<1> QED BY <1>1, <1>3, <1>4, <1>5 DEF r, n

\* One less at its front.
LEMMA Taken ==
    ASSUME NEW ch \in Seq(Messages), ch # <<>>, NEW f
    PROVE  LET m == Head(ch)
               r == Tail(ch) IN
           /\ m \in Messages /\ r \in Seq(Messages)
           /\ IF r = <<>> THEN m = ch[Len(ch)] ELSE r[Len(r)] = ch[Len(ch)]
           /\ \A doc : Newest(ch, f, doc) => Newest(r, f, doc)
           /\ NoneAbout(r, f) /\ ~About(m, f) => NoneAbout(ch, f)
           /\ \A doc : NoneAbout(r, f) /\ About(m, f) /\ Newest(ch, f, doc) => m.doc = doc
<1> DEFINE m == Head(ch)
           r == Tail(ch)
           n == Len(ch)
<1>1. /\ m \in Messages /\ r \in Seq(Messages) /\ n \in Nat \ {0} /\ Len(r) = n - 1
      /\ m = ch[1] /\ \A k \in 1 .. Len(r) : r[k] = ch[k + 1]
      /\ r = <<>> <=> Len(r) = 0
  <2>1. r \in Seq(Messages) /\ n \in Nat \ {0} /\ Len(r) = n - 1 /\ m = ch[1] /\ m \in Messages
    OBVIOUS
  <2>2. \A k \in 1 .. Len(r) : r[k] = ch[k + 1]
    BY <2>1
  <2> HIDE DEF r
  <2> QED BY <2>1, <2>2
<1> HIDE DEF m, r, n
<1>2. IF r = <<>> THEN m = ch[n] ELSE r[Len(r)] = ch[n]
  <2>1. Len(r) # 0 => Len(r) \in 1 .. Len(r) /\ Len(r) + 1 = n
    BY <1>1
  <2> QED BY <1>1, <2>1
<1>3. ASSUME NEW doc, Newest(ch, f, doc) PROVE Newest(r, f, doc)
  <2> SUFFICES ASSUME NEW k \in 1 .. Len(r), About(r[k], f),
                      \A h \in (k + 1) .. Len(r) : ~About(r[h], f)
               PROVE  r[k].doc = doc
    BY DEF Newest
  <2>1. k + 1 \in 1 .. n /\ r[k] = ch[k + 1]
    BY <1>1
  <2>2. \A h \in (k + 2) .. n : h - 1 \in (k + 1) .. Len(r) /\ r[h - 1] = ch[h]
    BY <1>1
  <2>3. \A h \in ((k + 1) + 1) .. n : ~About(ch[h], f)
    BY <2>2
  <2> QED BY <2>1, <2>3, <1>3 DEF Newest, n
<1>4. \A h \in 2 .. n : h - 1 \in 1 .. Len(r) /\ r[h - 1] = ch[h]
  BY <1>1
<1>5. ASSUME NoneAbout(r, f) PROVE \A h \in 2 .. n : ~About(ch[h], f)
  BY <1>4, <1>5 DEF NoneAbout
<1>6. ASSUME NoneAbout(r, f), ~About(m, f) PROVE NoneAbout(ch, f)
  <2>1. \A k \in 1 .. n : k = 1 \/ k \in 2 .. n
    BY <1>1
  <2> QED BY <2>1, <1>1, <1>5, <1>6 DEF NoneAbout, n
<1>7. ASSUME NEW doc, NoneAbout(r, f), About(m, f), Newest(ch, f, doc) PROVE m.doc = doc
  <2>1. 1 \in 1 .. n /\ 1 + 1 = 2
    BY <1>1
  <2> QED BY <2>1, <1>1, <1>5, <1>7 DEF Newest, n
<1> QED BY <1>1, <1>2, <1>3, <1>6, <1>7 DEF m, r, n

LEMMA InitKept == WInit => WInv
<1> SUFFICES ASSUME WInit PROVE WInv
  OBVIOUS
<1>1. WTypes /\ wchan = <<>> /\ Len(wchan) = 0
  BY DEF WInit, WTypes, NoFiles
<1>2. ASSUME NEW f \in Files PROVE Kept(f)
  BY <1>1 DEF WInit, NoFiles, Kept, Newest, Held
<1> QED BY <1>1, <1>2 DEF WInit, WInv, FlushedLast

\* A request is what was last asked of its file.
LEMMA AskKept ==
    ASSUME WInv, NEW m \in Messages, m.kind # "flush", Ask(m)
    PROVE  WInv'
<1>1. /\ running /\ running' = running /\ wchan \in Seq(Messages)
      /\ wchan' = Append(wchan, m) /\ asked' = [asked EXCEPT ![m.file] = m.doc]
      /\ UNCHANGED <<wdisk, wpend, writing, failures>>
  BY DEF Ask, WInv, WTypes
<1>2. WTypes'
  BY <1>1, Sent DEF WInv, WTypes, Messages
<1>3. ASSUME NEW f \in Files PROVE Kept(f)'
  <2>1. CASE About(m, f)
    <3>1. asked'[f] = m.doc
      BY <2>1, <1>1 DEF About, WInv, WTypes
    <3>2. ~NoneAbout(wchan', f) /\ Newest(wchan', f, m.doc)
      BY <2>1, <1>1, Sent
    <3> QED BY <3>1, <3>2 DEF Kept
  <2>2. CASE ~About(m, f)
    <3>1. asked'[f] = asked[f]
      BY <2>2, <1>1 DEF About, WInv, WTypes
    <3>2. /\ NoneAbout(wchan', f) => NoneAbout(wchan, f)
          /\ Newest(wchan, f, asked[f]) => Newest(wchan', f, asked[f])
      BY <2>2, <1>1, Sent
    <3>3. Kept(f)
      BY DEF WInv
    <3> QED BY <3>1, <3>2, <3>3, <1>1 DEF Kept
  <2> QED BY <2>1, <2>2
<1> QED BY <1>1, <1>2, <1>3 DEF WInv, FlushedLast

\* What the user asks for.
LEMMA UserKept ==
    ASSUME WInv,
           \/ \E n \in GivenNames, c \in Contents : Save(n, c) \/ SaveLastSession(n, c)
           \/ \E id \in Files, n \in GivenNames : Rename(id, n)
           \/ \E id \in Files : Remove(id)
    PROVE  WInv'
<1>1. ASSUME NEW n \in GivenNames, NEW c \in Contents, NEW id \in Files,
             Ask(Message("write", id, [name |-> n, content |-> c]))
      PROVE  WInv'
  <2> DEFINE m == Message("write", id, [name |-> n, content |-> c])
  <2>1. m \in Messages /\ m.kind # "flush"
    BY DEF Message, Messages, Docs
  <2> QED BY <2>1, <1>1, AskKept
<1>2. ASSUME NEW n \in GivenNames, NEW c \in Contents, Save(n, c) PROVE WInv'
  <2>1. \E id \in Files : Ask(Message("write", id, [name |-> n, content |-> c]))
    BY <1>2 DEF Save, UniqueId
  <2> QED BY <2>1, <1>1
<1>3. ASSUME NEW n \in GivenNames, NEW c \in Contents, SaveLastSession(n, c) PROVE WInv'
  <2>1. LastSession \in Files
    BY DEF Files
  <2> QED BY <2>1, <1>1, <1>3 DEF SaveLastSession
<1>4. ASSUME NEW id \in Files, NEW n \in GivenNames, Rename(id, n) PROVE WInv'
  <2> DEFINE doc == [wdisk[id] EXCEPT !.name = n]
             m == Message("write", id, doc)
  <2>1. wdisk[id] \in Docs
    BY <1>4 DEF Rename, WInv, WTypes
  <2>2. doc \in Docs
    BY <2>1 DEF Docs
  <2> HIDE DEF doc
  <2>3. m \in Messages /\ m.kind # "flush"
    BY <2>2 DEF Message, Messages
  <2>4. Ask(m)
    BY <1>4 DEF Rename, doc
  <2> QED BY <2>3, <2>4, AskKept
<1>5. ASSUME NEW id \in Files, Remove(id) PROVE WInv'
  <2> DEFINE m == Message("remove", id, Missing)
  <2>1. m \in Messages /\ m.kind # "flush"
    BY DEF Message, Messages
  <2> QED BY <2>1, <1>5, AskKept DEF Remove
<1> QED BY <1>2, <1>3, <1>4, <1>5

LEMMA ExitKept == ASSUME WInv, Exit PROVE WInv'
<1> DEFINE m == Message("flush", LastSession, Missing)
<1>1. m \in Messages /\ m.kind = "flush"
  BY DEF Message, Messages, Files
<1>2. wchan' = Append(wchan, m) /\ wchan \in Seq(Messages)
  BY DEF Exit, WInv, WTypes
<1> HIDE DEF m
<1>3. wchan' \in Seq(Messages) /\ wchan' # <<>> /\ wchan'[Len(wchan')] = m
  BY <1>1, <1>2, Sent
<1>4. ASSUME NEW f \in Files PROVE Kept(f)'
  <2>1. ~About(m, f)
    BY <1>1 DEF About
  <2>2. /\ NoneAbout(wchan', f) => NoneAbout(wchan, f)
        /\ Newest(wchan, f, asked[f]) => Newest(wchan', f, asked[f])
    BY <2>1, <1>1, <1>2, Sent
  <2>3. Kept(f)
    BY DEF WInv
  <2> QED BY <2>2, <2>3 DEF Exit, Kept
<1> QED BY <1>1, <1>3, <1>4 DEF Exit, WInv, WTypes, FlushedLast

\* The writer takes a message: a request takes the place of what was pending.
LEMMA ReceiveKept == ASSUME WInv, Receive PROVE WInv'
<1> DEFINE m == Head(wchan)
<1>1. /\ writing = NoFiles /\ wchan # <<>> /\ wchan \in Seq(Messages) /\ wchan' = Tail(wchan)
      /\ asked' = asked /\ running' = running
  BY DEF Receive, Idle, WInv, WTypes
<1>2. m \in Messages /\ wchan' \in Seq(Messages)
  BY <1>1, Taken
<1>3. \/ /\ m.kind = "write" /\ wpend' = [wpend EXCEPT ![m.file] = m.doc]
         /\ UNCHANGED <<wdisk, writing, failures>>
      \/ /\ m.kind = "remove" /\ wpend' = [wpend EXCEPT ![m.file] = Missing]
         /\ writing' = writing
         /\ \/ wdisk' = [wdisk EXCEPT ![m.file] = Missing] /\ failures' = failures \ {m.file}
            \/ wdisk' = wdisk /\ failures' = failures \cup {m.file}
      \/ /\ m.kind = "flush" /\ writing' = wpend /\ wpend' = NoFiles
         /\ UNCHANGED <<wdisk, failures>>
  BY DEF Receive, RemoveFile, Removed
<1> HIDE DEF m
<1>4. WTypes'
  BY <1>1, <1>2, <1>3 DEF WInv, WTypes, Messages, NoFiles
<1>5. FlushedLast'
  <2> SUFFICES ASSUME ~running
               PROVE  IF wchan' = <<>> THEN wpend' = NoFiles
                                       ELSE wchan'[Len(wchan')].kind = "flush"
    BY <1>1 DEF FlushedLast
  <2>1. wchan[Len(wchan)].kind = "flush"
    BY <1>1 DEF WInv, FlushedLast
  <2>2. IF wchan' = <<>> THEN m = wchan[Len(wchan)]
                         ELSE wchan'[Len(wchan')] = wchan[Len(wchan)]
    BY <1>1, Taken DEF m
  <2> QED BY <2>1, <2>2, <1>3
<1>6. ASSUME NEW f \in Files PROVE Kept(f)'
  <2>1. /\ \A doc : Newest(wchan, f, doc) => Newest(wchan', f, doc)
        /\ NoneAbout(wchan', f) /\ ~About(m, f) => NoneAbout(wchan, f)
        /\ \A doc : NoneAbout(wchan', f) /\ About(m, f) /\ Newest(wchan, f, doc) => m.doc = doc
    BY <1>1, Taken DEF m
  <2>2. Kept(f) /\ writing[f] = Missing
    BY <1>1 DEF WInv, NoFiles
  <2>3. Newest(wchan', f, asked'[f])
    BY <1>1, <2>1, <2>2 DEF Kept
  <2>4. ASSUME NoneAbout(wchan', f), About(m, f)
        PROVE  Held(f, wpend'[f], writing'[f], wdisk'[f], asked'[f], f \in failures')
    <3>1. m.file = f /\ m.kind # "flush" /\ m.doc = asked'[f]
      BY <1>1, <2>1, <2>2, <2>4 DEF About, Kept
    <3>2. CASE m.kind = "write"
      <4>1. wpend'[f] = m.doc /\ m.doc # Missing
        BY <3>1, <3>2, <1>2, <1>3 DEF WInv, WTypes, Messages
      <4> QED BY <3>1, <4>1 DEF Held
    <3>3. CASE m.kind = "remove"
      <4>1. /\ wpend'[f] = Missing /\ writing'[f] = Missing /\ m.doc = Missing
            /\ wdisk'[f] = Missing \/ f \in failures'
        BY <3>1, <3>3, <1>2, <1>3, <2>2 DEF WInv, WTypes, Messages
      <4> QED BY <3>1, <4>1 DEF Held
    <3> QED BY <3>1, <3>2, <3>3, <1>2 DEF Messages
  <2>5. ASSUME NoneAbout(wchan', f), ~About(m, f)
        PROVE  Held(f, wpend'[f], writing'[f], wdisk'[f], asked'[f], f \in failures')
    <3>1. Held(f, wpend[f], writing[f], wdisk[f], asked[f], f \in failures)
      BY <2>1, <2>2, <2>5 DEF Kept
    <3>2. CASE m.kind = "flush"
      <4>1. writing'[f] = wpend[f] /\ wpend'[f] = Missing /\ wdisk' = wdisk /\ failures' = failures
        BY <3>2, <1>3 DEF NoFiles
      <4> QED BY <3>1, <4>1, <1>1, <2>2 DEF Held
    <3>3. CASE m.kind # "flush"
      <4>1. m.file # f
        BY <3>3, <2>5 DEF About
      <4>2. /\ wpend'[f] = wpend[f] /\ writing'[f] = writing[f] /\ wdisk'[f] = wdisk[f]
            /\ f \in failures' <=> f \in failures
        BY <3>3, <4>1, <1>2, <1>3 DEF WInv, WTypes, Messages
      <4> QED BY <3>1, <4>2, <1>1 DEF Held
    <3> QED BY <3>2, <3>3
  <2> QED BY <2>3, <2>4, <2>5 DEF Kept
<1> QED BY <1>4, <1>5, <1>6 DEF WInv

\* What was pending is taken to be written.
LEMMA DebouncedKept == ASSUME WInv, Debounced PROVE WInv'
<1>1. /\ writing = NoFiles /\ writing' = wpend /\ wpend' = NoFiles
      /\ UNCHANGED <<wdisk, wchan, asked, running, failures>>
  BY DEF Debounced, Idle
<1>2. WTypes' /\ FlushedLast'
  BY <1>1 DEF WInv, WTypes, FlushedLast, NoFiles, Debounced
<1>3. ASSUME NEW f \in Files PROVE Kept(f)'
  <2>1. writing[f] = Missing /\ wpend'[f] = Missing /\ writing'[f] = wpend[f]
    BY <1>1 DEF NoFiles
  <2>2. Kept(f)
    BY DEF WInv
  <2>3. Held(f, wpend[f], writing[f], wdisk[f], asked[f], f \in failures)
        => Held(f, wpend'[f], writing'[f], wdisk'[f], asked'[f], f \in failures')
    BY <2>1, <1>1 DEF Held
  <2> QED BY <2>2, <2>3, <1>1 DEF Kept
<1> QED BY <1>2, <1>3 DEF WInv

\* A file is written, or that failed and was told.
LEMMA WriteKept ==
    ASSUME WInv, NEW g \in Files, NEW ok \in BOOLEAN, WriteOne(g, ok)
    PROVE  WInv'
<1>1. /\ writing[g] # Missing /\ writing' = [writing EXCEPT ![g] = Missing]
      /\ wdisk' = [wdisk EXCEPT ![g] = writing[g]] \/ wdisk' = wdisk
      /\ \/ wdisk' = [wdisk EXCEPT ![g] = writing[g]] /\ failures' = failures \ {g}
         \/ failures' = failures \cup {g}
      /\ UNCHANGED <<wchan, wpend, asked, running>>
  BY DEF WriteOne
<1>2. WTypes' /\ FlushedLast'
  BY <1>1 DEF WInv, WTypes, FlushedLast
<1>3. ASSUME NEW f \in Files PROVE Kept(f)'
  <2>1. Kept(f)
    BY DEF WInv
  <2>2. CASE f = g
    <3>1. writing'[f] = Missing /\ (wdisk'[f] = writing[f] \/ f \in failures')
      BY <1>1, <2>2 DEF WInv, WTypes
    <3>2. Held(f, wpend[f], writing[f], wdisk[f], asked[f], f \in failures)
          => Held(f, wpend'[f], writing'[f], wdisk'[f], asked'[f], f \in failures')
      BY <3>1, <1>1, <2>2 DEF Held
    <3> QED BY <2>1, <3>2, <1>1 DEF Kept
  <2>3. CASE f # g
    <3>1. /\ writing'[f] = writing[f] /\ wdisk'[f] = wdisk[f]
          /\ f \in failures' <=> f \in failures
      BY <1>1, <2>3 DEF WInv, WTypes
    <3>2. Held(f, wpend[f], writing[f], wdisk[f], asked[f], f \in failures)
          => Held(f, wpend'[f], writing'[f], wdisk'[f], asked'[f], f \in failures')
      BY <3>1, <1>1 DEF Held
    <3> QED BY <2>1, <3>2, <1>1 DEF Kept
  <2> QED BY <2>2, <2>3
<1> QED BY <1>2, <1>3 DEF WInv

LEMMA NextKept == ASSUME WInv, [WNext]_wsVars PROVE WInv'
<1>1. ASSUME UNCHANGED <<wdisk, wchan, wpend, writing, asked, running, failures>> PROVE WInv'
  BY <1>1 DEF WInv, WTypes, FlushedLast, Kept
<1>2. ASSUME NEW i \in 1 .. MaxAsks, ReadFolder(i) \/ Listed(i) PROVE WInv'
  BY <1>1, <1>2 DEF ReadFolder, Listed
<1>3. CASE UNCHANGED wsVars
  BY <1>1, <1>3 DEF wsVars
<1> QED BY <1>2, <1>3, UserKept, ExitKept, ReceiveKept, DebouncedKept, WriteKept DEF WNext

LEMMA KeptIsLastWord == WInv => LastWordWins
<1> SUFFICES ASSUME WInv PROVE LastWordWins
  OBVIOUS
<1>1. ASSUME Quiet, NEW f \in Files \ failures PROVE wdisk[f] = asked[f]
  <2>1. NoneAbout(wchan, f)
    BY <1>1 DEF Quiet, NoneAbout
  <2>2. wpend[f] = Missing /\ writing[f] = Missing
    BY <1>1 DEF Quiet, Idle, NoFiles
  <2>3. Held(f, wpend[f], writing[f], wdisk[f], asked[f], f \in failures)
    BY <2>1 DEF WInv, Kept
  <2> QED BY <1>1, <2>2, <2>3 DEF Held
<1> QED BY <1>1 DEF LastWordWins, WInv, FlushedLast

(***************************************************************************)
(* The last word wins: for any names, contents and number of requests,     *)
(* whichever way saves and removals pass each other in the writer, and     *)
(* whichever of them fail.                                                 *)
(***************************************************************************)
THEOREM LastWordIsKept == WSpec => []LastWordWins
<1> QED BY InitKept, NextKept, KeptIsLastWord, PTL DEF WSpec
=============================================================================
