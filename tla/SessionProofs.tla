--------------------------- MODULE SessionProofs ---------------------------
(***************************************************************************)
(* Proofs about a pane: what may be behind it (LocalPty, SshBackend, Mosh, *)
(* Serial, Telnet) implements the contract of a backend, keeps the order   *)
(* of what it reports or has the pane's size; a login over SSH             *)
(* (SshConnect) trusts no key unasked; and the terminal on screen          *)
(* (TerminalView) is sound.                                                *)
(*                                                                         *)
(* A pane has one backend.  They are instances over variables of this      *)
(* module; those of the same name as the view's, or as another backend's,  *)
(* are that variable, since no theorem is about two of them.               *)
(***************************************************************************)
EXTENDS TerminalView, SequenceTheorems, TLAPS

CONSTANTS MaxWrites, MaxAttempts, MaxNet, MaxFailures,
    MaxReads,
    Patient, Requests, Resizes,
    Hops, HostKeys, UserLines, Revoked, Typed, Offers, KeyFiles, MaxTries, MaxConnects

VARIABLES
    \* of LocalPty
    shell, kind, tty, handle, stopping, process, woken, inbox, control, readerDone,
    deadline, closing, reader, waiter, receiver, exitedSent, writes,
    \* of SshBackend
    automatic, failures, retry, result, conn, net, exited, startup, install, beside,
    serverSize, status, live, asked, netSent, opsDone,
    \* of Mosh
    inner, innerPhase, innerHeard, ptySize, forward, stopped,
    \* of Serial
    writer, device, got, stop, breaks, hex, showing, line, echoes, reads,
    \* of Telnet
    ours, theirs, toServer, toClient, sOwn, sPeer, sWaits, sSize, requests, resizes,
    \* of SshConnect
    own, user, once, right, savedPw, step, hop, key, remaining, done, pwUsed, tries, nth,
    sending, remembered, accepted, saved, savedSent, connects

Local == INSTANCE LocalPty
Ssh == INSTANCE SshBackend
Mosh == INSTANCE Mosh
Serial == INSTANCE Serial
Telnet == INSTANCE Telnet
Login == INSTANCE SshConnect WITH Keys <- HostKeys

-----------------------------------------------------------------------------
(***************************************************************************)
(* The sizes: `now` is the size handled last and `last` the pane's last.   *)
(* What is still to be handled ends with that one, or has none in it.      *)
(***************************************************************************)
NoResize(cs) == \A n \in 1..Len(cs) : cs[n].k # "resize"
SizeComing(cs, now, last) ==
    /\ NoResize(cs) => now = last
    /\ \A n \in 1..Len(cs) :
         cs[n].k = "resize" /\ (\A m \in (n + 1)..Len(cs) : cs[m].k # "resize")
            => cs[n].size = last

\* SizeComing, when the pane sends one more command.
LEMMA SizeSent ==
    ASSUME NEW S, NEW cs \in Seq(S), NEW c \in S, NEW now, NEW last,
           SizeComing(cs, now, last)
    PROVE  SizeComing(Append(cs, c), now, IF c.k = "resize" THEN c.size ELSE last)
<1> DEFINE new == Append(cs, c)
<1>1. /\ new \in Seq(S) /\ Len(cs) \in Nat /\ Len(new) = Len(cs) + 1 /\ new[Len(new)] = c
      /\ \A n \in 1..Len(cs) : new[n] = cs[n]
  OBVIOUS
<1> HIDE DEF new
<1>2. CASE c.k = "resize"
  <2>1. ~NoResize(new)
    BY <1>1, <1>2 DEF NoResize
  <2>2. ASSUME NEW n \in 1..Len(new), \A m \in (n + 1)..Len(new) : new[m].k # "resize"
        PROVE  n = Len(new)
    BY <1>1, <1>2, <2>2
  <2> QED
    BY <1>1, <1>2, <2>1, <2>2 DEF SizeComing, new
<1>3. CASE c.k # "resize"
  <2>1. NoResize(new) => now = last
    BY <1>1 DEF NoResize, SizeComing
  <2>2. ASSUME NEW n \in 1..Len(new), new[n].k = "resize",
               \A m \in (n + 1)..Len(new) : new[m].k # "resize"
        PROVE  new[n].size = last
    <3>1. n \in 1..Len(cs) /\ new[n] = cs[n]
      BY <1>1, <1>3, <2>2
    <3>2. \A m \in (n + 1)..Len(cs) : cs[m].k # "resize"
      BY <1>1, <2>2, <3>1
    <3> QED
      BY <2>2, <3>1, <3>2 DEF SizeComing
  <2> QED
    BY <1>3, <2>1, <2>2 DEF SizeComing, new
<1> QED
  BY <1>2, <1>3

\* SizeComing, when the first command is handled.
LEMMA SizeTaken ==
    ASSUME NEW S, NEW cs \in Seq(S), cs # <<>>, NEW now, NEW last,
           SizeComing(cs, now, last)
    PROVE  SizeComing(Tail(cs), IF Head(cs).k = "resize" THEN Head(cs).size ELSE now, last)
<1> DEFINE new == Tail(cs)
           now2 == IF Head(cs).k = "resize" THEN Head(cs).size ELSE now
<1>1. /\ new \in Seq(S) /\ Len(cs) \in Nat \ {0} /\ Len(new) = Len(cs) - 1
      /\ \A n \in 1..Len(new) : new[n] = cs[n + 1]
      /\ Head(cs) = cs[1]
  OBVIOUS
<1> HIDE DEF new
<1>2. ASSUME NoResize(new) PROVE now2 = last
  <2>1. \A m \in 2..Len(cs) : cs[m].k # "resize"
    <3> SUFFICES ASSUME NEW m \in 2..Len(cs) PROVE cs[m].k # "resize"
      OBVIOUS
    <3>1. m - 1 \in 1..Len(new) /\ new[m - 1] = cs[m]
      BY <1>1
    <3> QED
      BY <1>2, <3>1 DEF NoResize
  <2>2. CASE Head(cs).k = "resize"
    BY <1>1, <2>1, <2>2 DEF SizeComing
  <2>3. CASE Head(cs).k # "resize"
    <3>1. NoResize(cs)
      BY <1>1, <2>1, <2>3 DEF NoResize
    <3> QED
      BY <2>3, <3>1 DEF SizeComing
  <2> QED
    BY <2>2, <2>3
<1>3. ASSUME NEW n \in 1..Len(new), new[n].k = "resize",
             \A m \in (n + 1)..Len(new) : new[m].k # "resize"
      PROVE  new[n].size = last
  <2>1. n + 1 \in 1..Len(cs) /\ new[n] = cs[n + 1]
    BY <1>1
  <2>2. ASSUME NEW m \in (n + 2)..Len(cs) PROVE cs[m].k # "resize"
    <3>1. m - 1 \in (n + 1)..Len(new) /\ m - 1 \in 1..Len(new) /\ new[m - 1] = cs[m]
      BY <1>1
    <3> QED
      BY <1>3, <3>1
  <2>3. \A m \in ((n + 1) + 1)..Len(cs) : cs[m].k # "resize"
    BY <2>2, <1>1
  <2> QED
    BY <1>3, <2>1, <2>3 DEF SizeComing
<1> QED
  BY <1>2, <1>3 DEF SizeComing, new

-----------------------------------------------------------------------------
(***************************************************************************)
(* The contract, from who may still send: Exited is sent only once the     *)
(* reader's thread is over, which the control thread knows from its        *)
(* message, or once the teardown's time limit has passed.                  *)
(***************************************************************************)
Messages == {"write", "shutdown", "childExited", "readerDone"}

\* No message of `box` says that the reader is over, unless it is.
TellsTruth(box, over) ==
    /\ box \in Seq(Messages)
    /\ \A n \in 1..Len(box) : box[n] = "readerDone" => over

ReaderOver ==
    /\ TellsTruth(inbox, reader = "done")
    /\ readerDone => reader = "done"
    /\ control = "exit" => reader = "done" \/ deadline = "passed"
    /\ control \in {"start", "spawned"} => reader = "off"
    /\ deadline \in {"close", "passed"} => closing
    /\ deadline = "passed" => control \in {"exit", "last", "ended"}
    /\ exitedSent => control \in {"last", "ended"} /\ (reader = "done" \/ deadline = "passed")

SenderInv ==
    /\ receiver \in BOOLEAN /\ exitedSent \in BOOLEAN
    /\ handle = "idle" => receiver
    /\ reader \in {"off", "poll", "send", "done"}
    /\ ReaderOver

\* The inbox of PtyShared at the start, and with a message sent or taken.
LEMMA Inboxes ==
    ASSUME NEW box, NEW over \in BOOLEAN, TellsTruth(box, over)
    PROVE  /\ \A m \in Messages : (m = "readerDone" => over)
                => TellsTruth(Append(box, m), over)
           /\ TellsTruth(box, TRUE)
           /\ box # <<>> => /\ TellsTruth(Tail(box), over)
                            /\ Head(box) = "readerDone" => over
<1> USE DEF TellsTruth
<1>1. ASSUME NEW m \in Messages, m = "readerDone" => over
      PROVE  TellsTruth(Append(box, m), over)
  <2>1. Append(box, m) \in Seq(Messages) /\ Len(Append(box, m)) = Len(box) + 1
    OBVIOUS
  <2>2. ASSUME NEW n \in 1..Len(Append(box, m)), Append(box, m)[n] = "readerDone"
        PROVE  over
    <3>1. CASE n \in 1..Len(box)
      BY <2>2, <3>1
    <3>2. CASE n = Len(box) + 1
      BY <1>1, <2>2, <3>2
    <3> QED
      BY <2>1, <2>2, <3>1, <3>2
  <2> QED
    BY <2>1, <2>2
<1>2. TellsTruth(box, TRUE)
  OBVIOUS
<1>3. ASSUME box # <<>>
      PROVE  TellsTruth(Tail(box), over) /\ (Head(box) = "readerDone" => over)
  <2>1. /\ Tail(box) \in Seq(Messages) /\ Len(Tail(box)) = Len(box) - 1
        /\ \A n \in 1..Len(Tail(box)) : Tail(box)[n] = box[n + 1]
        /\ Len(box) \in Nat \ {0} /\ Head(box) = box[1]
    BY <1>3
  <2> QED
    BY <2>1
<1> QED
  BY <1>1, <1>2, <1>3

\* SenderInv holds at the start and after every step.
LEMMA SenderInvariant == Local!LSpec => []SenderInv
<1>1. Local!LInit => SenderInv
  <2>1. TellsTruth(<<>>, FALSE)
    BY DEF TellsTruth
  <2> QED
    BY <2>1 DEF Local!LInit, SenderInv, ReaderOver
<1>2. SenderInv /\ [Local!LNext]_(Local!ptyVars) => SenderInv'
  <2> SUFFICES ASSUME SenderInv, [Local!LNext]_(Local!ptyVars) PROVE SenderInv'
    OBVIOUS
  <2> USE DEF SenderInv, ReaderOver, Local!controlVars, Local!shellVars
  <2>1. CASE Local!Write
    BY <2>1, Inboxes DEF Local!Write, Local!Sends, Messages
  <2>2. CASE \E leaves \in BOOLEAN : Local!Shutdown(leaves)
    BY <2>2 DEF Local!Shutdown
  <2>3. CASE Local!ShutdownHangsUp
    BY <2>3 DEF Local!ShutdownHangsUp
  <2>4. CASE Local!ShutdownSends
    BY <2>4, Inboxes DEF Local!ShutdownSends, Local!Sends, Messages
  <2>5. CASE Local!Spawn
    BY <2>5 DEF Local!Spawn
  <2>6. CASE Local!StartThreads
    BY <2>6 DEF Local!StartThreads
  <2>7. CASE Local!StartFails
    BY <2>7 DEF Local!StartFails
  <2>8. CASE Local!SendError
    BY <2>8 DEF Local!SendError
  <2>9. CASE Local!CheckStopping
    BY <2>9 DEF Local!CheckStopping, Local!Closes
  <2>10. CASE Local!TakeMessage
    <3>1. /\ TellsTruth(Tail(inbox), reader = "done")
          /\ Head(inbox) = "readerDone" => reader = "done"
      BY <2>10, Inboxes DEF Local!TakeMessage
    <3>2. /\ control = "loop" /\ inbox' = Tail(inbox)
          /\ UNCHANGED <<handle, reader, receiver, exitedSent>>
      BY <2>10 DEF Local!TakeMessage
    <3>3. /\ readerDone' => reader = "done"
          /\ control' = "exit" => reader = "done"
          /\ control' \in {"exit", "loop", "write"}
      BY <2>10, <3>1 DEF Local!TakeMessage, Local!After
    <3>4. \/ UNCHANGED <<deadline, closing>>
          \/ deadline' = "close" /\ closing' = TRUE
          \/ deadline' = "grace"
      BY <2>10 DEF Local!TakeMessage, Local!Closes
    <3>5. deadline' # "passed" /\ (deadline' = "close" => closing')
      BY <3>2, <3>4
    <3> QED
      BY <3>1, <3>2, <3>3, <3>5
  <2>11. CASE Local!WriteReturns
    BY <2>11 DEF Local!WriteReturns, Local!After
  <2>12. CASE Local!GracePasses
    BY <2>12 DEF Local!GracePasses, Local!Closes
  <2>13. CASE Local!CloseTimesOut
    BY <2>13 DEF Local!CloseTimesOut
  <2>14. CASE Local!SendExited
    BY <2>14 DEF Local!SendExited
  <2>15. CASE Local!ControlEnds
    BY <2>15 DEF Local!ControlEnds
  <2>16. CASE Local!Reap
    BY <2>16 DEF Local!Reap
  <2>17. CASE Local!ReportExit
    BY <2>17, Inboxes DEF Local!ReportExit, Local!Sends, Messages
  <2>18. CASE Local!ReaderStops
    BY <2>18, Inboxes DEF Local!ReaderStops, Local!Sends, Messages
  <2>19. CASE Local!Read
    BY <2>19 DEF Local!Read
  <2>20. CASE Local!SendOutput
    BY <2>20 DEF Local!SendOutput
  <2>21. CASE Local!Prints
    BY <2>21 DEF Local!Prints
  <2>22. CASE Local!ShellExits
    BY <2>22 DEF Local!ShellExits
  <2>23. CASE Local!Hears
    BY <2>23 DEF Local!Hears
  <2>24. CASE UNCHANGED Local!ptyVars
    BY <2>24 DEF Local!ptyVars
  <2> QED
    BY <2>1, <2>2, <2>3, <2>4, <2>5, <2>6, <2>7, <2>8, <2>9, <2>10, <2>11, <2>12,
       <2>13, <2>14, <2>15, <2>16, <2>17, <2>18, <2>19, <2>20, <2>21, <2>22, <2>23,
       <2>24 DEF Local!LNext
<1> QED
  BY <1>1, <1>2, PTL DEF Local!LSpec

\* What the engine hears of a local shell keeps the contract of backend.rs, for
\* any bound of the channel, any amount of output, any order of the four threads
\* and any shell: all output comes before the one Exited, then the channel closes.
\* Only what a reader that overran the teardown's time limit had read comes later.
THEOREM PtyKeepsContract == Local!LSpec => Local!KeepsContract
<1>1. Local!LInit => Local!Contract!CInit
  BY DEF Local!LInit, Local!Contract!CInit, Local!ChannelPhase
<1>2. SenderInv /\ [Local!LNext]_(Local!ptyVars)
      => [Local!Overran \/ Local!Contract!CNext]_(Local!Contract!contractVars)
  <2> SUFFICES ASSUME SenderInv, [Local!LNext]_(Local!ptyVars)
               PROVE  Local!Overran \/ Local!Contract!CNext \/ UNCHANGED Local!Contract!contractVars
    OBVIOUS
  <2> USE DEF SenderInv, ReaderOver, Local!ChannelPhase, Local!Contract!contractVars, Local!controlVars
  <2>1. CASE Local!Write
    BY <2>1 DEF Local!Write
  <2>2. CASE \E leaves \in BOOLEAN : Local!Shutdown(leaves)
    <3>1. handle = "idle" /\ receiver = TRUE /\ Local!ChannelPhase' = Local!ChannelPhase
      BY <2>2 DEF Local!Shutdown
    <3>2. CASE Local!Shutdown(TRUE)
      <4>1. receiver' = FALSE /\ events' = <<>>
        BY <3>2 DEF Local!Shutdown
      <4> QED
        BY <3>1, <4>1 DEF Local!Contract!CNext, Local!Contract!Leave
    <3>3. CASE Local!Shutdown(FALSE)
      <4>1. receiver' = TRUE /\ events' = events
        BY <3>3 DEF Local!Shutdown
      <4> QED
        BY <3>1, <4>1
    <3> QED
      BY <2>2, <3>2, <3>3
  <2>3. CASE Local!ShutdownHangsUp
    BY <2>3 DEF Local!ShutdownHangsUp
  <2>4. CASE Local!ShutdownSends
    BY <2>4 DEF Local!ShutdownSends
  <2>5. CASE Local!Spawn
    BY <2>5 DEF Local!Spawn
  <2>6. CASE Local!StartThreads
    BY <2>6 DEF Local!StartThreads
  <2>7. CASE Local!StartFails
    BY <2>7 DEF Local!StartFails
  <2>8. CASE Local!SendError
    BY <2>8 DEF Local!SendError, Local!Sent, Local!Contract!CNext, Local!Contract!Emit
  <2>9. CASE Local!CheckStopping
    BY <2>9 DEF Local!CheckStopping
  <2>10. CASE Local!TakeMessage
    BY <2>10 DEF Local!TakeMessage, Local!After
  <2>11. CASE Local!WriteReturns
    BY <2>11 DEF Local!WriteReturns, Local!After
  <2>12. CASE Local!GracePasses
    BY <2>12 DEF Local!GracePasses
  <2>13. CASE Local!CloseTimesOut
    BY <2>13 DEF Local!CloseTimesOut
  <2>14. CASE Local!SendExited
    BY <2>14 DEF Local!SendExited, Local!Sent, Local!Contract!CNext, Local!Contract!Exit
  <2>15. CASE Local!ControlEnds
    BY <2>15 DEF Local!ControlEnds, Local!Contract!CNext, Local!Contract!CloseChannel
  <2>16. CASE Local!Reap
    BY <2>16 DEF Local!Reap
  <2>17. CASE Local!ReportExit
    BY <2>17 DEF Local!ReportExit
  <2>18. CASE Local!ReaderStops
    BY <2>18 DEF Local!ReaderStops, Local!Contract!CNext, Local!Contract!CloseChannel
  <2>19. CASE Local!Read
    BY <2>19 DEF Local!Read
  <2>20. CASE Local!SendOutput
    BY <2>20 DEF Local!SendOutput, Local!Sent, Local!Overran, Local!Contract!CNext,
                 Local!Contract!Emit
  <2>21. CASE Local!Prints
    BY <2>21 DEF Local!Prints
  <2>22. CASE Local!ShellExits
    BY <2>22 DEF Local!ShellExits
  <2>23. CASE Local!Hears
    BY <2>23 DEF Local!Hears, Local!Contract!CNext, Local!Contract!Take
  <2>24. CASE UNCHANGED Local!ptyVars
    BY <2>24 DEF Local!ptyVars
  <2> QED
    BY <2>1, <2>2, <2>3, <2>4, <2>5, <2>6, <2>7, <2>8, <2>9, <2>10, <2>11, <2>12,
       <2>13, <2>14, <2>15, <2>16, <2>17, <2>18, <2>19, <2>20, <2>21, <2>22, <2>23,
       <2>24 DEF Local!LNext
<1> QED
  BY <1>1, <1>2, SenderInvariant, PTL DEF Local!LSpec, Local!KeepsContract

(***************************************************************************)
(* All output first: what ends the reader before the end of the output is  *)
(* its wake pipe, and only a shutdown, the teardown or a start that failed *)
(* (which never sends Exited) writes to that.                              *)
(***************************************************************************)
StartFailed == control = "failed" \/ (control \in {"last", "ended"} /\ ~exitedSent)
CutShort == stopping \/ closing \/ StartFailed

WakeInv ==
    /\ handle # "idle" => stopping
    /\ woken => CutShort
    /\ reader = "done" => CutShort \/ (tty = 0 /\ shell \in {"dead", "reaped"})

\* A shell that ended by itself had all its output delivered before Exited: for
\* any amount of output, of writes and any order of the four threads.
THEOREM PtyOutputFirst == Local!LSpec => []Local!AllOutputFirst
<1>1. Local!LInit => WakeInv
  BY DEF Local!LInit, WakeInv, CutShort, StartFailed
<1>2. SenderInv /\ WakeInv /\ [Local!LNext]_(Local!ptyVars) => WakeInv'
  <2> SUFFICES ASSUME SenderInv, WakeInv, [Local!LNext]_(Local!ptyVars) PROVE WakeInv'
    OBVIOUS
  <2> USE DEF SenderInv, ReaderOver, WakeInv, CutShort, StartFailed, Local!controlVars, Local!shellVars
  <2>1. CASE Local!Write
    BY <2>1 DEF Local!Write
  <2>2. CASE \E leaves \in BOOLEAN : Local!Shutdown(leaves)
    BY <2>2 DEF Local!Shutdown
  <2>3. CASE Local!ShutdownHangsUp
    BY <2>3 DEF Local!ShutdownHangsUp, Local!HangUp
  <2>4. CASE Local!ShutdownSends
    BY <2>4 DEF Local!ShutdownSends
  <2>5. CASE Local!Spawn
    BY <2>5 DEF Local!Spawn
  <2>6. CASE Local!StartThreads
    BY <2>6 DEF Local!StartThreads
  <2>7. CASE Local!StartFails
    BY <2>7 DEF Local!StartFails
  <2>8. CASE Local!SendError
    BY <2>8 DEF Local!SendError
  <2>9. CASE Local!CheckStopping
    BY <2>9 DEF Local!CheckStopping, Local!Closes, Local!HangUp
  <2>10. CASE Local!TakeMessage
    BY <2>10 DEF Local!TakeMessage, Local!After, Local!Closes, Local!HangUp
  <2>11. CASE Local!WriteReturns
    BY <2>11 DEF Local!WriteReturns, Local!After
  <2>12. CASE Local!GracePasses
    BY <2>12 DEF Local!GracePasses, Local!Closes, Local!HangUp
  <2>13. CASE Local!CloseTimesOut
    BY <2>13 DEF Local!CloseTimesOut
  <2>14. CASE Local!SendExited
    BY <2>14 DEF Local!SendExited
  <2>15. CASE Local!ControlEnds
    BY <2>15 DEF Local!ControlEnds
  <2>16. CASE Local!Reap
    BY <2>16 DEF Local!Reap
  <2>17. CASE Local!ReportExit
    BY <2>17 DEF Local!ReportExit
  <2>18. CASE Local!ReaderStops
    BY <2>18 DEF Local!ReaderStops, Local!EndOfFile
  <2>19. CASE Local!Read
    BY <2>19 DEF Local!Read
  <2>20. CASE Local!SendOutput
    BY <2>20 DEF Local!SendOutput
  <2>21. CASE Local!Prints
    BY <2>21 DEF Local!Prints
  <2>22. CASE Local!ShellExits
    BY <2>22 DEF Local!ShellExits
  <2>23. CASE Local!Hears
    BY <2>23 DEF Local!Hears
  <2>24. CASE UNCHANGED Local!ptyVars
    BY <2>24 DEF Local!ptyVars
  <2> QED
    BY <2>1, <2>2, <2>3, <2>4, <2>5, <2>6, <2>7, <2>8, <2>9, <2>10, <2>11, <2>12,
       <2>13, <2>14, <2>15, <2>16, <2>17, <2>18, <2>19, <2>20, <2>21, <2>22, <2>23,
       <2>24 DEF Local!LNext
<1>3. SenderInv /\ WakeInv => Local!AllOutputFirst
  BY DEF SenderInv, ReaderOver, WakeInv, CutShort, StartFailed, Local!AllOutputFirst
<1> QED
  BY <1>1, <1>2, <1>3, SenderInvariant, PTL DEF Local!LSpec

-----------------------------------------------------------------------------
(***************************************************************************)
(* The contract, for every queue length, number of attempts and of         *)
(* failures: once Exited was sent the task only has to end.                *)
(***************************************************************************)
ExitedIsLast ==
    /\ receiver \in BOOLEAN /\ exitedSent \in BOOLEAN
    /\ exitedSent => pc \in {"last", "ended"}

\* ExitedIsLast holds at the start and after every step.
LEMMA ExitedInvariant == Ssh!SSpec => []ExitedIsLast
<1>1. Ssh!SInit => ExitedIsLast
  BY DEF Ssh!SInit, ExitedIsLast
<1>2. ExitedIsLast /\ [Ssh!SNext]_(Ssh!sshVars) => ExitedIsLast'
  <2> SUFFICES ASSUME ExitedIsLast, [Ssh!SNext]_(Ssh!sshVars) PROVE ExitedIsLast'
    OBVIOUS
  <2> USE DEF ExitedIsLast, Ssh!ghosts, Ssh!channelVars, Ssh!paneVars
  <2>1. CASE \E c \in Ssh!Commands : Ssh!Asks(c)
    BY <2>1 DEF Ssh!Asks
  <2>2. CASE Ssh!PaneCloses
    BY <2>2 DEF Ssh!PaneCloses
  <2>10. CASE Ssh!Hears
    BY <2>10 DEF Ssh!Hears
  <2>3. CASE Ssh!Connects \/ (\E final \in BOOLEAN : Ssh!ConnectFails(final)) \/ Ssh!ConnectCommand
    BY <2>3 DEF Ssh!Connects, Ssh!ConnectFails, Ssh!ConnectCommand
  <2>4. CASE Ssh!SetUp \/ Ssh!SetUpRefused \/ Ssh!BesideEnds \/ Ssh!ConnectionLost \/ Ssh!TypeEnds
    BY <2>4 DEF Ssh!SetUp, Ssh!SetUpRefused, Ssh!BesideEnds, Ssh!ConnectionLost, Ssh!TypeEnds,
                Ssh!ShellEnds
  <2>5. CASE \E m \in {"data", "exit", "close"} : Ssh!ServerSends(m)
    BY <2>5 DEF Ssh!ServerSends
  <2>6. CASE Ssh!Message \/ Ssh!ShowData \/ Ssh!ShellCommand
    BY <2>6 DEF Ssh!Message, Ssh!ShowData, Ssh!ShellCommand, Ssh!Types, Ssh!ShellEnds
  <2>7. CASE Ssh!JoinLost
    BY <2>7 DEF Ssh!JoinLost
  <2>13. CASE Ssh!JoinEnds
    BY <2>13 DEF Ssh!JoinEnds
  <2>11. CASE Ssh!SendExited
    BY <2>11 DEF Ssh!SendExited
  <2>12. CASE Ssh!TaskEnds
    BY <2>12 DEF Ssh!TaskEnds
  <2>8. CASE Ssh!RetryTimer \/ Ssh!WaitCommand
    BY <2>8 DEF Ssh!RetryTimer, Ssh!WaitCommand
  <2>9. CASE UNCHANGED Ssh!sshVars
    BY <2>9 DEF Ssh!sshVars
  <2> QED
    BY <2>1, <2>2, <2>3, <2>4, <2>5, <2>6, <2>7, <2>8, <2>9, <2>10, <2>11,
       <2>12, <2>13 DEF Ssh!SNext
<1> QED
  BY <1>1, <1>2, PTL DEF Ssh!SSpec

\* What the engine hears of an SSH terminal keeps the contract of backend.rs, for
\* any bound of the channel: every note, line of output and loss comes before
\* the one Exited, and after it the channel closes.
THEOREM SshKeepsContract == Ssh!SSpec => Ssh!KeepsContract
<1>1. Ssh!SInit => Ssh!Contract!CInit
  BY DEF Ssh!SInit, Ssh!Contract!CInit, Ssh!ChannelPhase
<1>2. ExitedIsLast /\ [Ssh!SNext]_(Ssh!sshVars) => [Ssh!Contract!CNext]_(Ssh!Contract!contractVars)
  <2> SUFFICES ASSUME ExitedIsLast, [Ssh!SNext]_(Ssh!sshVars)
               PROVE  Ssh!Contract!CNext \/ UNCHANGED Ssh!Contract!contractVars
    OBVIOUS
  <2> USE DEF ExitedIsLast, Ssh!ChannelPhase, Ssh!Contract!contractVars, Ssh!ghosts, Ssh!channelVars
  <2>1. CASE \E c \in Ssh!Commands : Ssh!Asks(c)
    BY <2>1 DEF Ssh!Asks
  <2>2. CASE Ssh!PaneCloses
    BY <2>2 DEF Ssh!PaneCloses, Ssh!Contract!CNext, Ssh!Contract!Leave
  <2>3. CASE Ssh!Hears
    BY <2>3 DEF Ssh!Hears, Ssh!Contract!CNext, Ssh!Contract!Take
  <2>4. CASE Ssh!Connects \/ Ssh!SetUp \/ Ssh!SetUpRefused \/ Ssh!BesideEnds \/ Ssh!ConnectionLost
    BY <2>4 DEF Ssh!Connects, Ssh!SetUp, Ssh!SetUpRefused, Ssh!BesideEnds, Ssh!ConnectionLost
  <2>5. CASE \E final \in BOOLEAN : Ssh!ConnectFails(final)
    BY <2>5 DEF Ssh!ConnectFails, Ssh!Lost, Ssh!TrySend, Ssh!Contract!CNext, Ssh!Contract!Emit
  <2>15. CASE Ssh!JoinLost
    BY <2>15 DEF Ssh!JoinLost, Ssh!Lost, Ssh!TrySend, Ssh!Contract!CNext, Ssh!Contract!Emit
  <2>6. CASE Ssh!ConnectCommand
    BY <2>6 DEF Ssh!ConnectCommand, Ssh!Contract!CNext, Ssh!Contract!CloseChannel
  <2>7. CASE \E m \in {"data", "exit", "close"} : Ssh!ServerSends(m)
    BY <2>7 DEF Ssh!ServerSends
  <2>8. CASE Ssh!Message \/ Ssh!ShellCommand
    BY <2>8 DEF Ssh!Message, Ssh!ShellCommand, Ssh!Types, Ssh!ShellEnds
  <2>16. CASE Ssh!TypeEnds
    BY <2>16 DEF Ssh!TypeEnds, Ssh!ShellEnds
  <2>9. CASE Ssh!ShowData
    BY <2>9 DEF Ssh!ShowData, Ssh!Types, Ssh!ShellEnds, Ssh!Send, Ssh!Contract!CNext, Ssh!Contract!Emit
  <2>10. CASE Ssh!JoinEnds \/ Ssh!TaskEnds
    BY <2>10 DEF Ssh!JoinEnds, Ssh!TaskEnds, Ssh!Contract!CNext, Ssh!Contract!CloseChannel
  <2>11. CASE Ssh!SendExited
    BY <2>11 DEF Ssh!SendExited, Ssh!Send, Ssh!Contract!CNext, Ssh!Contract!Exit
  <2>12. CASE Ssh!RetryTimer
    BY <2>12 DEF Ssh!RetryTimer, Ssh!StartsConnecting, Ssh!TrySend, Ssh!Contract!CNext, Ssh!Contract!Emit
  <2>13. CASE Ssh!WaitCommand
    BY <2>13 DEF Ssh!WaitCommand, Ssh!StartsConnecting, Ssh!TrySend, Ssh!Contract!CNext,
                 Ssh!Contract!Emit, Ssh!Contract!CloseChannel
  <2>14. CASE UNCHANGED Ssh!sshVars
    BY <2>14 DEF Ssh!sshVars
  <2> QED
    BY <2>1, <2>2, <2>3, <2>4, <2>5, <2>6, <2>7, <2>8, <2>9, <2>10, <2>11, <2>12,
       <2>13, <2>14, <2>15, <2>16 DEF Ssh!SNext
<1> QED
  BY <1>1, <1>2, ExitedInvariant, PTL DEF Ssh!SSpec, Ssh!KeepsContract, Ssh!Contract!CSpec

\* Only a pane that is gone tells the task to end.
SshCommands == Ssh!Commands \cup {[k |-> "shutdown"]}
ShutdownTold(cs, open) == \A n \in 1..Len(cs) : cs[n].k = "shutdown" => ~open

\* ShutdownTold, when a command is sent, the pane closes, or one is handled.
LEMMA ToldSent ==
    ASSUME NEW S, NEW cs \in Seq(S), NEW open \in BOOLEAN, ShutdownTold(cs, open)
    PROVE  /\ \A c \in S : (c.k = "shutdown" => ~open) => ShutdownTold(Append(cs, c), open)
           /\ ShutdownTold(cs, FALSE)
           /\ cs # <<>> => /\ ShutdownTold(Tail(cs), open)
                           /\ Head(cs).k = "shutdown" => ~open
<1> USE DEF ShutdownTold
<1>1. ASSUME NEW c \in S, c.k = "shutdown" => ~open
      PROVE  ShutdownTold(Append(cs, c), open)
  <2>1. Len(Append(cs, c)) = Len(cs) + 1 /\ Append(cs, c)[Len(cs) + 1] = c
        /\ \A n \in 1..Len(cs) : Append(cs, c)[n] = cs[n]
    OBVIOUS
  <2> SUFFICES ASSUME NEW n \in 1..Len(Append(cs, c)), Append(cs, c)[n].k = "shutdown"
               PROVE  ~open
    OBVIOUS
  <2>2. n \in 1..Len(cs) \/ n = Len(cs) + 1
    BY <2>1
  <2> QED
    BY <1>1, <2>1, <2>2
<1>2. ShutdownTold(cs, FALSE)
  OBVIOUS
<1>3. ASSUME cs # <<>>
      PROVE  ShutdownTold(Tail(cs), open) /\ (Head(cs).k = "shutdown" => ~open)
  <2>1. /\ Len(cs) \in Nat \ {0} /\ Len(Tail(cs)) = Len(cs) - 1 /\ Head(cs) = cs[1]
        /\ \A n \in 1..Len(Tail(cs)) : Tail(cs)[n] = cs[n + 1]
    BY <1>3
  <2> QED
    BY <2>1
<1> QED
  BY <1>1, <1>2, <1>3

(***************************************************************************)
(* The server has the size that run handled last, and what it has still to *)
(* handle ends with the pane's last one.                                   *)
(***************************************************************************)
SshSizes ==
    /\ commands \in Seq(SshCommands)
    /\ SizeComing(commands, size, asked)
    /\ pc \in {"shell", "data", "typing"} /\ conn = "up" => serverSize = size

\* What a step makes of the commands, for SizeInv.
SizesMove ==
    /\ commands' \in Seq(SshCommands)
    /\ SizeComing(commands', size', asked')

\* SizesMove holds of a step that handles the first command, if it leaves the
\* pane's size alone and takes over the command's.
LEMMA SshHandled ==
    ASSUME SshSizes, Ssh!NextCommand, asked' = asked,
           size' = IF Head(commands).k = "resize" THEN Head(commands).size ELSE size
    PROVE  SizesMove /\ Head(commands) \in SshCommands
<1>1. commands # <<>> /\ commands' = Tail(commands)
  BY DEF Ssh!NextCommand
<1>2. commands' \in Seq(SshCommands) /\ Head(commands) \in SshCommands
  BY <1>1 DEF SshSizes
<1>3. SizeComing(Tail(commands),
                 IF Head(commands).k = "resize" THEN Head(commands).size ELSE size, asked)
  BY <1>1, SizeTaken DEF SshSizes
<1> QED
  BY <1>1, <1>2, <1>3 DEF SizesMove

\* Whatever was resized while connecting, waiting or during a loss, the server
\* has the pane's size once its commands are handled, for any sizes, number of
\* resizes, of losses and of attempts.
THEOREM SshSizeFollows == Ssh!SSpec => []Ssh!SizeFollows
<1>1. Ssh!SInit => SshSizes
  BY DEF Ssh!SInit, SshSizes, SizeComing, NoResize
<1>2. SshSizes /\ [Ssh!SNext]_(Ssh!sshVars) => SshSizes'
  <2> SUFFICES ASSUME SshSizes, [Ssh!SNext]_(Ssh!sshVars) PROVE SshSizes'
    OBVIOUS
  <2> USE DEF Ssh!ghosts, Ssh!channelVars
  <2>1. CASE \E c \in Ssh!Commands : Ssh!Asks(c)
    <3>1. PICK c \in Ssh!Commands : Ssh!Asks(c)
      BY <2>1
    <3>2. c \in SshCommands
      BY DEF SshCommands
    <3>3. SizeComing(Append(commands, c), size, IF c.k = "resize" THEN c.size ELSE asked)
      BY <3>2, SizeSent DEF SshSizes
    <3> QED
      BY <3>1, <3>2, <3>3 DEF Ssh!Asks, SshSizes
  <2>2. CASE Ssh!PaneCloses
    <3> DEFINE c == [k |-> "shutdown"]
    <3>1. c \in SshCommands /\ c.k # "resize"
      BY DEF SshCommands
    <3>2. SizeComing(Append(commands, c), size, asked)
      BY <3>1, SizeSent DEF SshSizes
    <3> QED
      BY <2>2, <3>1, <3>2 DEF Ssh!PaneCloses, SshSizes
  <2>3. CASE Ssh!Hears
    BY <2>3 DEF SshSizes, Ssh!Hears
  <2>4. CASE Ssh!Connects
    BY <2>4 DEF SshSizes, Ssh!Connects
  <2>5. CASE \E final \in BOOLEAN : Ssh!ConnectFails(final)
    BY <2>5 DEF SshSizes, Ssh!ConnectFails, Ssh!Lost
  <2>6. CASE Ssh!ConnectCommand
    <3>1. SizesMove
      BY <2>6, SshHandled DEF Ssh!ConnectCommand
    <3> QED
      BY <2>6, <3>1 DEF Ssh!ConnectCommand, SshSizes, SizesMove
  <2>7. CASE Ssh!SetUp
    BY <2>7 DEF SshSizes, Ssh!SetUp
  <2>8. CASE Ssh!SetUpRefused
    BY <2>8 DEF SshSizes, Ssh!SetUpRefused
  <2>9. CASE Ssh!BesideEnds
    BY <2>9 DEF SshSizes, Ssh!BesideEnds
  <2>10. CASE \E m \in {"data", "exit", "close"} : Ssh!ServerSends(m)
    BY <2>10 DEF SshSizes, Ssh!ServerSends
  <2>11. CASE Ssh!ConnectionLost
    BY <2>11 DEF SshSizes, Ssh!ConnectionLost
  <2>12. CASE Ssh!Message
    BY <2>12 DEF SshSizes, Ssh!Message, Ssh!ShellEnds
  <2>13. CASE Ssh!ShowData
    BY <2>13 DEF SshSizes, Ssh!ShowData, Ssh!Types, Ssh!ShellEnds
  <2>22. CASE Ssh!TypeEnds
    BY <2>22 DEF SshSizes, Ssh!TypeEnds, Ssh!ShellEnds
  <2>14. CASE Ssh!ShellCommand
    <3>1. SizesMove
      BY <2>14, SshHandled DEF Ssh!ShellCommand
    <3> QED
      BY <2>14, <3>1 DEF Ssh!ShellCommand, Ssh!Types, Ssh!ShellEnds, SshSizes, SizesMove
  <2>15. CASE Ssh!JoinLost
    BY <2>15 DEF SshSizes, Ssh!JoinLost, Ssh!Lost
  <2>16. CASE Ssh!JoinEnds
    BY <2>16 DEF SshSizes, Ssh!JoinEnds
  <2>17. CASE Ssh!SendExited
    BY <2>17 DEF SshSizes, Ssh!SendExited
  <2>18. CASE Ssh!TaskEnds
    BY <2>18 DEF SshSizes, Ssh!TaskEnds
  <2>19. CASE Ssh!RetryTimer
    BY <2>19 DEF SshSizes, Ssh!RetryTimer, Ssh!StartsConnecting
  <2>20. CASE Ssh!WaitCommand
    <3>1. SizesMove
      BY <2>20, SshHandled DEF Ssh!WaitCommand
    <3> QED
      BY <2>20, <3>1 DEF Ssh!WaitCommand, Ssh!StartsConnecting, SshSizes, SizesMove
  <2>21. CASE UNCHANGED Ssh!sshVars
    BY <2>21 DEF SshSizes, Ssh!sshVars
  <2> QED
    BY <2>1, <2>2, <2>3, <2>4, <2>5, <2>6, <2>7, <2>8, <2>9, <2>10, <2>11, <2>12,
       <2>13, <2>14, <2>15, <2>16, <2>17, <2>18, <2>19, <2>20, <2>21, <2>22 DEF Ssh!SNext
<1>3. SshSizes => Ssh!SizeFollows
  BY DEF SshSizes, SizeComing, NoResize, Ssh!SizeFollows
<1> QED
  BY <1>1, <1>2, <1>3, PTL DEF Ssh!SSpec

(***************************************************************************)
(* The pane: the task ends without telling it only when it is gone.        *)
(***************************************************************************)
GoneInv ==
    /\ receiver \in BOOLEAN /\ live \in BOOLEAN
    /\ commands \in Seq(SshCommands) /\ ShutdownTold(commands, receiver)
    /\ result = "shutdown" => ~receiver
    /\ Ssh!PaneTruth

\* The first command is handled.
LEMMA FirstTold ==
    ASSUME GoneInv, Ssh!NextCommand
    PROVE  /\ commands' \in Seq(SshCommands) /\ ShutdownTold(commands', receiver)
           /\ Head(commands).k = "shutdown" => ~receiver
<1>1. commands \in Seq(SshCommands) /\ commands # <<>> /\ commands' = Tail(commands)
  BY DEF GoneInv, Ssh!NextCommand
<1>2. receiver \in BOOLEAN /\ ShutdownTold(commands, receiver)
  BY DEF GoneInv
<1>3. ShutdownTold(Tail(commands), receiver) /\ (Head(commands).k = "shutdown" => ~receiver)
  BY <1>1, <1>2, ToldSent
<1> QED
  BY <1>1, <1>3

\* An open pane shows the state its task is in, and offers its connection only
\* while the session lasts, whatever is lost, refused, retried or typed, and in
\* any order.
THEOREM SshPaneTruth == Ssh!SSpec => []Ssh!PaneTruth
<1>1. Ssh!SInit => GoneInv
  <2>1. <<>> \in Seq(SshCommands) /\ ShutdownTold(<<>>, TRUE)
    BY DEF ShutdownTold
  <2> QED
    BY <2>1 DEF Ssh!SInit, GoneInv, Ssh!PaneTruth
<1>2. GoneInv /\ [Ssh!SNext]_(Ssh!sshVars) => GoneInv'
  <2> SUFFICES ASSUME GoneInv, [Ssh!SNext]_(Ssh!sshVars) PROVE GoneInv'
    OBVIOUS
  <2> USE DEF Ssh!ghosts, Ssh!channelVars, Ssh!paneVars
  <2>1. CASE \E c \in Ssh!Commands : Ssh!Asks(c)
    <3>1. PICK c \in Ssh!Commands : Ssh!Asks(c)
      BY <2>1
    <3>2. c \in SshCommands /\ c.k # "shutdown"
      BY DEF Ssh!Commands, SshCommands
    <3>3. ShutdownTold(Append(commands, c), receiver)
      BY <3>2, ToldSent DEF GoneInv
    <3>4. /\ commands' = Append(commands, c) /\ commands' \in Seq(SshCommands)
          /\ UNCHANGED <<receiver, live, result, pc, status>>
      BY <3>1, <3>2 DEF Ssh!Asks, GoneInv
    <3> QED
      BY <3>3, <3>4 DEF GoneInv, Ssh!PaneTruth
  <2>2. CASE Ssh!PaneCloses
    <3> DEFINE c == [k |-> "shutdown"]
    <3>1. c \in SshCommands
      BY DEF SshCommands
    <3>2. ShutdownTold(commands, FALSE)
      BY ToldSent DEF GoneInv
    <3>3. ShutdownTold(Append(commands, c), FALSE)
      BY <3>1, <3>2, ToldSent DEF GoneInv
    <3>4. /\ commands' = Append(commands, c) /\ commands' \in Seq(SshCommands)
          /\ receiver' = FALSE /\ UNCHANGED live
      BY <2>2, <3>1 DEF Ssh!PaneCloses, GoneInv
    <3> QED
      BY <3>3, <3>4 DEF GoneInv, Ssh!PaneTruth
  <2>3. CASE Ssh!Hears
    BY <2>3 DEF GoneInv, Ssh!PaneTruth, Ssh!Hears
  <2>4. CASE Ssh!Connects
    BY <2>4 DEF GoneInv, Ssh!PaneTruth, Ssh!Connects
  <2>5. CASE \E final \in BOOLEAN : Ssh!ConnectFails(final)
    BY <2>5 DEF GoneInv, Ssh!PaneTruth, Ssh!ConnectFails, Ssh!Lost, Ssh!Shows
  <2>6. CASE Ssh!ConnectCommand
    <3>1. Ssh!NextCommand /\ UNCHANGED receiver
      BY <2>6 DEF Ssh!ConnectCommand
    <3>2. /\ commands' \in Seq(SshCommands) /\ ShutdownTold(commands', receiver)
          /\ Head(commands).k = "shutdown" => ~receiver
      BY <3>1, FirstTold
    <3>3. live' \in BOOLEAN /\ (result' = "shutdown" => ~receiver)
      BY <2>6, <3>2 DEF Ssh!ConnectCommand, GoneInv
    <3>4. Ssh!PaneTruth'
      BY <2>6, <3>1, <3>2 DEF Ssh!ConnectCommand, GoneInv, Ssh!PaneTruth
    <3> QED
      BY <3>1, <3>2, <3>3, <3>4 DEF GoneInv
  <2>7. CASE Ssh!SetUp
    BY <2>7 DEF GoneInv, Ssh!PaneTruth, Ssh!SetUp
  <2>8. CASE Ssh!SetUpRefused
    BY <2>8 DEF GoneInv, Ssh!PaneTruth, Ssh!SetUpRefused
  <2>9. CASE Ssh!BesideEnds
    BY <2>9 DEF GoneInv, Ssh!PaneTruth, Ssh!BesideEnds
  <2>10. CASE \E m \in {"data", "exit", "close"} : Ssh!ServerSends(m)
    BY <2>10 DEF GoneInv, Ssh!PaneTruth, Ssh!ServerSends
  <2>11. CASE Ssh!ConnectionLost
    BY <2>11 DEF GoneInv, Ssh!PaneTruth, Ssh!ConnectionLost
  <2>12. CASE Ssh!Message
    BY <2>12 DEF GoneInv, Ssh!PaneTruth, Ssh!Message, Ssh!ShellEnds
  <2>13. CASE Ssh!ShowData
    BY <2>13 DEF GoneInv, Ssh!PaneTruth, Ssh!ShowData, Ssh!Types, Ssh!ShellEnds
  <2>22. CASE Ssh!TypeEnds
    BY <2>22 DEF GoneInv, Ssh!PaneTruth, Ssh!TypeEnds, Ssh!ShellEnds
  <2>14. CASE Ssh!ShellCommand
    <3>1. Ssh!NextCommand /\ UNCHANGED receiver
      BY <2>14 DEF Ssh!ShellCommand
    <3>2. /\ commands' \in Seq(SshCommands) /\ ShutdownTold(commands', receiver)
          /\ Head(commands).k = "shutdown" => ~receiver
      BY <3>1, FirstTold
    <3>3. live' \in BOOLEAN /\ (result' = "shutdown" => ~receiver)
      BY <2>14, <3>2 DEF Ssh!ShellCommand, Ssh!Types, Ssh!ShellEnds, GoneInv
    <3>4. Ssh!PaneTruth'
      BY <2>14, <3>1, <3>2 DEF Ssh!ShellCommand, Ssh!Types, Ssh!ShellEnds, GoneInv, Ssh!PaneTruth
    <3> QED
      BY <3>1, <3>2, <3>3, <3>4 DEF GoneInv
  <2>15. CASE Ssh!JoinLost
    BY <2>15 DEF GoneInv, Ssh!PaneTruth, Ssh!JoinLost, Ssh!Lost, Ssh!Shows
  <2>16. CASE Ssh!JoinEnds
    BY <2>16 DEF GoneInv, Ssh!PaneTruth, Ssh!JoinEnds, Ssh!Shows
  <2>17. CASE Ssh!SendExited
    BY <2>17 DEF GoneInv, Ssh!PaneTruth, Ssh!SendExited
  <2>18. CASE Ssh!TaskEnds
    BY <2>18 DEF GoneInv, Ssh!PaneTruth, Ssh!TaskEnds
  <2>19. CASE Ssh!RetryTimer
    BY <2>19 DEF GoneInv, Ssh!PaneTruth, Ssh!RetryTimer, Ssh!StartsConnecting, Ssh!Shows
  <2>20. CASE Ssh!WaitCommand
    <3>1. Ssh!NextCommand /\ UNCHANGED receiver
      BY <2>20 DEF Ssh!WaitCommand
    <3>2. /\ commands' \in Seq(SshCommands) /\ ShutdownTold(commands', receiver)
          /\ Head(commands).k = "shutdown" => ~receiver
      BY <3>1, FirstTold
    <3>3. live' \in BOOLEAN /\ (result' = "shutdown" => ~receiver)
      BY <2>20, <3>2 DEF Ssh!WaitCommand, Ssh!StartsConnecting, Ssh!Shows, GoneInv
    <3>4. Ssh!PaneTruth'
      <4>1. \/ pc' = "connect" /\ status' = "connecting" /\ live' = FALSE
            \/ UNCHANGED <<pc, status, live>>
            \/ Head(commands).k = "shutdown"
        BY <2>20 DEF Ssh!WaitCommand, Ssh!StartsConnecting, Ssh!Shows
      <4>2. Ssh!PaneTruth /\ receiver' = receiver
        BY <3>1 DEF GoneInv
      <4> QED
        BY <3>2, <4>1, <4>2 DEF Ssh!PaneTruth
    <3> QED
      BY <3>1, <3>2, <3>3, <3>4 DEF GoneInv
  <2>21. CASE UNCHANGED Ssh!sshVars
    BY <2>21 DEF GoneInv, Ssh!PaneTruth, Ssh!sshVars
  <2> QED
    BY <2>1, <2>2, <2>3, <2>4, <2>5, <2>6, <2>7, <2>8, <2>9, <2>10, <2>11, <2>12,
       <2>13, <2>14, <2>15, <2>16, <2>17, <2>18, <2>19, <2>20, <2>21, <2>22 DEF Ssh!SNext
<1>3. GoneInv => Ssh!PaneTruth
  BY DEF GoneInv
<1> QED
  BY <1>1, <1>2, <1>3, PTL DEF Ssh!SSpec

-----------------------------------------------------------------------------
(***************************************************************************)
(* The contract, from the PTY's: the forwarding thread exists only in      *)
(* run_client, so the task's own Exited and the PTY's never both come, and *)
(* the PTY's is the last event it forwards.                                *)
(***************************************************************************)
Over == {"exited", "closed"}
BeforeClient == Mosh!Following \cup {"find", "retry", "enter", "launch"}

\* Exited is the last event of the PTY's channel, and of what is forwarded.
InnerLast ==
    /\ inner \in Seq({"output", "exited"})
    /\ \A n \in 1..Len(inner) :
         inner[n] = "exited" => n = Len(inner) /\ innerPhase \in Over
    /\ forward = "exited" => inner = <<>> /\ innerPhase \in Over

OuterLast ==
    exitedSent =>
        \/ forward = "off" /\ pc \in {"last", "ended"}
        \/ forward = "ended"
        \/ forward = "recv" /\ inner = <<>> /\ innerPhase \in Over

OneSource ==
    /\ receiver \in BOOLEAN /\ exitedSent \in BOOLEAN
    /\ forward \in {"off", "recv", "output", "exited", "ended"}
    /\ forward # "off" => pc \in {"client", "ended"} /\ innerPhase # "none"
    /\ pc = "client" => forward # "off"
    /\ pc \in BeforeClient => innerPhase = "none"
    /\ InnerLast /\ OuterLast

\* OneSource holds at the start and after every step.
LEMMA SourceInvariant == Mosh!OSpec => []OneSource
<1>1. Mosh!OInit => OneSource
  <2>1. <<>> \in Seq({"output", "exited"}) /\ 1..Len(<<>>) = {}
    OBVIOUS
  <2> QED
    BY <2>1 DEF Mosh!OInit, OneSource, InnerLast, OuterLast
<1>2. OneSource /\ [Mosh!ONext]_(Mosh!moshVars) => OneSource'
  <2> SUFFICES ASSUME OneSource, [Mosh!ONext]_(Mosh!moshVars) PROVE OneSource'
    OBVIOUS
  <2> USE DEF OneSource, InnerLast, OuterLast, Over, BeforeClient, Mosh!Following, Mosh!ghosts, Mosh!pty,
          Mosh!outer
  <2>1. CASE \E c \in Mosh!Commands : Mosh!PaneAsks(c)
    BY <2>1 DEF Mosh!PaneAsks
  <2>2. CASE Mosh!PaneCloses
    BY <2>2 DEF Mosh!PaneCloses
  <2>3. CASE Mosh!Hears
    BY <2>3 DEF Mosh!Hears
  <2>4. CASE Mosh!FindClient
    BY <2>4 DEF Mosh!FindClient, Mosh!Ended
  <2>5. CASE Mosh!StepWorks
    BY <2>5 DEF Mosh!StepWorks, Mosh!NextStep
  <2>6. CASE Mosh!StepFails
    BY <2>6 DEF Mosh!StepFails, Mosh!Ended
  <2>7. CASE Mosh!Follow
    BY <2>7 DEF Mosh!Follow
  <2>8. CASE Mosh!OfferEnter
    BY <2>8 DEF Mosh!OfferEnter
  <2>9. CASE Mosh!WaitForEnter
    BY <2>9 DEF Mosh!WaitForEnter
  <2>10. CASE Mosh!Launch
    BY <2>10 DEF Mosh!Launch
  <2>11. CASE Mosh!ClientCommand
    BY <2>11 DEF Mosh!ClientCommand
  <2>12. CASE Mosh!SendError
    BY <2>12 DEF Mosh!SendError
  <2>13. CASE Mosh!SendExited
    BY <2>13 DEF Mosh!SendExited
  <2>14. CASE Mosh!TaskEnds
    BY <2>14 DEF Mosh!TaskEnds
  <2>15. CASE Mosh!ForwardTakes
    BY <2>15 DEF Mosh!ForwardTakes
  <2>16. CASE Mosh!ForwardSends
    BY <2>16 DEF Mosh!ForwardSends
  <2>17. CASE Mosh!PtyStep
    BY <2>17 DEF Mosh!PtyStep, Mosh!Pty!Emit, Mosh!Pty!Exit
  <2>18. CASE Mosh!PtyCloses
    BY <2>18 DEF Mosh!PtyCloses, Mosh!Pty!CloseChannel
  <2>19. CASE UNCHANGED Mosh!moshVars
    BY <2>19 DEF Mosh!moshVars
  <2> QED
    BY <2>1, <2>2, <2>3, <2>4, <2>5, <2>6, <2>7, <2>8, <2>9, <2>10, <2>11, <2>12,
       <2>13, <2>14, <2>15, <2>16, <2>17, <2>18, <2>19 DEF Mosh!ONext
<1> QED
  BY <1>1, <1>2, PTL DEF Mosh!OSpec

\* What the engine hears of a mosh session keeps the contract of backend.rs, for
\* any bound of the channels, because the PTY underneath keeps it.
THEOREM MoshKeepsContract == Mosh!OSpec => Mosh!KeepsContract
<1>1. Mosh!OInit => Mosh!Contract!CInit
  BY DEF Mosh!OInit, Mosh!Contract!CInit, Mosh!ChannelPhase
<1>2. OneSource /\ [Mosh!ONext]_(Mosh!moshVars) => [Mosh!Contract!CNext]_(Mosh!Contract!contractVars)
  <2> SUFFICES ASSUME OneSource, [Mosh!ONext]_(Mosh!moshVars)
               PROVE  Mosh!Contract!CNext \/ UNCHANGED Mosh!Contract!contractVars
    OBVIOUS
  <2> USE DEF OneSource, OuterLast, Mosh!ChannelPhase, Mosh!Contract!contractVars, Mosh!pty, Mosh!outer
  <2>1. CASE \E c \in Mosh!Commands : Mosh!PaneAsks(c)
    BY <2>1 DEF Mosh!PaneAsks
  <2>2. CASE Mosh!PaneCloses
    BY <2>2 DEF Mosh!PaneCloses, Mosh!Contract!CNext, Mosh!Contract!Leave
  <2>3. CASE Mosh!Hears
    BY <2>3 DEF Mosh!Hears, Mosh!Contract!CNext, Mosh!Contract!Take
  <2>4. CASE Mosh!FindClient
    BY <2>4 DEF Mosh!FindClient, Mosh!Ended
  <2>5. CASE Mosh!StepWorks
    BY <2>5 DEF Mosh!StepWorks, Mosh!Following, Mosh!NextStep, Mosh!Sent, Mosh!Contract!CNext, Mosh!Contract!Emit
  <2>6. CASE Mosh!StepFails
    BY <2>6 DEF Mosh!StepFails, Mosh!Following, Mosh!Ended
  <2>7. CASE Mosh!Follow
    BY <2>7 DEF Mosh!Follow, Mosh!Following, Mosh!Contract!CNext, Mosh!Contract!CloseChannel
  <2>8. CASE Mosh!OfferEnter
    BY <2>8 DEF Mosh!OfferEnter, Mosh!Sent, Mosh!Contract!CNext, Mosh!Contract!Emit
  <2>9. CASE Mosh!WaitForEnter
    BY <2>9 DEF Mosh!WaitForEnter, Mosh!Contract!CNext, Mosh!Contract!CloseChannel
  <2>10. CASE Mosh!Launch
    BY <2>10 DEF Mosh!Launch
  <2>11. CASE Mosh!ClientCommand
    BY <2>11 DEF Mosh!ClientCommand, Mosh!Contract!CNext, Mosh!Contract!CloseChannel
  <2>12. CASE Mosh!SendError
    BY <2>12 DEF Mosh!SendError, Mosh!Sent, Mosh!Contract!CNext, Mosh!Contract!Emit
  <2>13. CASE Mosh!SendExited
    BY <2>13 DEF Mosh!SendExited, Mosh!Sent, Mosh!Contract!CNext, Mosh!Contract!Exit
  <2>14. CASE Mosh!TaskEnds
    BY <2>14 DEF Mosh!TaskEnds, Mosh!Contract!CNext, Mosh!Contract!CloseChannel
  <2>15. CASE Mosh!ForwardTakes
    BY <2>15 DEF Mosh!ForwardTakes, InnerLast, Mosh!Contract!CNext, Mosh!Contract!CloseChannel
  <2>16. CASE Mosh!ForwardSends
    BY <2>16 DEF Mosh!ForwardSends, Mosh!Sent, Mosh!Contract!CNext, Mosh!Contract!Emit, Mosh!Contract!Exit,
                 Mosh!Contract!CloseChannel
  <2>17. CASE Mosh!PtyStep
    BY <2>17 DEF Mosh!PtyStep
  <2>18. CASE Mosh!PtyCloses
    BY <2>18 DEF Mosh!PtyCloses
  <2>19. CASE UNCHANGED Mosh!moshVars
    BY <2>19 DEF Mosh!moshVars
  <2> QED
    BY <2>1, <2>2, <2>3, <2>4, <2>5, <2>6, <2>7, <2>8, <2>9, <2>10, <2>11, <2>12,
       <2>13, <2>14, <2>15, <2>16, <2>17, <2>18, <2>19 DEF Mosh!ONext
<1> QED
  BY <1>1, <1>2, SourceInvariant, PTL DEF Mosh!OSpec, Mosh!KeepsContract, Mosh!Contract!CSpec

(***************************************************************************)
(* The sizes: `now` is the size handled last and `last` the pane's last.   *)
(* What is still to be handled ends with that one, or has none in it.      *)
(***************************************************************************)
\* The size handled last is the task's, and the PTY's once the client runs.
MoshCommands == Mosh!Commands \cup {[k |-> "shutdown"]}
SizeNow == IF pc = "client" THEN ptySize ELSE size
ClientInv ==
    /\ commands \in Seq(MoshCommands)
    /\ pc # "ended" => SizeComing(commands, SizeNow, asked)

\* The first command is handled.
LEMMA MoshHandled ==
    ASSUME ClientInv, pc # "ended", commands # <<>>
    PROVE  /\ Tail(commands) \in Seq(MoshCommands)
           /\ SizeComing(Tail(commands),
                         IF Head(commands).k = "resize" THEN Head(commands).size
                         ELSE SizeNow, asked)
<1>1. commands \in Seq(MoshCommands) /\ SizeComing(commands, SizeNow, asked)
  BY DEF ClientInv
<1> QED
  BY <1>1, SizeTaken

\* mosh-client has the pane's size once the pane's commands are handled, for any
\* sizes and however often the pane was resized while mosh-server was started,
\* Enter was waited for or the client was launched.
THEOREM MoshClientSize == Mosh!OSpec => []Mosh!ClientSize
<1>1. Mosh!OInit => ClientInv
  BY DEF Mosh!OInit, ClientInv, SizeNow, SizeComing, NoResize
<1>2. ClientInv /\ [Mosh!ONext]_(Mosh!moshVars) => ClientInv'
  <2> SUFFICES ASSUME ClientInv, [Mosh!ONext]_(Mosh!moshVars) PROVE ClientInv'
    OBVIOUS
  <2> USE DEF Mosh!ghosts, Mosh!outer, Mosh!pty
  <2>1. CASE \E c \in Mosh!Commands : Mosh!PaneAsks(c)
    <3>1. PICK c \in Mosh!Commands : Mosh!PaneAsks(c)
      BY <2>1
    <3>2. c \in MoshCommands
      BY DEF MoshCommands
    <3>3. pc # "ended" =>
            SizeComing(Append(commands, c), SizeNow, IF c.k = "resize" THEN c.size ELSE asked)
      BY <3>2, SizeSent DEF ClientInv
    <3> QED
      BY <3>1, <3>2, <3>3 DEF Mosh!PaneAsks, ClientInv, SizeNow
  <2>2. CASE Mosh!PaneCloses
    <3> DEFINE c == [k |-> "shutdown"]
    <3>1. c \in MoshCommands /\ c.k # "resize"
      BY DEF MoshCommands
    <3>2. pc # "ended" => SizeComing(Append(commands, c), SizeNow, asked)
      BY <3>1, SizeSent DEF ClientInv
    <3> QED
      BY <2>2, <3>1, <3>2 DEF Mosh!PaneCloses, ClientInv, SizeNow
  <2>3. CASE Mosh!Hears
    BY <2>3 DEF ClientInv, SizeNow, Mosh!Hears
  <2>4. CASE Mosh!FindClient
    BY <2>4 DEF ClientInv, SizeNow, Mosh!FindClient, Mosh!Ended
  <2>5. CASE Mosh!StepWorks
    BY <2>5 DEF ClientInv, SizeNow, Mosh!StepWorks, Mosh!Following, Mosh!NextStep
  <2>6. CASE Mosh!StepFails
    BY <2>6 DEF ClientInv, SizeNow, Mosh!StepFails, Mosh!Following, Mosh!Ended
  <2>7. CASE Mosh!Follow
    <3>1. pc # "ended" /\ commands # <<>>
      BY <2>7 DEF Mosh!Follow, Mosh!Following
    <3> QED
      BY <2>7, <3>1, MoshHandled DEF Mosh!Follow, Mosh!Following, ClientInv, SizeNow
  <2>8. CASE Mosh!OfferEnter
    BY <2>8 DEF ClientInv, SizeNow, Mosh!OfferEnter
  <2>9. CASE Mosh!WaitForEnter
    <3>1. pc # "ended" /\ commands # <<>>
      BY <2>9 DEF Mosh!WaitForEnter
    <3> QED
      BY <2>9, <3>1, MoshHandled DEF Mosh!WaitForEnter, ClientInv, SizeNow
  <2>10. CASE Mosh!Launch
    BY <2>10 DEF ClientInv, SizeNow, Mosh!Launch
  <2>11. CASE Mosh!ClientCommand
    <3>1. pc # "ended" /\ commands # <<>>
      BY <2>11 DEF Mosh!ClientCommand
    <3> QED
      BY <2>11, <3>1, MoshHandled DEF Mosh!ClientCommand, ClientInv, SizeNow
  <2>12. CASE Mosh!SendError
    BY <2>12 DEF ClientInv, SizeNow, Mosh!SendError
  <2>13. CASE Mosh!SendExited
    BY <2>13 DEF ClientInv, SizeNow, Mosh!SendExited
  <2>14. CASE Mosh!TaskEnds
    BY <2>14 DEF ClientInv, SizeNow, Mosh!TaskEnds
  <2>15. CASE Mosh!ForwardTakes
    BY <2>15 DEF ClientInv, SizeNow, Mosh!ForwardTakes
  <2>16. CASE Mosh!ForwardSends
    BY <2>16 DEF ClientInv, SizeNow, Mosh!ForwardSends
  <2>17. CASE Mosh!PtyStep
    BY <2>17 DEF ClientInv, SizeNow, Mosh!PtyStep
  <2>18. CASE Mosh!PtyCloses
    BY <2>18 DEF ClientInv, SizeNow, Mosh!PtyCloses
  <2>19. CASE UNCHANGED Mosh!moshVars
    BY <2>19 DEF ClientInv, SizeNow, Mosh!moshVars
  <2> QED
    BY <2>1, <2>2, <2>3, <2>4, <2>5, <2>6, <2>7, <2>8, <2>9, <2>10, <2>11, <2>12,
       <2>13, <2>14, <2>15, <2>16, <2>17, <2>18, <2>19 DEF Mosh!ONext
<1>3. ClientInv => Mosh!ClientSize
  BY DEF ClientInv, SizeNow, SizeComing, NoResize, Mosh!ClientSize
<1> QED
  BY <1>1, <1>2, <1>3, PTL DEF Mosh!OSpec

-----------------------------------------------------------------------------
(***************************************************************************)
(* The view.  Frames: unless every row is asked for, the item's picture is *)
(* the one the Term's damage is relative to.                               *)
(***************************************************************************)
FrameInv ==
    /\ item.torn = FALSE
    /\ snap \in {"skipCheck", "skip"} => item.needsFull
    /\ snap \in {"drawCheck", "draw"} => ~item.needsFull
    /\ ~item.needsFull /\ snap # "drawFull" => item.drawn = damageBase

\* The sizes, on the way from the item through the commands to the Term and the
\* program; SizeComing is said of what the engine has not handled yet.
GridSizes == Sizes \cup {FirstSize}
ViewCommands ==
    [k : {"redraw", "cancel", "shutdown"}] \cup [k : {"resize"}, size : GridSizes]
        \cup [k : {"focus"}, f : BOOLEAN] \cup [k : {"paced"}, n : 1..2]
TermSizes ==
    /\ commands \in Seq(ViewCommands)
    /\ item.grid \in GridSizes
    /\ termSize = size
    /\ backend = "running" => program = size
    /\ SizeComing(commands, IF resize # Unset THEN resize ELSE size, item.grid)

\* The end is the last event, and known only once everything before it has left
\* the channel; it is told once nothing is unparsed and no title is held back.
Chunks == {"exit"} \cup UNION {s.kinds : s \in Scenes}
EndInv ==
    /\ events \in Seq(Chunks) /\ pending \in Seq(Chunks)
    /\ \A i \in 1..Len(events) :
         events[i] = "exit" => i = Len(events) /\ backend # "running"
    /\ exit => events = <<>> /\ backend # "running"
    /\ reported => exit /\ pending = <<>> /\ title.pending = Unset

\* The notices of one batch: the end comes after the title, and nothing but a
\* redraw after the end.
EndComing == notified # <<>> /\ notified[Len(notified)].k = "exited"
NoticeInv ==
    /\ notified # <<>> =>
         \/ notified = <<[k |-> "dirty"]>>
         \/ notified = <<[k |-> "exited"]>>
         \/ notified = <<[k |-> "title", v |-> notified[1].v]>>
         \/ notified = <<[k |-> "title", v |-> notified[1].v], [k |-> "exited"]>>
    /\ EndComing \/ info.exited => reported
    /\ info.exited => notified \in {<<>>, <<[k |-> "dirty"]>>}

\* The last title: on its way through the channel, the parser, the throttle and
\* the notices to the entry.
NoTitle(s) == \A i \in 1..Len(s) : s[i] \notin Titles
TitleComing(s, now, last) ==
    \/ NoTitle(s) /\ now = last
    \/ \E i \in 1..Len(s) :
         s[i] \in Titles /\ s[i] = last /\ \A j \in (i + 1)..Len(s) : s[j] \notin Titles
Held == IF title.pending # Unset THEN title.pending ELSE title.last
Told == IF notified # <<>> /\ notified[1].k = "title" THEN notified[1].v ELSE info.title
TitleInv ==
    /\ TitleComing(pending \o Output(events), Held, lastTitle)
    /\ ~closed \/ EndComing \/ info.exited => Told = title.last

IsItem(r) ==
    r = [token |-> r.token, visible |-> r.visible, update |-> r.update,
         needsFull |-> r.needsFull, drawn |-> r.drawn, torn |-> r.torn,
         quiet |-> r.quiet, focusSent |-> r.focusSent, focusRedraw |-> r.focusRedraw,
         running |-> r.running, title |-> r.title, grid |-> r.grid]
ViewTypes ==
    /\ IsItem(item)
    /\ title = [pending |-> title.pending, last |-> title.last, recent |-> title.recent]
    /\ info = [title |-> info.title, exited |-> info.exited]
    /\ scene \in Scenes

ViewInv == ViewTypes /\ FrameInv /\ TermSizes /\ EndInv /\ NoticeInv /\ TitleInv

-----------------------------------------------------------------------------
\* The actions of VNext that leave a variable alone.
LEMMA ItemSteps ==
    ASSUME [VNext]_terminalVars
    PROVE  \/ \E f \in BOOLEAN : Attach(f) \/ FocusChange(f)
           \/ \E s \in Sizes : SetGrid(s)
           \/ Detach \/ SetVisible \/ Drain \/ SnapshotCheck \/ SnapshotFill \/ QuietPasses
           \/ \E lost \in BOOLEAN : Render(lost)
           \/ UNCHANGED <<item, snap, damageBase>>
<1> USE DEF viewVars, termVars, entryVars, NoEngine, User
<1>1. CASE \E text \in scene.kinds : Prints(text)
  BY <1>1 DEF Prints, Outputs
<1>2. CASE (scene.ends /\ Ends /\ UNCHANGED viewVars) \/ (TimePasses /\ UNCHANGED viewVars)
  BY <1>2 DEF Ends, TimePasses
<1>3. CASE Command /\ UNCHANGED viewVars
  BY <1>3 DEF Command, Paced, CancelPaste, Resize, Focus, Redraw, Shutdown
<1>4. CASE (ApplyResize /\ UNCHANGED viewVars) \/ (Turn /\ UNCHANGED viewVars)
  BY <1>4 DEF ApplyResize, Turn
<1>5. CASE (Publish /\ UNCHANGED viewVars) \/ (Mark /\ UNCHANGED viewVars)
           \/ (SyncTimeout /\ UNCHANGED viewVars) \/ (TimeoutMark /\ UNCHANGED viewVars)
           \/ (Timers /\ UNCHANGED viewVars)
  BY <1>5 DEF Publish, Mark, SyncTimeout, TimeoutMark, Timers
<1>6. CASE Record \/ Change \/ StopPaste \/ Close \/ \E n \in 1..2 : PasteLines(n)
  BY <1>6 DEF Record, Change, StopPaste, Close, PasteLines
<1>7. CASE UNCHANGED terminalVars
  BY <1>7 DEF terminalVars, sessionVars
<1> QED
  BY <1>1, <1>2, <1>3, <1>4, <1>5, <1>6, <1>7 DEF VNext

\* The records keep their fields.
LEMMA TypesStep ==
    ASSUME ViewTypes, NoticeInv, [VNext]_terminalVars
    PROVE  ViewTypes'
<1> USE DEF viewVars, termVars, entryVars, NoEngine, User
<1>1. IsItem(item)'
  <2> USE DEF ViewTypes, IsItem
  <2>1. CASE \E f \in BOOLEAN : Attach(f) \/ FocusChange(f)
    BY <2>1 DEF Attach, FocusChange
  <2>2. CASE (\E s \in Sizes : SetGrid(s)) \/ SetVisible \/ QuietPasses \/ SnapshotCheck
    BY <2>2 DEF SetGrid, SetVisible, QuietPasses, SnapshotCheck
  <2>3. CASE Detach
    BY <2>3 DEF Detach, NoItem
  <2>4. CASE Drain
    BY <2>4 DEF Drain, Taken1, SkipFrame
  <2>5. CASE SnapshotFill \/ \E lost \in BOOLEAN : Render(lost)
    BY <2>5 DEF SnapshotFill, Render
  <2> QED
    BY <2>1, <2>2, <2>3, <2>4, <2>5, ItemSteps
<1>2. UNCHANGED scene
  <2>1. CASE (\E text \in scene.kinds : Prints(text)) \/ Record
    BY <2>1 DEF Prints, Record
  <2>2. CASE \/ \E f \in BOOLEAN : Attach(f) \/ FocusChange(f)
             \/ \E s \in Sizes : SetGrid(s)
             \/ \E n \in 1..2 : PasteLines(n)
             \/ Detach \/ Change \/ SetVisible \/ StopPaste \/ Close
             \/ Drain \/ SnapshotCheck \/ SnapshotFill \/ QuietPasses
             \/ \E lost \in BOOLEAN : Render(lost)
    BY <2>2 DEF Attach, FocusChange, SetGrid, PasteLines, Detach, Change, SetVisible,
                StopPaste, Close, Drain, SnapshotCheck, SnapshotFill, QuietPasses, Render
  <2> QED
    BY <2>1, <2>2 DEF VNext, terminalVars
<1>3. info' = info \/ Record
  <2>1. CASE (\E text \in scene.kinds : Prints(text))
    BY <2>1 DEF Prints
  <2>2. CASE \/ \E f \in BOOLEAN : Attach(f) \/ FocusChange(f)
             \/ \E s \in Sizes : SetGrid(s)
             \/ \E n \in 1..2 : PasteLines(n)
             \/ Detach \/ Change \/ SetVisible \/ StopPaste \/ Close
             \/ Drain \/ SnapshotCheck \/ SnapshotFill \/ QuietPasses
             \/ \E lost \in BOOLEAN : Render(lost)
    BY <2>2 DEF Attach, FocusChange, SetGrid, PasteLines, Detach, Change, SetVisible,
                StopPaste, Close, Drain, SnapshotCheck, SnapshotFill, QuietPasses, Render
  <2> QED
    BY <2>1, <2>2 DEF VNext, terminalVars
<1>4. (info = [title |-> info.title, exited |-> info.exited])'
  <2>1. CASE Record
    <3>1. Head(notified).k \in {"dirty", "title", "exited"}
      BY <2>1 DEF NoticeInv, Record
    <3> QED
      BY <2>1, <3>1 DEF ViewTypes, Record
  <2> QED
    BY <1>3, <2>1 DEF ViewTypes
<1>5. (title = [pending |-> title.pending, last |-> title.last, recent |-> title.recent])'
  <2> USE DEF ViewTypes
  <2>1. CASE Turn
    BY <2>1 DEF Turn
  <2>2. CASE Timers
    BY <2>2 DEF Timers, AfterTake
  <2>3. CASE TimePasses
    BY <2>3 DEF TimePasses, HoldPasses, IntervalPasses, DelayPasses
  <2>4. CASE (\E text \in scene.kinds : Prints(text)) \/ Ends \/ Command \/ ApplyResize
             \/ Publish \/ Mark \/ SyncTimeout \/ TimeoutMark \/ Record
    BY <2>4 DEF Prints, Outputs, Ends, Command, ApplyResize, Publish, Mark, SyncTimeout,
                TimeoutMark, Record
  <2>5. CASE \/ \E f \in BOOLEAN : Attach(f) \/ FocusChange(f)
             \/ \E s \in Sizes : SetGrid(s)
             \/ \E n \in 1..2 : PasteLines(n)
             \/ Detach \/ Change \/ SetVisible \/ StopPaste \/ Close
             \/ Drain \/ SnapshotCheck \/ SnapshotFill \/ QuietPasses
             \/ \E lost \in BOOLEAN : Render(lost)
    BY <2>5 DEF Attach, FocusChange, SetGrid, PasteLines, Detach, Change, SetVisible,
                StopPaste, Close, Drain, SnapshotCheck, SnapshotFill, QuietPasses, Render
  <2> QED
    BY <2>1, <2>2, <2>3, <2>4, <2>5 DEF VNext, terminalVars, sessionVars
<1> QED
  BY <1>1, <1>2, <1>4, <1>5 DEF ViewTypes

LEMMA FrameStep ==
    ASSUME ViewTypes, FrameInv, [VNext]_terminalVars
    PROVE  FrameInv'
<1> USE DEF ViewTypes, IsItem, FrameInv, NoEngine, User, GuiFree
<1>1. CASE \E f \in BOOLEAN : Attach(f) \/ FocusChange(f)
  BY <1>1 DEF Attach, FocusChange
<1>2. CASE (\E s \in Sizes : SetGrid(s)) \/ SetVisible \/ QuietPasses
  BY <1>2 DEF SetGrid, SetVisible, QuietPasses
<1>3. CASE SnapshotCheck
  BY <1>3 DEF SnapshotCheck
<1>4. CASE Detach
  BY <1>4 DEF Detach, NoItem
<1>5. CASE Drain
  BY <1>5 DEF Drain, Taken1, SkipFrame
<1>6. CASE SnapshotFill
  BY <1>6 DEF SnapshotFill
<1>7. CASE \E lost \in BOOLEAN : Render(lost)
  BY <1>7 DEF Render
<1>8. CASE UNCHANGED <<item, snap, damageBase>>
  BY <1>8
<1> QED
  BY <1>1, <1>2, <1>3, <1>4, <1>5, <1>6, <1>7, <1>8, ItemSteps

-----------------------------------------------------------------------------
(***************************************************************************)
(* Sizes.                                                                  *)
(***************************************************************************)
SizesNow == <<commands, item.grid, termSize, size, backend, program, resize>>
Coming == IF resize # Unset THEN resize ELSE size

\* A command of the handle other than a size.
LEMMA OtherSent ==
    ASSUME TermSizes, NEW c \in ViewCommands, c.k # "resize",
           commands' = commands \o <<c>>,
           UNCHANGED <<item.grid, termSize, size, backend, program, resize>>
    PROVE  TermSizes'
<1>1. commands' = Append(commands, c) /\ commands' \in Seq(ViewCommands)
  BY DEF TermSizes
<1>2. SizeComing(Append(commands, c), Coming, item.grid)
  BY SizeSent, Zenon DEF TermSizes, Coming
<1> QED
  BY <1>1, <1>2 DEF TermSizes, Coming

\* The item's size is sent.
LEMMA GridSent ==
    ASSUME TermSizes, NEW s \in GridSizes,
           commands' = commands \o <<[k |-> "resize", size |-> s]>>, item'.grid = s,
           UNCHANGED <<termSize, size, backend, program, resize>>
    PROVE  TermSizes'
<1> DEFINE c == [k |-> "resize", size |-> s]
<1>1. /\ c \in ViewCommands /\ c.k = "resize" /\ c.size = s
      /\ commands' = Append(commands, c) /\ commands' \in Seq(ViewCommands)
  BY DEF TermSizes, ViewCommands
<1> HIDE DEF c
<1>2. SizeComing(Append(commands, c), Coming, s)
  BY <1>1, SizeSent, Zenon DEF TermSizes, Coming
<1> QED
  BY <1>1, <1>2 DEF TermSizes, Coming

\* An item attaches: a redraw, its size and its focus.
LEMMA AttachSent ==
    ASSUME TermSizes, NEW f \in BOOLEAN,
           commands' = commands \o <<[k |-> "redraw"],
                                     [k |-> "resize", size |-> item.grid],
                                     [k |-> "focus", f |-> f]>>,
           UNCHANGED <<item.grid, termSize, size, backend, program, resize>>
    PROVE  TermSizes'
<1> DEFINE c1 == [k |-> "redraw"]
           c2 == [k |-> "resize", size |-> item.grid]
           c3 == [k |-> "focus", f |-> f]
<1>1. /\ c1 \in ViewCommands /\ c1.k # "resize"
      /\ c2 \in ViewCommands /\ c2.k = "resize" /\ c2.size = item.grid
      /\ c3 \in ViewCommands /\ c3.k # "resize"
  BY DEF TermSizes, ViewCommands
<1>2. commands' = Append(Append(Append(commands, c1), c2), c3)
  BY DEF TermSizes
<1> HIDE DEF c1, c2, c3
<1> DEFINE s1 == Append(commands, c1)
           s2 == Append(s1, c2)
<1>3. SizeComing(s1, Coming, item.grid)
  BY <1>1, SizeSent, Zenon DEF TermSizes, Coming
<1>4. s1 \in Seq(ViewCommands)
  BY <1>1 DEF TermSizes
<1> HIDE DEF s1
<1>5. SizeComing(s2, Coming, item.grid)
  BY <1>1, <1>3, <1>4, SizeSent, Zenon
<1>6. s2 \in Seq(ViewCommands)
  BY <1>1, <1>4
<1> HIDE DEF s2
<1>7. SizeComing(Append(s2, c3), Coming, item.grid)
  BY <1>1, <1>5, <1>6, SizeSent, Zenon
<1>8. Append(s2, c3) \in Seq(ViewCommands)
  BY <1>1, <1>6
<1>9. commands' = Append(s2, c3)
  BY <1>2 DEF s1, s2
<1> QED
  BY <1>7, <1>8, <1>9 DEF TermSizes, Coming

\* A command is handled.
LEMMA CommandSizes ==
    ASSUME TermSizes, Command, UNCHANGED item
    PROVE  TermSizes'
<1> DEFINE c == Head(commands)
<1>1. commands \in Seq(ViewCommands) /\ commands # <<>>
  BY DEF TermSizes, Command
<1>2. c \in ViewCommands /\ Tail(commands) \in Seq(ViewCommands)
  BY <1>1
<1>3. commands' = Tail(commands) /\ UNCHANGED <<size, backend, program>>
  BY DEF Command
<1>4. UNCHANGED termSize
  BY DEF Command, Paced, CancelPaste, Resize, Focus, Redraw, Shutdown, termVars
<1>5. SizeComing(Tail(commands), IF c.k = "resize" THEN c.size ELSE Coming, item.grid)
  BY <1>1, SizeTaken, Zenon DEF TermSizes, Coming
<1>6. Coming' = IF c.k = "resize" THEN c.size ELSE Coming
  <2>1. CASE c.k = "resize"
    <3>1. resize' = c.size
      BY <2>1 DEF Command, Resize
    <3>2. c.size \in GridSizes
      BY <1>2, <2>1 DEF ViewCommands
    <3> QED
      BY <2>1, <3>1, <3>2, ViewAssumption DEF Coming, GridSizes
  <2>2. CASE c.k # "resize"
    BY <1>3, <2>2 DEF Command, Paced, CancelPaste, Focus, Redraw, Shutdown, Coming
  <2> QED
    BY <2>1, <2>2
<1> QED
  BY <1>2, <1>3, <1>4, <1>5, <1>6 DEF TermSizes, Coming

LEMMA SizesStep ==
    ASSUME ViewTypes, TermSizes, [VNext]_terminalVars
    PROVE  TermSizes'
<1> USE DEF viewVars, termVars, flags, entryVars, NoEngine, User, Asks
<1>1. CASE UNCHANGED SizesNow
  BY <1>1 DEF TermSizes, SizesNow
<1>2. ASSUME NEW f \in BOOLEAN, Attach(f) PROVE TermSizes'
  <2>1. UNCHANGED item.grid
    BY <1>2 DEF Attach, ViewTypes, IsItem
  <2>2. commands' = commands \o <<[k |-> "redraw"], [k |-> "resize", size |-> item.grid],
                                  [k |-> "focus", f |-> f]>>
        /\ UNCHANGED <<termSize, size, backend, program, resize>>
    BY <1>2 DEF Attach, Shows
  <2> QED
    BY <2>1, <2>2, AttachSent
<1>3. ASSUME NEW f \in BOOLEAN, FocusChange(f) PROVE TermSizes'
  <2>1. UNCHANGED <<item.grid, termSize, size, backend, program, resize>>
    BY <1>3 DEF FocusChange, ViewTypes, IsItem
  <2>2. commands' = commands \o <<[k |-> "focus", f |-> f]>>
        /\ [k |-> "focus", f |-> f] \in ViewCommands
    BY <1>3 DEF FocusChange, ViewCommands
  <2> QED
    BY <2>1, <2>2, OtherSent
<1>4. ASSUME NEW s \in Sizes, SetGrid(s) PROVE TermSizes'
  <2>1. item'.grid = s /\ UNCHANGED <<termSize, size, backend, program, resize>>
    BY <1>4 DEF SetGrid, ViewTypes, IsItem
  <2>2. commands' = commands \o <<[k |-> "resize", size |-> s]>> /\ s \in GridSizes
    BY <1>4 DEF SetGrid, GridSizes
  <2> QED
    BY <2>1, <2>2, GridSent
<1>5. ASSUME NEW n \in 1..2, PasteLines(n) PROVE TermSizes'
  <2>1. UNCHANGED <<item.grid, termSize, size, backend, program, resize>>
    BY <1>5 DEF PasteLines
  <2>2. commands' = commands \o <<[k |-> "paced", n |-> n]>>
        /\ [k |-> "paced", n |-> n] \in ViewCommands
    BY <1>5 DEF PasteLines, ViewCommands
  <2> QED
    BY <2>1, <2>2, OtherSent
<1>6. CASE Change
  <2>1. UNCHANGED <<item.grid, termSize, size, backend, program, resize>>
    BY <1>6 DEF Change, Shows
  <2>2. commands' = commands \o <<[k |-> "redraw"]>> /\ [k |-> "redraw"] \in ViewCommands
    BY <1>6 DEF Change, ViewCommands
  <2> QED
    BY <2>1, <2>2, OtherSent
<1>7. CASE StopPaste
  <2>1. UNCHANGED <<item.grid, termSize, size, backend, program, resize>>
    BY <1>7 DEF StopPaste
  <2>2. commands' = commands \o <<[k |-> "cancel"]>> /\ [k |-> "cancel"] \in ViewCommands
    BY <1>7 DEF StopPaste, ViewCommands
  <2> QED
    BY <2>1, <2>2, OtherSent
<1>8. CASE Close
  <2>1. UNCHANGED <<item.grid, termSize, size, backend, program, resize>>
    BY <1>8 DEF Close
  <2>2. commands' = commands \o <<[k |-> "shutdown"]>>
        /\ [k |-> "shutdown"] \in ViewCommands
    BY <1>8 DEF Close, ViewCommands
  <2> QED
    BY <2>1, <2>2, OtherSent
<1>9. CASE Command /\ UNCHANGED viewVars
  BY <1>9, CommandSizes
<1>10. CASE ApplyResize /\ UNCHANGED viewVars
  <2>1. /\ commands' = commands /\ resize' = Unset /\ item' = item /\ backend' = backend
        /\ resize # Unset
    BY <1>10 DEF ApplyResize
  <2>2. size' = resize /\ termSize' = resize /\ (backend = "running" => program' = resize)
    BY <1>10 DEF ApplyResize, TermSizes
  <2> QED
    BY <2>1, <2>2 DEF TermSizes
<1>11. CASE Ends /\ UNCHANGED viewVars
  <2>1. UNCHANGED <<item.grid, termSize, size, program, resize, commands>>
        /\ backend' \in {"exited", "gone"}
    BY <1>11 DEF Ends
  <2> QED
    BY <2>1 DEF TermSizes
<1>12. CASE \/ \E text \in scene.kinds : Prints(text)
            \/ (Turn \/ Publish \/ Mark \/ SyncTimeout \/ TimeoutMark \/ Timers
                  \/ TimePasses) /\ UNCHANGED viewVars
            \/ Record \/ SnapshotCheck
  <2>1. UNCHANGED SizesNow
    BY <1>12 DEF SizesNow, Prints, Outputs, Turn, Publish, Mark, SyncTimeout, TimeoutMark,
                 Timers, TimePasses, Record, SnapshotCheck
  <2> QED
    BY <2>1, <1>1
<1>13. CASE \/ Detach \/ SetVisible \/ Drain \/ SnapshotFill \/ QuietPasses
            \/ \E lost \in BOOLEAN : Render(lost)
  <2>1. UNCHANGED item.grid
    BY <1>13 DEF Detach, SetVisible, Drain, Taken1, SkipFrame, SnapshotFill, QuietPasses,
                 Render, ViewTypes, IsItem, NoItem
  <2>2. UNCHANGED <<commands, termSize, size, backend, program, resize>>
    BY <1>13 DEF Detach, SetVisible, Drain, SnapshotFill, QuietPasses, Render
  <2> QED
    BY <2>1, <2>2, <1>1 DEF SizesNow
<1>14. CASE UNCHANGED terminalVars
  BY <1>14, <1>1 DEF terminalVars, sessionVars, SizesNow
<1> QED
  BY <1>2, <1>3, <1>4, <1>5, <1>6, <1>7, <1>8, <1>9, <1>10, <1>11, <1>12, <1>13, <1>14
     DEF VNext

-----------------------------------------------------------------------------
(***************************************************************************)
(* The end.                                                                *)
(***************************************************************************)
\* What pull_output takes is the first part of the channel.
LEMMA PulledPart ==
    ASSUME EndInv
    PROVE  /\ Pulled \in Seq(Chunks) /\ Len(events) \in Nat /\ Len(Pulled) \in 0..Len(events)
           /\ \A i \in 1..Len(Pulled) : Pulled[i] = events[i]
           /\ Len(SubSeq(events, Len(Pulled) + 1, Len(events))) = Len(events) - Len(Pulled)
           /\ SubSeq(events, Len(Pulled) + 1, Len(events)) \in Seq(Chunks)
           /\ \A i \in 1..(Len(events) - Len(Pulled)) :
                SubSeq(events, Len(Pulled) + 1, Len(events))[i] = events[Len(Pulled) + i]
<1>1. Room \in Nat
  BY ViewAssumption DEF Room, EndInv
<1>2. events \in Seq(Chunks) /\ Len(events) \in Nat
  BY DEF EndInv
<1> DEFINE n == IF Len(events) < Room THEN Len(events) ELSE Room
<1>3. n \in 0..Len(events) /\ Pulled = SubSeq(events, 1, n)
  BY <1>1, <1>2 DEF Pulled
<1> HIDE DEF n
<1>4. Len(Pulled) = n /\ Pulled \in Seq(Chunks) /\ \A i \in 1..n : Pulled[i] = events[i]
  BY <1>2, <1>3
<1>5. /\ Len(SubSeq(events, n + 1, Len(events))) = Len(events) - n
      /\ SubSeq(events, n + 1, Len(events)) \in Seq(Chunks)
      /\ \A i \in 1..(Len(events) - n) :
           SubSeq(events, n + 1, Len(events))[i] = events[n + i]
  BY <1>2, <1>3
<1> QED
  BY <1>2, <1>3, <1>4, <1>5

\* Once the end is taken the channel is empty.
LEMMA EndPulled ==
    ASSUME EndInv, Exits
    PROVE  Len(Pulled) = Len(events) /\ backend # "running"
<1>1. CASE exit
  BY <1>1, PulledPart DEF EndInv
<1>2. CASE Ended(Pulled)
  <2>1. Pulled # <<>> /\ Pulled[Len(Pulled)] = "exit"
    BY <1>2 DEF Ended
  <2>2. Len(Pulled) \in 1..Len(events) /\ events[Len(Pulled)] = "exit"
    BY <2>1, PulledPart
  <2> QED
    BY <2>2 DEF EndInv
<1>3. CASE backend = "gone" /\ Len(events) = Len(Pulled)
  BY <1>3
<1> QED
  BY <1>1, <1>2, <1>3 DEF Exits

LEMMA TurnEnd ==
    ASSUME EndInv, ViewTypes, Turn
    PROVE  EndInv'
<1> DEFINE n == Len(Pulled)
           w == pending \o Output(Pulled)
<1>1. events' = SubSeq(events, n + 1, Len(events)) /\ exit' = Exits
      /\ UNCHANGED <<backend, reported>>
  BY DEF Turn
<1>2. Output(Pulled) \in Seq(Chunks)
  BY PulledPart DEF Output, Ended
<1>3. w \in Seq(Chunks)
  BY <1>2 DEF EndInv
<1>4. pending' \in Seq(Chunks)
  <2>1. CASE pending' = pending
    BY <2>1 DEF EndInv
  <2>2. CASE \E k \in 1..Len(w) : pending' = SubSeq(w, k + 1, Len(w))
    BY <2>2, <1>3
  <2> QED
    BY <2>1, <2>2 DEF Turn
<1>5. \A i \in 1..Len(events') :
        events'[i] = "exit" => i = Len(events') /\ backend # "running"
  <2> SUFFICES ASSUME NEW i \in 1..Len(events'), events'[i] = "exit"
               PROVE  i = Len(events') /\ backend # "running"
    OBVIOUS
  <2>1. n + i \in 1..Len(events) /\ events[n + i] = "exit" /\ Len(events') = Len(events) - n
    BY <1>1, PulledPart
  <2> QED
    BY <2>1, PulledPart DEF EndInv
<1>6. exit' => events' = <<>> /\ backend # "running"
  BY <1>1, EndPulled, PulledPart
<1>7. reported => exit' /\ pending' = <<>> /\ title'.pending = Unset
  <2> SUFFICES ASSUME reported PROVE exit' /\ pending' = <<>> /\ title'.pending = Unset
    OBVIOUS
  <2>1. exit /\ pending = <<>> /\ title.pending = Unset /\ events = <<>>
    BY DEF EndInv
  <2>2. Pulled = <<>> /\ Output(Pulled) = <<>>
    BY <2>1, PulledPart DEF Output, Ended
  <2>3. w = <<>> /\ Len(w) = 0
    BY <2>1, <2>2
  <2>4. UNCHANGED <<pending, title>>
    BY <2>3 DEF Turn
  <2> QED
    BY <1>1, <2>1, <2>4 DEF Exits
<1> QED
  BY <1>1, <1>4, <1>5, <1>6, <1>7, PulledPart DEF EndInv

LEMMA EndStep ==
    ASSUME EndInv, ViewTypes, [VNext]_terminalVars
    PROVE  EndInv'
<1> USE DEF viewVars, termVars, flags, entryVars, NoEngine, User
<1>1. ASSUME NEW text \in scene.kinds, Prints(text) PROVE EndInv'
  <2>1. /\ text \in Chunks /\ text # "exit" /\ events' = Append(events, text)
        /\ backend = "running"
        /\ UNCHANGED <<pending, backend, exit, reported, title>>
    BY <1>1, ViewAssumption DEF Prints, Outputs, Chunks, ViewTypes
  <2>2. /\ events' \in Seq(Chunks) /\ Len(events') = Len(events) + 1 /\ Len(events) \in Nat
        /\ events'[Len(events) + 1] = text
        /\ \A i \in 1..Len(events) : events'[i] = events[i]
    BY <2>1 DEF EndInv
  <2> QED
    BY <2>1, <2>2 DEF EndInv
<1>2. CASE Ends /\ UNCHANGED viewVars
  <2>1. UNCHANGED <<pending, exit, reported, title>> /\ backend' # "running"
    BY <1>2 DEF Ends
  <2>2. CASE UNCHANGED events
    BY <2>1, <2>2 DEF EndInv
  <2>3. CASE backend = "running" /\ events' = Append(events, "exit")
    <3>1. /\ events' \in Seq(Chunks) /\ Len(events') = Len(events) + 1
          /\ Len(events) \in Nat /\ events'[Len(events) + 1] = "exit"
          /\ \A i \in 1..Len(events) : events'[i] = events[i]
      BY <2>3 DEF EndInv, Chunks
    <3> QED
      BY <2>1, <2>3, <3>1 DEF EndInv
  <2> QED
    BY <1>2, <2>2, <2>3 DEF Ends
<1>3. CASE Turn /\ UNCHANGED viewVars
  BY <1>3, TurnEnd
<1>4. CASE Timers /\ UNCHANGED viewVars
  BY <1>4 DEF Timers, Ending, AfterTake, Taken, EndInv, ViewTypes
<1>5. CASE TimePasses /\ UNCHANGED viewVars
  <2>1. UNCHANGED <<events, pending, backend, exit, reported, title.pending>>
    BY <1>5 DEF TimePasses, HoldPasses, IntervalPasses, DelayPasses, ViewTypes
  <2> QED
    BY <2>1 DEF EndInv
<1>6. CASE \/ (Command \/ ApplyResize \/ Publish \/ Mark \/ SyncTimeout
                 \/ TimeoutMark) /\ UNCHANGED viewVars
           \/ Record
  BY <1>6 DEF EndInv, Command, ApplyResize, Publish, Mark, SyncTimeout, TimeoutMark, Record
<1>7. CASE \/ \E f \in BOOLEAN : Attach(f) \/ FocusChange(f)
           \/ \E s \in Sizes : SetGrid(s)
           \/ \E n \in 1..2 : PasteLines(n)
           \/ Detach \/ Change \/ SetVisible \/ StopPaste \/ Close
           \/ Drain \/ SnapshotCheck \/ SnapshotFill \/ QuietPasses
           \/ \E lost \in BOOLEAN : Render(lost)
  <2>1. UNCHANGED <<events, pending, backend, exit, reported, title>>
    BY <1>7 DEF Attach, FocusChange, SetGrid, PasteLines, Detach, Change, SetVisible,
                StopPaste, Close, Drain, SnapshotCheck, SnapshotFill, QuietPasses, Render
  <2> QED
    BY <2>1 DEF EndInv
<1>8. CASE UNCHANGED terminalVars
  BY <1>8 DEF terminalVars, sessionVars, EndInv
<1> QED
  BY <1>1, <1>2, <1>3, <1>4, <1>5, <1>6, <1>7, <1>8 DEF VNext

-----------------------------------------------------------------------------
(***************************************************************************)
(* The notices.                                                            *)
(***************************************************************************)
\* Sequences of one and of two notices.
LEMMA OneNotice ==
    ASSUME NEW a
    PROVE  <<>> \o <<a>> = <<a>> /\ <<a>> \o <<>> = <<a>> /\ Tail(<<a>>) = <<>>
<1>1. <<a>> \in Seq({a}) /\ <<>> \in Seq({a})
  OBVIOUS
<1>2. <<>> \o <<a>> = <<a>>
  BY <1>1
<1>3. <<a>> \o <<>> = <<a>>
  BY <1>1
<1>4. Tail(<<a>>) = <<>>
  BY <1>1
<1> QED
  BY <1>2, <1>3, <1>4

LEMMA TwoNotices ==
    ASSUME NEW a, NEW b
    PROVE  <<a>> \o <<b>> = <<a, b>> /\ Tail(<<a, b>>) = <<b>>
<1>1. <<a>> \in Seq({a, b}) /\ <<b>> \in Seq({a, b}) /\ <<a, b>> \in Seq({a, b})
  OBVIOUS
<1>2. <<a>> \o <<b>> = <<a, b>>
  <2>1. <<a>> \o <<b>> \in Seq({a, b}) /\ Len(<<a>> \o <<b>>) = 2
    BY <1>1
  <2>2. (<<a>> \o <<b>>)[1] = a
    BY <1>1, <2>1
  <2>3. (<<a>> \o <<b>>)[2] = b
    BY <1>1, <2>1
  <2>4. \A i \in 1..2 : (<<a>> \o <<b>>)[i] = <<a, b>>[i]
    BY <2>2, <2>3
  <2> QED
    BY <1>1, <2>1, <2>4, SeqEqual
<1>3. Tail(<<a, b>>) = <<b>>
  BY <1>1
<1> QED
  BY <1>2, <1>3

\* A redraw is told of, by the engine thread, when nothing else is.
Redrawn == notified' \in {<<>>, <<[k |-> "dirty"]>>}
LEMMA DirtyTold ==
    ASSUME notified = <<>>, MarkDirty PROVE Redrawn
BY DEF MarkDirty, Emitted, Redrawn

\* The steps that leave the notices and the end alone.
LEMMA QuietSteps ==
    ASSUME [VNext]_terminalVars, ViewTypes
    PROVE  \/ Record \/ (Timers /\ UNCHANGED viewVars)
           \/ notified = <<>> /\ Redrawn
                /\ UNCHANGED <<info, closed, title, reported, pending, events, lastTitle>>
           \/ Close \/ (Turn /\ UNCHANGED viewVars) \/ \E text \in scene.kinds : Prints(text)
           \/ Ends /\ UNCHANGED viewVars
           \/ UNCHANGED <<notified, info, closed, reported, pending, events, lastTitle,
                          title.pending, title.last>>
<1> USE DEF viewVars, termVars, flags, entryVars, NoEngine, User
<1>1. CASE Command /\ UNCHANGED viewVars
  <2>1. /\ notified = <<>>
        /\ UNCHANGED <<info, closed, title, reported, pending, events, lastTitle>>
    BY <1>1 DEF Command, Engine, Paced, CancelPaste, Resize, Focus, Redraw, Shutdown
  <2>2. notified' = notified \/ MarkDirty
    BY <1>1 DEF Command, Paced, CancelPaste, Resize, Focus, Redraw, Shutdown
  <2> QED
    BY <2>1, <2>2, DirtyTold DEF Redrawn
<1>2. CASE (ApplyResize \/ Mark \/ TimeoutMark) /\ UNCHANGED viewVars
  <2>1. /\ notified = <<>>
        /\ UNCHANGED <<info, closed, title, reported, pending, events, lastTitle>>
    BY <1>2 DEF ApplyResize, Mark, TimeoutMark, Engine
  <2>2. notified' = notified \/ MarkDirty
    BY <1>2 DEF ApplyResize, Mark, TimeoutMark
  <2> QED
    BY <2>1, <2>2, DirtyTold DEF Redrawn
<1>3. CASE (Publish \/ SyncTimeout) /\ UNCHANGED viewVars
  BY <1>3 DEF Publish, SyncTimeout
<1>4. CASE TimePasses /\ UNCHANGED viewVars
  BY <1>4 DEF TimePasses, HoldPasses, IntervalPasses, DelayPasses, ViewTypes
<1>5. CASE \/ \E f \in BOOLEAN : Attach(f) \/ FocusChange(f)
           \/ \E s \in Sizes : SetGrid(s)
           \/ \E n \in 1..2 : PasteLines(n)
           \/ Detach \/ Change \/ SetVisible \/ StopPaste
           \/ Drain \/ SnapshotCheck \/ SnapshotFill \/ QuietPasses
           \/ \E lost \in BOOLEAN : Render(lost)
  BY <1>5 DEF Attach, FocusChange, SetGrid, PasteLines, Detach, Change, SetVisible,
              StopPaste, Drain, SnapshotCheck, SnapshotFill, QuietPasses, Render
<1>6. CASE UNCHANGED terminalVars
  BY <1>6 DEF terminalVars, sessionVars
<1> QED
  BY <1>1, <1>2, <1>3, <1>4, <1>5, <1>6 DEF VNext

\* What the timers tell: a title that is due, then the end.
Due == TakenValue(Ending)
LEMMA TimersTell ==
    ASSUME Timers
    PROVE  /\ notified = <<>> /\ UNCHANGED closed
           /\ reported' = (reported \/ Ending)
           /\ closed => notified' = <<>>
           /\ ~closed /\ Due = Unset /\ ~Ending => notified' = <<>>
           /\ ~closed /\ Due = Unset /\ Ending => notified' = <<[k |-> "exited"]>>
           /\ ~closed /\ Due # Unset /\ ~Ending =>
                notified' = <<[k |-> "title", v |-> Due]>>
           /\ ~closed /\ Due # Unset /\ Ending =>
                notified' = <<[k |-> "title", v |-> Due], [k |-> "exited"]>>
<1>1. /\ <<>> \o <<>> = <<>>
      /\ \A a : <<>> \o <<a>> = <<a>> /\ <<a>> \o <<>> = <<a>>
      /\ \A a, b : <<a>> \o <<b>> = <<a, b>>
  BY OneNotice, TwoNotices
<1>2. notified = <<>> /\ UNCHANGED closed /\ reported' = (reported \/ Ending)
  BY DEF Timers, InTimers, flags
<1>3. CASE closed
  BY <1>2, <1>3 DEF Timers
<1>4. CASE ~closed
  <2> DEFINE a == [k |-> "title", v |-> Due]
             b == [k |-> "exited"]
  <2>1. notified' = (IF Due = Unset THEN <<>> ELSE <<a>>) \o (IF Ending THEN <<b>> ELSE <<>>)
    BY <1>4 DEF Timers, Due
  <2> HIDE DEF a, b
  <2>2. /\ Due = Unset /\ ~Ending => notified' = <<>>
        /\ Due = Unset /\ Ending => notified' = <<b>>
        /\ Due # Unset /\ ~Ending => notified' = <<a>>
        /\ Due # Unset /\ Ending => notified' = <<a, b>>
    BY <1>1, <2>1
  <2> QED
    BY <1>2, <1>4, <2>2 DEF a, b
<1> QED
  BY <1>3, <1>4

LEMMA NoticeStep ==
    ASSUME NoticeInv, EndInv, ViewTypes, [VNext]_terminalVars
    PROVE  NoticeInv'
<1> USE DEF viewVars, entryVars, flags, termVars
<1>1. CASE Record
  <2>1. /\ notified # <<>> /\ notified' = Tail(notified) /\ UNCHANGED reported
    BY <1>1 DEF Record
  <2>2. CASE notified = <<[k |-> "dirty"]>>
    <3>1. notified' = <<>> /\ info' = info
      BY <1>1, <2>2 DEF Record
    <3> QED
      BY <2>1, <3>1 DEF NoticeInv, EndComing
  <2>3. CASE notified = <<[k |-> "exited"]>>
    <3>1. notified' = <<>> /\ reported
      BY <2>1, <2>3 DEF NoticeInv, EndComing
    <3> QED
      BY <2>1, <3>1 DEF NoticeInv, EndComing
  <2>4. CASE notified = <<[k |-> "title", v |-> notified[1].v]>>
    <3> DEFINE a == [k |-> "title", v |-> notified[1].v]
    <3>1. notified = <<a>> /\ a.k = "title"
      BY <2>4
    <3> HIDE DEF a
    <3>2. <<a>> # <<[k |-> "dirty"]>> /\ <<a>> # <<>>
      BY <3>1
    <3>3. notified' = <<>> /\ Head(notified) = a
      BY <2>1, <3>1, OneNotice
    <3>4. info'.exited = info.exited
      BY <1>1, <3>1, <3>3 DEF Record, ViewTypes
    <3> QED
      BY <2>1, <3>1, <3>2, <3>3, <3>4 DEF NoticeInv, EndComing
  <2>5. CASE notified = <<[k |-> "title", v |-> notified[1].v], [k |-> "exited"]>>
    <3> DEFINE a == [k |-> "title", v |-> notified[1].v]
               b == [k |-> "exited"]
    <3>1. notified = <<a, b>> /\ a.k = "title" /\ b.k = "exited"
      BY <2>5
    <3>2. EndComing /\ ~info.exited
      BY <3>1 DEF EndComing, NoticeInv
    <3> HIDE DEF a, b
    <3>3. notified' = <<b>> /\ Head(notified) = a
      BY <2>1, <3>1, TwoNotices
    <3>4. info'.exited = info.exited
      BY <1>1, <3>1, <3>3 DEF Record, ViewTypes
    <3> QED
      BY <2>1, <3>2, <3>3, <3>4 DEF NoticeInv, EndComing, b
  <2> QED
    BY <2>1, <2>2, <2>3, <2>4, <2>5 DEF NoticeInv
<1>2. CASE Timers /\ UNCHANGED viewVars
  <2>1. UNCHANGED info
    BY <1>2
  <2>2. info.exited => notified' = <<>> /\ reported
    <3> SUFFICES ASSUME info.exited PROVE notified' = <<>> /\ reported
      OBVIOUS
    <3>1. reported /\ title.pending = Unset
      BY DEF NoticeInv, EndInv
    <3>2. ~Ending /\ Due = Unset
      BY <3>1 DEF Ending, Due, TakenValue, Taken
    <3> QED
      BY <1>2, <3>1, <3>2, TimersTell
  <2>3. CASE closed \/ (Due = Unset /\ ~Ending)
    <3>1. notified' = <<>>
      BY <1>2, <2>3, TimersTell
    <3> QED
      BY <1>2, <2>1, <2>2, <3>1, TimersTell DEF NoticeInv, EndComing
  <2>4. CASE ~closed /\ Due = Unset /\ Ending
    <3>1. notified' = <<[k |-> "exited"]>> /\ reported' = TRUE
      BY <1>2, <2>4, TimersTell DEF Ending
    <3> QED
      BY <2>1, <2>2, <3>1 DEF NoticeInv, EndComing
  <2>5. CASE ~closed /\ Due # Unset /\ ~Ending
    <3>1. notified' = <<[k |-> "title", v |-> Due]>>
      BY <1>2, <2>5, TimersTell
    <3>2. notified'[1].v = Due /\ ~EndComing'
      BY <3>1 DEF EndComing
    <3> QED
      BY <2>1, <2>2, <3>1, <3>2 DEF NoticeInv
  <2>6. CASE ~closed /\ Due # Unset /\ Ending
    <3>1. notified' = <<[k |-> "title", v |-> Due], [k |-> "exited"]>> /\ reported' = TRUE
      BY <1>2, <2>6, TimersTell DEF Ending
    <3>2. notified'[1].v = Due
      BY <3>1
    <3> QED
      BY <2>1, <2>2, <3>1, <3>2 DEF NoticeInv
  <2> QED
    BY <2>3, <2>4, <2>5, <2>6
<1>3. CASE notified = <<>> /\ Redrawn /\ UNCHANGED <<info, reported>>
  BY <1>3 DEF NoticeInv, EndComing, Redrawn
<1>4. CASE UNCHANGED <<notified, info, reported>>
  BY <1>4 DEF NoticeInv, EndComing
<1>5. CASE (Close \/ (Turn /\ UNCHANGED viewVars)
             \/ \E text \in scene.kinds : Prints(text)) \/ (Ends /\ UNCHANGED viewVars)
  BY <1>4, <1>5 DEF Close, Turn, Prints, Outputs, Ends
<1> QED
  BY <1>1, <1>2, <1>3, <1>4, <1>5, QuietSteps

-----------------------------------------------------------------------------
(***************************************************************************)
(* The titles.  Output is the sequence without the end.                    *)
(***************************************************************************)
LEMMA EndedLen ==
    ASSUME NEW s \in Seq(Chunks)
    PROVE  /\ Ended(s) => Len(s) > 0 /\ s[Len(s)] = "exit"
           /\ ~Ended(s) => ~(Len(s) > 0 /\ s[Len(s)] = "exit")
BY DEF Ended

LEMMA OutputPart ==
    ASSUME NEW s \in Seq(Chunks)
    PROVE  /\ Output(s) \in Seq(Chunks) /\ Len(s) \in Nat
           /\ Len(Output(s)) = IF Ended(s) THEN Len(s) - 1 ELSE Len(s)
           /\ \A i \in 1..Len(Output(s)) : Output(s)[i] = s[i]
<1>1. CASE Ended(s)
  <2>1. Len(s) \in Nat /\ Len(s) > 0 /\ Output(s) = SubSeq(s, 1, Len(s) - 1)
    BY <1>1, EndedLen DEF Output
  <2> DEFINE m == Len(s) - 1
  <2>2. m \in 0..Len(s) /\ Output(s) = SubSeq(s, 1, m)
    BY <2>1
  <2>3. m = Len(s) - 1
    OBVIOUS
  <2> HIDE DEF m
  <2>4. SubSeq(s, 1, m) \in Seq(Chunks) /\ Len(SubSeq(s, 1, m)) = m
        /\ \A i \in 1..m : SubSeq(s, 1, m)[i] = s[i]
    BY <2>1, <2>2
  <2> QED
    BY <1>1, <2>1, <2>2, <2>3, <2>4
<1>2. CASE ~Ended(s)
  BY <1>2 DEF Output
<1> QED
  BY <1>1, <1>2

\* What is printed comes last, and the end adds nothing.
LEMMA OutputSent ==
    ASSUME NEW s \in Seq(Chunks), ~Ended(s), NEW c \in Chunks
    PROVE  /\ Output(s) = s
           /\ c = "exit" => Output(Append(s, c)) = s
           /\ c # "exit" => Output(Append(s, c)) = Append(s, c)
<1> DEFINE new == Append(s, c)
<1>1. new \in Seq(Chunks) /\ Len(new) = Len(s) + 1 /\ Len(s) \in Nat /\ new[Len(s) + 1] = c
      /\ \A i \in 1..Len(s) : new[i] = s[i]
  OBVIOUS
<1> HIDE DEF new
<1>2. ASSUME c = "exit" PROVE Output(new) = s
  <2>1. Ended(new)
    BY <1>1, <1>2 DEF Ended
  <2>2. Output(new) \in Seq(Chunks) /\ Len(Output(new)) = Len(s)
        /\ \A i \in 1..Len(Output(new)) : Output(new)[i] = s[i]
    BY <1>1, <2>1, OutputPart
  <2> QED
    BY <2>2, SeqEqual
<1>3. ASSUME c # "exit" PROVE Output(new) = new
  BY <1>1, <1>3 DEF Output, Ended
<1> QED
  BY <1>2, <1>3 DEF Output, new


\* The output taken and the output left make up the output there was.
LEMMA OutputJoin ==
    ASSUME NEW e \in Seq(Chunks), NEW p \in Seq(Chunks), NEW r \in Seq(Chunks),
           NEW n \in Nat, NEW l \in Nat, n = Len(p), n <= l, l = Len(e), Len(r) = l - n,
           \A i \in 1..n : p[i] = e[i], \A i \in 1..(l - n) : r[i] = e[n + i],
           \A i \in 1..l : e[i] = "exit" => i = l
    PROVE  Output(e) = Output(p) \o Output(r)
<1>1. /\ Ended(p) => n > 0 /\ p[n] = "exit"
      /\ ~Ended(p) => ~(n > 0 /\ p[n] = "exit")
  BY EndedLen
<1>2. /\ Ended(e) => l > 0 /\ e[l] = "exit"
      /\ ~Ended(e) => ~(l > 0 /\ e[l] = "exit")
      /\ Ended(r) => l - n > 0 /\ r[l - n] = "exit"
      /\ ~Ended(r) => ~(l - n > 0 /\ r[l - n] = "exit")
  BY EndedLen
<1>3. Ended(p) => n = l /\ Ended(e) /\ l > 0
  <2> SUFFICES ASSUME Ended(p) PROVE n = l /\ Ended(e) /\ l > 0
    OBVIOUS
  <2>1. n \in 1..l /\ e[n] = "exit"
    BY <1>1
  <2> QED
    BY <1>2, <2>1
<1>4. n = l => (Ended(e) => Ended(p)) /\ (Ended(p) => Ended(e)) /\ ~Ended(r)
  BY <1>1, <1>2
<1>5. n < l => (Ended(e) => Ended(r)) /\ (Ended(r) => Ended(e)) /\ ~Ended(p)
  <2> SUFFICES ASSUME n < l PROVE (Ended(e) => Ended(r)) /\ (Ended(r) => Ended(e)) /\ ~Ended(p)
    OBVIOUS
  <2>1. l - n \in 1..(l - n) /\ n + (l - n) = l
    OBVIOUS
  <2>2. r[l - n] = e[l]
    BY <2>1
  <2> QED
    BY <1>2, <1>3, <2>1, <2>2
<1> DEFINE a == Output(p)
           b == Output(r)
           c == Output(e)
<1>6. /\ a \in Seq(Chunks) /\ b \in Seq(Chunks) /\ c \in Seq(Chunks)
      /\ Len(a) = (IF Ended(p) THEN n - 1 ELSE n)
      /\ Len(b) = (IF Ended(r) THEN l - n - 1 ELSE l - n)
      /\ Len(c) = (IF Ended(e) THEN l - 1 ELSE l)
      /\ \A i \in 1..Len(a) : a[i] = p[i]
      /\ \A i \in 1..Len(b) : b[i] = r[i]
      /\ \A i \in 1..Len(c) : c[i] = e[i]
  BY OutputPart
<1> HIDE DEF a, b, c
<1>7. Len(c) = Len(a) + Len(b) /\ (Len(b) > 0 => Len(a) = n)
      /\ Len(a) \in 0..n /\ Len(b) \in 0..(l - n) /\ Len(c) \in 0..l
  <2>1. CASE n = l /\ Ended(e)
    <3>1. Len(a) = n - 1 /\ Len(b) = 0 /\ Len(c) = l - 1 /\ n > 0
      BY <1>2, <1>4, <1>6, <2>1
    <3> QED
      BY <2>1, <3>1
  <2>2. CASE n = l /\ ~Ended(e)
    <3>1. Len(a) = n /\ Len(b) = 0 /\ Len(c) = l
      BY <1>4, <1>6, <2>2
    <3> QED
      BY <2>2, <3>1
  <2>3. CASE n < l /\ Ended(e)
    <3>1. Len(a) = n /\ Len(b) = l - n - 1 /\ Len(c) = l - 1
      BY <1>5, <1>6, <2>3
    <3> QED
      BY <2>3, <3>1
  <2>4. CASE n < l /\ ~Ended(e)
    <3>1. Len(a) = n /\ Len(b) = l - n /\ Len(c) = l
      BY <1>5, <1>6, <2>4
    <3> QED
      BY <2>4, <3>1
  <2> QED
    BY <2>1, <2>2, <2>3, <2>4
<1>8. (a \o b) \in Seq(Chunks) /\ Len(a \o b) = Len(a) + Len(b)
      /\ \A i \in 1..(Len(a) + Len(b)) :
           (a \o b)[i] = IF i <= Len(a) THEN a[i] ELSE b[i - Len(a)]
  <2>1. a \in Seq(Chunks) /\ b \in Seq(Chunks)
    BY <1>6
  <2> QED
    BY <2>1
<1>9. ASSUME NEW i \in 1..Len(c) PROVE c[i] = (a \o b)[i]
  <2>0. c[i] = e[i]
    BY <1>6
  <2>1. c[i] = e[i] /\ i \in 1..(Len(a) + Len(b)) /\ i \in 1..l
    BY <1>7, <2>0
  <2>2. CASE i <= Len(a)
    <3>1. i \in 1..Len(a) /\ i \in 1..n
      BY <1>7, <2>1, <2>2
    <3>2. a[i] = p[i] /\ p[i] = e[i]
      BY <1>6, <3>1
    <3>3. (a \o b)[i] = a[i]
      BY <1>8, <2>1, <2>2
    <3> QED
      BY <2>1, <3>2, <3>3
  <2>3. CASE ~(i <= Len(a))
    <3>1. Len(a) = n /\ i - n \in 1..Len(b) /\ i - n \in 1..(l - n)
      BY <1>7, <2>1, <2>3
    <3> DEFINE k == i - n
    <3>2. k \in 1..Len(b) /\ k \in 1..(l - n) /\ n + k = i
      BY <3>1, <2>1
    <3> HIDE DEF k
    <3>4. b[k] = r[k]
      BY <1>6, <3>2
    <3>5. r[k] = e[i]
      BY <3>2
    <3>3. (a \o b)[i] = b[k]
      BY <1>8, <2>1, <2>3, <3>1 DEF k
    <3> QED
      BY <2>1, <3>3, <3>4, <3>5
  <2> QED
    BY <2>2, <2>3
<1>10. c = a \o b
  <2>1. c \in Seq(Chunks) /\ (a \o b) \in Seq(Chunks)
    BY <1>6, <1>8
  <2>2. Len(c) = Len(a \o b)
    BY <1>7, <1>8
  <2> QED
    BY <1>9, <2>1, <2>2, SeqEqual
<1> QED
  BY <1>10 DEF a, b, c

LEMMA OutputSplit ==
    ASSUME EndInv, NEW rest, rest = SubSeq(events, Len(Pulled) + 1, Len(events))
    PROVE  /\ rest \in Seq(Chunks) /\ Output(Pulled) \in Seq(Chunks)
           /\ Output(rest) \in Seq(Chunks)
           /\ Output(events) = Output(Pulled) \o Output(rest)
<1>1. /\ events \in Seq(Chunks) /\ rest \in Seq(Chunks) /\ Pulled \in Seq(Chunks)
      /\ Len(events) \in Nat /\ Len(Pulled) \in 0..Len(events)
      /\ Len(rest) = Len(events) - Len(Pulled)
      /\ \A i \in 1..Len(Pulled) : Pulled[i] = events[i]
      /\ \A i \in 1..(Len(events) - Len(Pulled)) : rest[i] = events[Len(Pulled) + i]
      /\ \A i \in 1..Len(events) : events[i] = "exit" => i = Len(events)
  BY PulledPart DEF EndInv
<1>2. Len(Pulled) \in Nat /\ Len(Pulled) <= Len(events)
  BY <1>1
<1>3. Output(events) = Output(Pulled) \o Output(rest)
  BY <1>1, <1>2, OutputJoin
<1> QED
  BY <1>1, <1>3, OutputPart

-----------------------------------------------------------------------------
\* LastOf, when one place is known to hold the last one; and when there is none.
LEMMA LastKnown ==
    ASSUME NEW s, NEW set, NEW old, NEW m \in DOMAIN s, s[m] \in set,
           DOMAIN s \subseteq Nat, NEW n \in Nat, n = Len(s), \A i \in DOMAIN s : i <= n,
           \A j \in (m + 1)..n : s[j] \notin set
    PROVE  LastOf(s, set, old) = s[m]
<1> DEFINE Is(i) == i \in DOMAIN s /\ s[i] \in set /\ \A j \in i + 1..Len(s) : s[j] \notin set
<1>1. Is(m)
  OBVIOUS
<1>2. \A i \in DOMAIN s : Is(i) => i = m
  <2> SUFFICES ASSUME NEW i \in DOMAIN s, Is(i), i # m PROVE FALSE
    OBVIOUS
  <2>1. CASE i < m
    <3>1. m \in (i + 1)..Len(s)
      BY <2>1
    <3> QED
      BY <3>1
  <2>2. CASE m < i
    <3>1. i \in (m + 1)..n
      BY <2>2
    <3> QED
      BY <3>1
  <2> QED
    BY <2>1, <2>2
<1>3. (CHOOSE i \in DOMAIN s : s[i] \in set /\ \A j \in i + 1..Len(s) : s[j] \notin set) = m
  BY <1>1, <1>2
<1> QED
  BY <1>3 DEF LastOf

\* The beginning and the end of two sequences one after the other.
LEMMA SubSeqOfConcat ==
    ASSUME NEW a \in Seq(Chunks), NEW b \in Seq(Chunks), NEW n \in 1..Len(a)
    PROVE  SubSeq(a \o b, 1, n) = SubSeq(a, 1, n)
<1>1. a \o b \in Seq(Chunks) /\ Len(a \o b) = Len(a) + Len(b) /\ Len(a) \in Nat
      /\ Len(b) \in Nat /\ \A i \in 1..Len(a) : (a \o b)[i] = a[i]
  OBVIOUS
<1> DEFINE c == a \o b
<1> HIDE DEF c
<1>2. c \in Seq(Chunks) /\ Len(c) = Len(a) + Len(b) /\ \A i \in 1..Len(a) : c[i] = a[i]
  BY <1>1 DEF c
<1>3. SubSeq(c, 1, n) \in Seq(Chunks) /\ Len(SubSeq(c, 1, n)) = n
      /\ \A i \in 1..n : SubSeq(c, 1, n)[i] = c[i]
  BY <1>1, <1>2
<1>4. SubSeq(a, 1, n) \in Seq(Chunks) /\ Len(SubSeq(a, 1, n)) = n
      /\ \A i \in 1..n : SubSeq(a, 1, n)[i] = a[i]
  BY <1>1
<1>5. \A i \in 1..n : SubSeq(c, 1, n)[i] = SubSeq(a, 1, n)[i]
  BY <1>1, <1>2, <1>3, <1>4
<1> QED
  BY <1>3, <1>4, <1>5, SeqEqual DEF c

LEMMA SuffixOfConcat ==
    ASSUME NEW a \in Seq(Chunks), NEW b \in Seq(Chunks), NEW n \in 1..Len(a)
    PROVE  SubSeq(a \o b, n + 1, Len(a \o b)) = SubSeq(a, n + 1, Len(a)) \o b
<1> DEFINE c == a \o b
           l == Len(a)
           r == SubSeq(a, n + 1, l)
           d == SubSeq(c, n + 1, Len(c))
<1>1. /\ c \in Seq(Chunks) /\ Len(c) = l + Len(b) /\ l \in Nat /\ Len(b) \in Nat
      /\ \A i \in 1..(l + Len(b)) : c[i] = IF i <= l THEN a[i] ELSE b[i - l]
  OBVIOUS
<1>2. r \in Seq(Chunks) /\ Len(r) = l - n /\ \A i \in 1..(l - n) : r[i] = a[n + i]
  OBVIOUS
<1> HIDE DEF c, r
<1>3. d \in Seq(Chunks) /\ Len(d) = l + Len(b) - n
      /\ \A i \in 1..(l + Len(b) - n) : d[i] = c[n + i]
  <2> DEFINE m == Len(c)
  <2>1. m \in Nat /\ n \in 0..m /\ c \in Seq(Chunks) /\ m = Len(c) /\ m - n = l + Len(b) - n
        /\ d = SubSeq(c, n + 1, m)
    BY <1>1
  <2> HIDE DEF m, d
  <2>2. SubSeq(c, n + 1, m) \in Seq(Chunks) /\ Len(SubSeq(c, n + 1, m)) = m - n
        /\ \A i \in 1..(m - n) : SubSeq(c, n + 1, m)[i] = c[n + i]
    BY <2>1
  <2> QED
    BY <2>1, <2>2
<1>4. (r \o b) \in Seq(Chunks) /\ Len(r \o b) = Len(r) + Len(b)
      /\ \A i \in 1..(Len(r) + Len(b)) :
           (r \o b)[i] = IF i <= Len(r) THEN r[i] ELSE b[i - Len(r)]
  <2>1. r \in Seq(Chunks) /\ b \in Seq(Chunks)
    BY <1>2
  <2> QED
    BY <2>1
<1> HIDE DEF d
<1>5. ASSUME NEW i \in 1..Len(d) PROVE d[i] = (r \o b)[i]
  <2>1. d[i] = c[n + i] /\ n + i \in 1..(l + Len(b)) /\ i \in 1..(Len(r) + Len(b))
    BY <1>1, <1>2, <1>3
  <2>2. CASE i <= l - n
    <3>1. i \in 1..(l - n) /\ n + i <= l
      BY <1>1, <2>2
    <3> QED
      BY <1>1, <1>2, <1>4, <2>1, <2>2, <3>1
  <2>3. CASE ~(i <= l - n)
    <3>1. ~(n + i <= l) /\ (n + i) - l = i - (l - n)
      BY <1>1, <2>3
    <3> QED
      BY <1>1, <1>2, <1>4, <2>1, <2>3, <3>1
  <2> QED
    BY <2>2, <2>3
<1>6. Len(d) = Len(r \o b)
  BY <1>1, <1>2, <1>3, <1>4
<1>7. d = r \o b
  BY <1>3, <1>4, <1>5, <1>6, SeqEqual
<1> QED
  BY <1>7 DEF d, c, r

\* A chunk is parsed: the title that waits, if any, replaces the one held.
LEMMA TitleParsed ==
    ASSUME NEW u \in Seq(Chunks), NEW n \in Nat, n <= Len(u), NEW p, NEW x, NEW last,
           TitleComing(u, IF p # Unset THEN p ELSE x, last),
           NEW new, new = LastOf(SubSeq(u, 1, n), Titles, p), NEW v,
           v = SubSeq(u, n + 1, Len(u)), NEW held, held = IF new # Unset THEN new ELSE x
    PROVE  TitleComing(v, held, last)
<1> SUFFICES TitleComing(SubSeq(u, n + 1, Len(u)), IF new # Unset THEN new ELSE x, last)
  OBVIOUS
<1> DEFINE c == SubSeq(u, 1, n)
           r == SubSeq(u, n + 1, Len(u))
           l == Len(u)
<1>1. l \in Nat /\ Len(c) = n /\ DOMAIN c = 1..n /\ \A i \in 1..n : c[i] = u[i]
  OBVIOUS
<1>2. Len(r) = l - n /\ \A i \in 1..(l - n) : r[i] = u[n + i]
  OBVIOUS
<1>3. new = LastOf(c, Titles, p)
  OBVIOUS
<1> HIDE DEF c, r
<1>4. CASE NoTitle(u) /\ (IF p # Unset THEN p ELSE x) = last
  <2>1. \A i \in 1..n : c[i] \notin Titles
    BY <1>1, <1>4 DEF NoTitle
  <2>2. new = p
    BY <1>1, <1>3, <2>1 DEF LastOf
  <2>3. NoTitle(r)
    <3> SUFFICES ASSUME NEW i \in 1..(l - n) PROVE r[i] \notin Titles
      BY <1>2 DEF NoTitle
    <3>1. n + i \in 1..l
      BY <1>1
    <3> QED
      BY <1>2, <1>4, <3>1 DEF NoTitle
  <2> QED
    BY <1>4, <2>2, <2>3 DEF TitleComing, r
<1>5. ASSUME NEW m \in 1..l, u[m] \in Titles, u[m] = last,
             \A j \in (m + 1)..l : u[j] \notin Titles
      PROVE  TitleComing(r, IF new # Unset THEN new ELSE x, last)
  <2>1. CASE m <= n
    <3>1. m \in DOMAIN c /\ c[m] = u[m]
      BY <1>1, <2>1
    <3>2. \A j \in (m + 1)..n : c[j] \notin Titles
      <4> SUFFICES ASSUME NEW j \in (m + 1)..n PROVE c[j] \notin Titles
        OBVIOUS
      <4>1. j \in 1..n /\ j \in (m + 1)..l
        BY <1>1
      <4> QED
        BY <1>1, <1>5, <4>1
    <3>3. LastOf(c, Titles, p) = c[m]
      <4>1. DOMAIN c \subseteq Nat /\ n = Len(c) /\ \A i \in DOMAIN c : i <= n
        BY <1>1
      <4>2. c[m] \in Titles
        BY <1>5, <3>1
      <4> QED
        BY <3>1, <3>2, <4>1, <4>2, LastKnown
    <3>4. new = last /\ new # Unset
      BY <1>3, <1>5, <3>1, <3>3, ViewAssumption
    <3>5. NoTitle(r)
      <4> SUFFICES ASSUME NEW i \in 1..(l - n) PROVE r[i] \notin Titles
        BY <1>2 DEF NoTitle
      <4>1. n + i \in (m + 1)..l
        BY <1>1, <2>1
      <4> QED
        BY <1>2, <1>5, <4>1
    <3> QED
      BY <3>4, <3>5 DEF TitleComing
  <2>2. CASE n < m
    <3> DEFINE k == m - n
    <3>1. k \in 1..(l - n) /\ n + k = m
      BY <1>1, <2>2
    <3> HIDE DEF k
    <3>2. r[k] = u[m]
      BY <1>2, <3>1
    <3>3. \A j \in (k + 1)..(l - n) : r[j] \notin Titles
      <4> SUFFICES ASSUME NEW j \in (k + 1)..(l - n) PROVE r[j] \notin Titles
        OBVIOUS
      <4>1. j \in 1..(l - n) /\ n + j \in (m + 1)..l
        BY <1>1, <3>1
      <4> QED
        BY <1>2, <1>5, <4>1
    <3> QED
      BY <1>2, <1>5, <3>1, <3>2, <3>3 DEF TitleComing
  <2> QED
    BY <1>1, <2>1, <2>2
<1> QED
  BY <1>4, <1>5 DEF TitleComing, r

LEMMA AppendToConcat ==
    ASSUME NEW a \in Seq(Chunks), NEW b \in Seq(Chunks), NEW c \in Chunks
    PROVE  a \o Append(b, c) = Append(a \o b, c) /\ (a \o b) \in Seq(Chunks)
<1>1. <<c>> \in Seq(Chunks) /\ (a \o b) \in Seq(Chunks)
  OBVIOUS
<1>2. Append(b, c) = b \o <<c>>
  BY AppendIsConcat
<1>3. Append(a \o b, c) = (a \o b) \o <<c>>
  BY <1>1, AppendIsConcat
<1>4. (a \o b) \o <<c>> = a \o (b \o <<c>>)
  BY <1>1, ConcatAssociative
<1> QED
  BY <1>1, <1>2, <1>3, <1>4

\* A chunk is printed: a title is the last one from now on.
LEMMA TitleSent ==
    ASSUME NEW s \in Seq(Chunks), NEW c \in Chunks, NEW now, NEW last,
           TitleComing(s, now, last)
    PROVE  TitleComing(Append(s, c), now, IF c \in Titles THEN c ELSE last)
<1> DEFINE new == Append(s, c)
<1>1. /\ Len(s) \in Nat /\ Len(new) = Len(s) + 1 /\ new[Len(s) + 1] = c
      /\ \A i \in 1..Len(s) : new[i] = s[i]
  OBVIOUS
<1> HIDE DEF new
<1>2. CASE c \in Titles
  <2>1. Len(s) + 1 \in 1..Len(new) /\ new[Len(s) + 1] \in Titles /\ new[Len(s) + 1] = c
        /\ \A j \in (Len(s) + 1 + 1)..Len(new) : new[j] \notin Titles
    BY <1>1, <1>2
  <2> QED
    BY <1>2, <2>1 DEF TitleComing, new
<1>3. CASE c \notin Titles /\ NoTitle(s) /\ now = last
  <2>1. NoTitle(new)
    <3> SUFFICES ASSUME NEW i \in 1..Len(new) PROVE new[i] \notin Titles
      BY DEF NoTitle
    <3>1. i \in 1..Len(s) \/ i = Len(s) + 1
      BY <1>1
    <3> QED
      BY <1>1, <1>3, <3>1 DEF NoTitle
  <2> QED
    BY <1>3, <2>1 DEF TitleComing, new
<1>4. ASSUME c \notin Titles, NEW i \in 1..Len(s), s[i] \in Titles, s[i] = last,
             \A j \in (i + 1)..Len(s) : s[j] \notin Titles
      PROVE  TitleComing(new, now, last)
  <2>1. i \in 1..Len(new) /\ new[i] = s[i]
    BY <1>1
  <2>2. \A j \in (i + 1)..Len(new) : new[j] \notin Titles
    <3> SUFFICES ASSUME NEW j \in (i + 1)..Len(new) PROVE new[j] \notin Titles
      OBVIOUS
    <3>1. (j \in (i + 1)..Len(s) /\ j \in 1..Len(s)) \/ j = Len(s) + 1
      BY <1>1
    <3> QED
      BY <1>1, <1>4, <3>1
  <2> QED
    BY <1>4, <2>1, <2>2 DEF TitleComing
<1> QED
  BY <1>2, <1>3, <1>4 DEF TitleComing, new

\* What is on its way in the channel and the parser, together.
OnTheWay == pending \o Output(events)

LEMMA TurnTitle ==
    ASSUME EndInv, ViewTypes, TitleInv, Turn, UNCHANGED lastTitle
    PROVE  TitleComing(OnTheWay, Held, lastTitle)'
<1> DEFINE w == pending \o Output(Pulled)
           rest == SubSeq(events, Len(Pulled) + 1, Len(events))
<1>1. events' = rest /\ title'.last = title.last
  BY DEF Turn, ViewTypes
<1>2. /\ rest \in Seq(Chunks) /\ Output(Pulled) \in Seq(Chunks) /\ Output(rest) \in Seq(Chunks)
      /\ Output(events) = Output(Pulled) \o Output(rest) /\ pending \in Seq(Chunks)
  BY OutputSplit DEF EndInv
<1>3. OnTheWay = w \o Output(rest) /\ w \in Seq(Chunks)
  <2> DEFINE a == Output(Pulled)
             b == Output(rest)
  <2>1. a \in Seq(Chunks) /\ b \in Seq(Chunks) /\ pending \in Seq(Chunks)
    BY <1>2
  <2> HIDE DEF a, b
  <2>2. (pending \o a) \o b = pending \o (a \o b)
    BY <2>1, ConcatAssociative
  <2>3. pending \o (Output(Pulled) \o Output(rest)) = w \o Output(rest)
    BY <2>2 DEF a, b
  <2> QED
    BY <1>2, <2>3 DEF OnTheWay
<1>4. Output(events') = Output(rest)
  BY <1>1
<1>5. CASE w = <<>> /\ UNCHANGED <<pending, title>>
  <2>1. pending = <<>>
    BY <1>2, <1>5
  <2>2. OnTheWay' = pending \o Output(rest)
    BY <1>4, <1>5 DEF OnTheWay
  <2>3. w = pending
    BY <1>5, <2>1
  <2>4. OnTheWay' = OnTheWay
    BY <1>3, <2>2, <2>3
  <2> QED
    BY <1>5, <2>4 DEF TitleInv, OnTheWay, Held
<1>6. ASSUME NEW n \in 1..Len(w), pending' = SubSeq(w, n + 1, Len(w)),
             title'.pending = LastOf(SubSeq(w, 1, n), Titles, title.pending)
      PROVE  TitleComing(OnTheWay, Held, lastTitle)'
  <2> DEFINE u == OnTheWay
  <2>1. u \in Seq(Chunks) /\ Len(w) \in Nat /\ n <= Len(u) /\ Len(u) = Len(w) + Len(Output(rest))
        /\ Len(Output(rest)) \in Nat /\ n \in Nat
    BY <1>2, <1>3
  <2>2. SubSeq(u, 1, n) = SubSeq(w, 1, n)
    BY <1>2, <1>3, SubSeqOfConcat
  <2>3. SubSeq(u, n + 1, Len(u)) = OnTheWay'
    BY <1>2, <1>3, <1>4, <1>6, SuffixOfConcat DEF OnTheWay
  <2>4. TitleComing(u, IF title.pending # Unset THEN title.pending ELSE title.last, lastTitle)
    BY DEF TitleInv, OnTheWay, Held
  <2>5. title'.pending = LastOf(SubSeq(u, 1, n), Titles, title.pending)
    BY <1>6, <2>2
  <2> HIDE DEF u
  <2>6. Held' = IF title'.pending # Unset THEN title'.pending ELSE title.last
    BY <1>1 DEF Held
  <2> HIDE DEF OnTheWay, Held
  <2>7. TitleComing(OnTheWay', Held', lastTitle)
    BY <2>1, <2>3, <2>4, <2>5, <2>6, TitleParsed, Zenon
  <2> QED
    BY <2>7
<1> QED
  BY <1>5, <1>6 DEF Turn, ViewTypes

LEMMA TitleWayStep ==
    ASSUME EndInv, ViewTypes, TitleInv, [VNext]_terminalVars
    PROVE  TitleComing(OnTheWay, Held, lastTitle)'
<1>0. TitleComing(OnTheWay, Held, lastTitle)
  BY DEF TitleInv, OnTheWay
<1>1. CASE UNCHANGED <<pending, events, lastTitle, title.pending, title.last>>
  BY <1>0, <1>1 DEF OnTheWay, Held, Output, Ended
<1>2. CASE Turn /\ UNCHANGED viewVars
  BY <1>2, TurnTitle DEF viewVars
<1>3. CASE Timers /\ UNCHANGED viewVars
  <2>1. UNCHANGED <<pending, events, lastTitle>> /\ title' = AfterTake(Ending)
    BY <1>3 DEF Timers, viewVars
  <2>2. Held' = Held
    BY <2>1 DEF Held, AfterTake, Taken, ViewTypes
  <2>3. OnTheWay' = OnTheWay
    BY <2>1 DEF OnTheWay, Output, Ended
  <2> QED
    BY <1>0, <2>1, <2>2, <2>3
<1>4. ASSUME NEW text \in scene.kinds, Prints(text)
      PROVE  TitleComing(OnTheWay, Held, lastTitle)'
  <2>1. /\ text \in Chunks /\ text # "exit" /\ events' = Append(events, text)
        /\ backend = "running" /\ UNCHANGED <<pending, title>>
        /\ lastTitle' = IF text \in Titles THEN text ELSE lastTitle
    BY <1>4, ViewAssumption DEF Prints, Outputs, Chunks, ViewTypes
  <2>2. events \in Seq(Chunks) /\ ~Ended(events) /\ pending \in Seq(Chunks)
    BY <2>1, EndedLen DEF EndInv
  <2>3. Output(events) = events /\ Output(Append(events, text)) = Append(events, text)
    BY <2>1, <2>2, OutputSent
  <2>4. Output(events') = Append(events, text)
    BY <2>1, <2>3
  <2>5. OnTheWay = pending \o events /\ OnTheWay' = pending \o Append(events, text)
    BY <2>1, <2>3, <2>4 DEF OnTheWay
  <2>6. pending \o Append(events, text) = Append(pending \o events, text)
        /\ (pending \o events) \in Seq(Chunks)
    BY <2>1, <2>2, AppendToConcat
  <2>7. OnTheWay' = Append(OnTheWay, text) /\ OnTheWay \in Seq(Chunks)
    BY <2>5, <2>6
  <2>8. Held' = Held
    BY <2>1 DEF Held
  <2>9. TitleComing(Append(OnTheWay, text), Held, IF text \in Titles THEN text ELSE lastTitle)
    BY <1>0, <2>1, <2>7, TitleSent, Zenon
  <2>10. TitleComing(OnTheWay', Held', lastTitle')
    BY <2>1, <2>7, <2>8, <2>9
  <2> QED
    BY <2>10
<1>5. CASE Ends /\ UNCHANGED viewVars
  <2>1. UNCHANGED <<pending, title, lastTitle>>
    BY <1>5 DEF Ends, viewVars
  <2>2. Output(events') = Output(events)
    <3>1. CASE backend = "running" /\ events' = Append(events, "exit")
      <4>1. events \in Seq(Chunks) /\ ~Ended(events)
        BY <3>1, EndedLen DEF EndInv
      <4>2. Output(events) = events /\ Output(Append(events, "exit")) = events
        <5>1. "exit" \in Chunks
          BY DEF Chunks
        <5> QED
          BY <4>1, <5>1, OutputSent
      <4> QED
        BY <3>1, <4>2
    <3> QED
      BY <1>5, <3>1 DEF Ends
  <2>3. OnTheWay' = OnTheWay /\ Held' = Held
    BY <2>1, <2>2 DEF OnTheWay, Held
  <2> QED
    BY <1>0, <2>1, <2>3
<1>6. CASE Record \/ Close
  <2>1. UNCHANGED <<pending, events, lastTitle, title>>
    BY <1>6 DEF Record, Close
  <2> QED
    BY <1>1, <2>1
<1> QED
  BY <1>1, <1>2, <1>3, <1>4, <1>5, <1>6, QuietSteps

LEMMA ToldStep ==
    ASSUME NoticeInv, EndInv, ViewTypes, TitleInv, [VNext]_terminalVars
    PROVE  (~closed \/ EndComing \/ info.exited => Told = title.last)'
<1>0. ~closed \/ EndComing \/ info.exited => Told = title.last
  BY DEF TitleInv
<1>1. CASE UNCHANGED <<notified, info, closed, title.last>>
  BY <1>0, <1>1 DEF Told, EndComing
<1>2. CASE notified = <<>> /\ Redrawn /\ UNCHANGED <<info, closed, title>>
  <2>1. ~EndComing' /\ Told' = info.title /\ Told = info.title
    BY <1>2 DEF Redrawn, EndComing, Told
  <2> QED
    BY <1>0, <1>2, <2>1
<1>3. CASE Close
  <2>1. UNCHANGED <<notified, info, title>>
    BY <1>3 DEF Close
  <2>2. ~closed
    BY <1>3 DEF Close, User
  <2>3. Told' = Told
    BY <2>1 DEF Told
  <2> QED
    BY <1>0, <2>1, <2>2, <2>3
<1>4. CASE (\E text \in scene.kinds : Prints(text)) \/ (Ends /\ UNCHANGED viewVars)
  <2>1. UNCHANGED <<notified, info, closed, title>>
    BY <1>4 DEF Prints, Outputs, Ends, entryVars, viewVars, flags
  <2> QED
    BY <1>1, <2>1
<1>5. CASE Turn /\ UNCHANGED viewVars
  <2>1. UNCHANGED <<notified, info, closed, title.last>>
    BY <1>5 DEF Turn, viewVars, flags, ViewTypes
  <2> QED
    BY <1>1, <2>1
<1>6. CASE Record
  <2>1. notified # <<>> /\ notified' = Tail(notified) /\ UNCHANGED <<closed, title>>
    BY <1>6 DEF Record, flags
  <2>2. CASE notified = <<[k |-> "dirty"]>>
    <3>1. notified' = <<>> /\ info' = info
      BY <1>6, <2>2 DEF Record
    <3>2. Told' = Told /\ ~EndComing'
      BY <2>2, <3>1 DEF Told, EndComing
    <3> QED
      BY <1>0, <2>1, <3>1, <3>2
  <2>3. CASE notified = <<[k |-> "exited"]>>
    <3>1. notified' = <<>> /\ EndComing
      BY <2>1, <2>3 DEF EndComing
    <3>2. info'.title = info.title
      BY <1>6, <2>3 DEF Record, ViewTypes
    <3>3. Told' = Told
      BY <2>3, <3>1, <3>2 DEF Told
    <3> QED
      BY <1>0, <2>1, <3>1, <3>3
  <2>4. CASE \/ notified = <<[k |-> "title", v |-> notified[1].v]>>
             \/ notified = <<[k |-> "title", v |-> notified[1].v], [k |-> "exited"]>>
    <3> DEFINE x == notified[1].v
               a == [k |-> "title", v |-> x]
               b == [k |-> "exited"]
    <3>1. (notified = <<a>> \/ notified = <<a, b>>) /\ a.k = "title" /\ a.v = x
          /\ b.k = "exited"
      BY <2>4
    <3>2. Told = x
      BY <3>1 DEF Told
    <3> HIDE DEF a, b, x
    <3>3. Head(notified) = a
      BY <3>1
    <3>4. info'.title = x /\ info'.exited = info.exited
      BY <1>6, <3>1, <3>3 DEF Record, ViewTypes
    <3>5. notified' = <<>> \/ (notified' = <<b>> /\ notified = <<a, b>>)
      BY <2>1, <3>1, OneNotice, TwoNotices
    <3>6. Told' = x
      BY <3>1, <3>4, <3>5 DEF Told
    <3>7. EndComing' => EndComing
      BY <3>1, <3>5 DEF EndComing
    <3> QED
      BY <1>0, <2>1, <3>2, <3>4, <3>6, <3>7
  <2> QED
    BY <2>1, <2>2, <2>3, <2>4 DEF NoticeInv
<1>7. CASE Timers /\ UNCHANGED viewVars
  <2>1. /\ UNCHANGED <<info, closed>> /\ title' = AfterTake(Ending) /\ notified = <<>>
        /\ Told = info.title
    BY <1>7, TimersTell DEF Timers, viewVars, Told
  <2>2. CASE closed
    <3>1. notified' = <<>> /\ Told' = info.title /\ ~EndComing'
      BY <1>7, <2>1, <2>2, TimersTell DEF Told, EndComing
    <3>2. info.exited => title'.last = title.last
      BY <2>1 DEF NoticeInv, EndInv, AfterTake, Taken
    <3> QED
      BY <1>0, <2>1, <2>2, <3>1, <3>2
  <2>3. CASE ~closed /\ Due = Unset
    <3>1. notified' = <<>> \/ notified' = <<[k |-> "exited"]>>
      BY <1>7, <2>3, TimersTell
    <3>2. Told' = info.title
      BY <2>1, <3>1 DEF Told
    <3>3. title'.last = title.last
      BY <2>1, <2>3 DEF Due, TakenValue, AfterTake, Taken, ViewTypes
    <3> QED
      BY <1>0, <2>1, <2>3, <3>2, <3>3
  <2>4. CASE ~closed /\ Due # Unset
    <3>1. notified' = <<[k |-> "title", v |-> Due]>>
            \/ notified' = <<[k |-> "title", v |-> Due], [k |-> "exited"]>>
      BY <1>7, <2>4, TimersTell
    <3>2. Told' = Due
      BY <3>1 DEF Told
    <3>3. title'.last = Due
      BY <2>1, <2>4 DEF Due, TakenValue, AfterTake, Taken
    <3> QED
      BY <3>2, <3>3
  <2> QED
    BY <2>2, <2>3, <2>4
<1> QED
  BY <1>1, <1>2, <1>3, <1>4, <1>5, <1>6, <1>7, QuietSteps

-----------------------------------------------------------------------------
LEMMA ViewInvInit == VInit => ViewInv
<1> SUFFICES ASSUME VInit PROVE ViewInv
  OBVIOUS
<1> USE DEF VInit, SInit
<1>1. ViewTypes /\ FrameInv
  BY DEF ViewTypes, IsItem, FrameInv, NoItem
<1>2. TermSizes
  BY ViewAssumption DEF TermSizes, SizeComing, NoItem, GridSizes
<1>3. EndInv /\ NoticeInv
  BY DEF EndInv, NoticeInv, EndComing
<1>4. TitleInv
  <2>1. Output(events) = <<>> /\ pending = <<>>
    BY DEF Output, Ended
  <2>2. pending \o Output(events) = <<>>
    BY <2>1
  <2>3. TitleComing(<<>>, Held, lastTitle)
    BY DEF TitleComing, NoTitle, Held
  <2>4. Told = title.last
    BY DEF Told
  <2> QED
    BY <2>2, <2>3, <2>4 DEF TitleInv
<1> QED
  BY <1>1, <1>2, <1>3, <1>4 DEF ViewInv

LEMMA ViewInvStep == ViewInv /\ [VNext]_terminalVars => ViewInv'
<1> SUFFICES ASSUME ViewInv, [VNext]_terminalVars PROVE ViewInv'
  OBVIOUS
<1>1. /\ ViewTypes /\ FrameInv /\ TermSizes /\ EndInv /\ NoticeInv /\ TitleInv
  BY DEF ViewInv
<1>2. ViewTypes' /\ FrameInv' /\ TermSizes' /\ EndInv' /\ NoticeInv'
  BY <1>1, TypesStep, FrameStep, SizesStep, EndStep, NoticeStep
<1>3. TitleInv'
  <2>1. TitleComing(OnTheWay, Held, lastTitle)'
        /\ (~closed \/ EndComing \/ info.exited => Told = title.last)'
    BY <1>1, TitleWayStep, ToldStep
  <2> QED
    BY <2>1 DEF TitleInv, OnTheWay
<1> QED
  BY <1>2, <1>3 DEF ViewInv

LEMMA ViewInvSound == ViewInv => ViewSound
<1> SUFFICES ASSUME ViewInv PROVE ViewSound
  OBVIOUS
<1>1. NeverTorn
  BY DEF ViewInv, FrameInv, NeverTorn
<1>2. ExitToldLast
  <2> SUFFICES ASSUME info.exited
               PROVE  events = <<>> /\ pending = <<>> /\ info.title = lastTitle
    BY DEF ExitToldLast
  <2>1. reported /\ events = <<>> /\ pending = <<>> /\ title.pending = Unset
    BY DEF ViewInv, NoticeInv, EndInv
  <2>2. pending \o Output(events) = <<>>
    BY <2>1 DEF Output, Ended
  <2>3. Held = lastTitle
    BY <2>2 DEF ViewInv, TitleInv, TitleComing
  <2>4. Told = info.title /\ Told = title.last
    BY DEF ViewInv, TitleInv, NoticeInv, Told
  <2> QED
    BY <2>1, <2>3, <2>4 DEF Held
<1>3. SizeSettles
  BY DEF ViewInv, TermSizes, SizeSettles, ViewSettled, SizeComing, NoResize
<1> QED
  BY <1>1, <1>2, <1>3 DEF ViewSound

\* Whatever the program writes and however the parser, the wake-ups, the snapshots and
\* the item interleave: no frame is put on a picture it does not belong to, the end is
\* told after everything else, and the sizes agree when all is quiet.
THEOREM ViewIsSound == VSpec => []ViewSound
<1> QED
  BY ViewInvInit, ViewInvStep, ViewInvSound, PTL DEF VSpec
-----------------------------------------------------------------------------
(***************************************************************************)
(* The serial line.  Only the reader's thread sends what the device sent,  *)
(* and it ends with Exited.                                                *)
(***************************************************************************)
Heard(e) == \E n \in 1..Len(events) : events[n] = e

SerialInv ==
    /\ events \in Seq({"note", "data", "exited"})
    /\ exitedSent \/ Heard("exited") => pc = "ended"
    /\ \A n, m \in 1..Len(events) : events[n] = "exited" /\ events[m] = "data" => m < n

\* A step that sends at most one event, before the reader is over or a note.
LEMMA SerialSends ==
    ASSUME SerialInv, NEW e \in {"note", "data", "exited"}, Serial!Sent(e) \/ UNCHANGED events,
           pc' = "ended" \/ (pc' # "ended" /\ pc # "ended" /\ UNCHANGED exitedSent /\ e # "exited"),
           e = "data" => pc # "ended"
    PROVE  SerialInv'
<1>1. events \in Seq({"note", "data", "exited"}) /\ Len(events) \in Nat
  BY DEF SerialInv
<1>2. ASSUME events' = Append(events, e)
      PROVE  /\ events' \in Seq({"note", "data", "exited"}) /\ Len(events') = Len(events) + 1
             /\ events'[Len(events) + 1] = e
             /\ \A n \in 1..Len(events) : events'[n] = events[n]
  BY <1>1, <1>2
<1>3. CASE UNCHANGED events
  BY <1>3 DEF SerialInv, Heard
<1>4. CASE events' = Append(events, e)
  <2>1. Heard("exited")' => pc' = "ended"
    BY <1>1, <1>2, <1>4 DEF SerialInv, Heard
  <2>2. ASSUME NEW n \in 1..Len(events'), NEW m \in 1..Len(events'),
               events'[n] = "exited", events'[m] = "data"
        PROVE  m < n
    <3>1. CASE m = Len(events) + 1
      <4>1. e = "data" /\ pc # "ended" /\ n # m
        BY <1>1, <1>2, <1>4, <2>2, <3>1
      <4> QED
        BY <1>1, <1>2, <1>4, <2>2, <3>1, <4>1 DEF SerialInv, Heard
    <3>2. CASE m # Len(events) + 1 /\ n # Len(events) + 1
      BY <1>1, <1>2, <1>4, <2>2, <3>2 DEF SerialInv
    <3>3. CASE m # Len(events) + 1 /\ n = Len(events) + 1
      BY <1>1, <1>2, <1>4, <2>2, <3>3
    <3> QED BY <3>1, <3>2, <3>3
  <2> QED BY <1>2, <1>4, <2>1, <2>2 DEF SerialInv
<1> QED BY <1>3, <1>4 DEF Serial!Sent

\* Every step of the two threads, the pane and the device keeps the invariant.
LEMMA SerialStep == ASSUME SerialInv, [Serial!YNext]_(Serial!serialVars) PROVE SerialInv'
<1>0. events \in Seq({"note", "data", "exited"}) /\ Len(events) \in Nat
  BY DEF SerialInv
<1>1. ASSUME UNCHANGED <<events, exitedSent>>, pc = "ended" => pc' = "ended" PROVE SerialInv'
  BY <1>1 DEF SerialInv, Heard
<1>2. CASE Serial!PaneCloses
  BY <1>2 DEF Serial!PaneCloses, SerialInv, Heard
<1>3. CASE Serial!Hears
  <2>1. /\ events # <<>> /\ events' = Tail(events) /\ UNCHANGED <<pc, exitedSent>>
    BY <1>3 DEF Serial!Hears
  <2>2. /\ events' \in Seq({"note", "data", "exited"}) /\ Len(events') = Len(events) - 1
        /\ \A n \in 1..Len(events') : events'[n] = events[n + 1]
    BY <1>0, <2>1
  <2>3. Heard("exited")' => Heard("exited")
    BY <1>0, <2>2 DEF Heard
  <2>4. ASSUME NEW n \in 1..Len(events'), NEW m \in 1..Len(events'),
               events'[n] = "exited", events'[m] = "data"
        PROVE  m < n
    <3>1. n + 1 \in 1..Len(events) /\ m + 1 \in 1..Len(events)
      BY <1>0, <2>2
    <3>2. m + 1 < n + 1
      BY <2>2, <2>4, <3>1 DEF SerialInv
    <3> QED BY <1>0, <3>2
  <2> QED BY <2>1, <2>2, <2>3, <2>4 DEF SerialInv
<1>4. CASE Serial!OpenNote \/ Serial!StartWriter \/ Serial!SendError \/ Serial!SwitchView
  <2>1. /\ Serial!Sent("note") \/ UNCHANGED events
        /\ pc # "ended" /\ pc' # "ended" /\ UNCHANGED exitedSent
    BY <1>4 DEF Serial!OpenNote, Serial!StartWriter, Serial!SendError, Serial!SwitchView
  <2> QED BY <2>1, SerialSends
<1>5. CASE Serial!SendExited
  BY <1>5, SerialSends DEF Serial!SendExited
<1>6. CASE Serial!Show
  <2>1. /\ Serial!Sent("data") \/ UNCHANGED events
        /\ pc # "ended" /\ UNCHANGED exitedSent
    BY <1>6 DEF Serial!Show
  <2> QED BY <2>1, SerialSends
<1>7. CASE Serial!WriterSends
  <2>1. (Serial!Sent("note") \/ UNCHANGED events) /\ UNCHANGED <<pc, exitedSent>>
    BY <1>7 DEF Serial!WriterSends
  <2> QED BY <2>1, SerialSends
<1>8. CASE \/ Serial!PaneAsks \/ Serial!DeviceGone \/ Serial!Read \/ Serial!ReaderStops
           \/ Serial!ReadFailed \/ Serial!WriterLoop \/ Serial!WriterWrites
  BY <1>1, <1>8 DEF Serial!PaneAsks, Serial!DeviceGone, Serial!Read, Serial!ReaderStops,
     Serial!ReadFailed, Serial!WriterLoop, Serial!WriterWrites, Serial!view, Serial!shared
<1>9. CASE UNCHANGED Serial!serialVars
  BY <1>1, <1>9 DEF Serial!serialVars
<1> QED
  BY <1>2, <1>3, <1>4, <1>5, <1>6, <1>7, <1>8, <1>9 DEF Serial!YNext

\* Whatever fails, breaks off or is closed, and whichever thread sends: nothing the
\* device sent comes after Exited.
THEOREM SerialDataFirst == Serial!YSpec => []Serial!DeviceBeforeExit
<1>1. Serial!YInit => SerialInv
  BY DEF Serial!YInit, SerialInv, Heard
<1>2. SerialInv /\ [Serial!YNext]_(Serial!serialVars) => SerialInv'
  BY SerialStep
<1>3. SerialInv => Serial!DeviceBeforeExit
  BY DEF SerialInv, Serial!DeviceBeforeExit, Serial!At
<1> QED BY <1>1, <1>2, <1>3, PTL DEF Serial!YSpec

-----------------------------------------------------------------------------
(***************************************************************************)
(* Telnet.  With a server that waits for the answer to what it asked about *)
(* an option, an option of one side is agreed, or exactly one message      *)
(* about it is on the way: the server's question, or the client's answer.  *)
(* With one that does not wait, the last thing the server says about an    *)
(* option is what it has itself, and the client follows.                   *)
(***************************************************************************)
AskVerb(who, on) ==
    IF who = "own" THEN IF on THEN "will" ELSE "wont" ELSE IF on THEN "do" ELSE "dont"
AnswerVerb(who, on) ==
    IF who = "own" THEN IF on THEN "do" ELSE "dont" ELSE IF on THEN "will" ELSE "wont"

AsksAbout(m, who, o) == m.opt = o /\ \E on \in BOOLEAN : m.verb = AskVerb(who, on)
AnswersAbout(m, who, o) == m.opt = o /\ \E on \in BOOLEAN : m.verb = AnswerVerb(who, on)

\* An option o of a side: whether it is on for the client and for the server, whether
\* the client takes it, whether the server waits, and the two queues.
OptionFits(who, o, client, server, takes, waits, qc, qs) ==
    /\ \A n \in 1..Len(qc) :
         AsksAbout(qc[n], who, o) =>
           /\ waits /\ client # server /\ qc[n].verb = AskVerb(who, server)
           /\ \A m \in 1..Len(qc) : AsksAbout(qc[m], who, o) => m = n
           /\ \A m \in 1..Len(qs) : ~AnswersAbout(qs[m], who, o)
    /\ \A n \in 1..Len(qs) :
         AnswersAbout(qs[n], who, o) =>
           /\ waits /\ qs[n].verb = AnswerVerb(who, client)
           /\ \A m \in 1..Len(qs) : AnswersAbout(qs[m], who, o) => m = n
    /\ waits => \/ \E n \in 1..Len(qc) : AsksAbout(qc[n], who, o)
                \/ \E n \in 1..Len(qs) : AnswersAbout(qs[n], who, o)
    /\ ~waits => client = server
    /\ client => takes

\* The last question about o has this verb, if there is one.
SaysLast(qc, who, o, verb) ==
    \A n \in 1..Len(qc) :
      AsksAbout(qc[n], who, o) /\ (\A k \in (n + 1)..Len(qc) : ~AsksAbout(qc[k], who, o))
        => qc[n].verb = verb
SaysNothing(qc, who, o) == \A n \in 1..Len(qc) : ~AsksAbout(qc[n], who, o)

\* With a server that does not wait.  It said last what it has itself; when all it
\* said was heard, the two agree, or the client's refusal is on the way.
FreeFits(who, o, client, server, takes, qc, qs) ==
    /\ SaysLast(qc, who, o, AskVerb(who, server))
    /\ SaysNothing(qc, who, o)
         => \/ client = server
            \/ server /\ ~takes /\ \E n \in 1..Len(qs) : AnswersAbout(qs[n], who, o)
    /\ ~takes => \A n \in 1..Len(qs) :
                   AnswersAbout(qs[n], who, o) => qs[n].verb = AnswerVerb(who, FALSE)
    /\ client => takes

Fits(who, o, client, server, takes, waits, qc, qs) ==
    IF Patient THEN OptionFits(who, o, client, server, takes, waits, qc, qs)
    ELSE ~waits /\ FreeFits(who, o, client, server, takes, qc, qs)

TelnetSides == {"own", "peer"}
FromServer == [verb : {"will", "wont", "do", "dont"}, opt : Telnet!Options]
FromClient == FromServer \cup [verb : {"size"}, opt : Nat]
PaneCommands == {[k |-> "shutdown"]} \cup [k : {"resize"}, size : Nat]

\* The last size on the way to the server is `last`, or none is and it has it.
SizeSoon(q, now, last) ==
    \/ now = last /\ \A n \in 1..Len(q) : q[n].verb # "size"
    \/ \E n \in 1..Len(q) : /\ q[n].verb = "size" /\ q[n].opt = last
                            /\ \A m \in (n + 1)..Len(q) : q[m].verb # "size"

TelnetTypes ==
    /\ toClient \in Seq(FromServer) /\ toServer \in Seq(FromClient)
    /\ commands \in Seq(PaneCommands)
    /\ theirs \subseteq Telnet!Options /\ ours \subseteq Telnet!Options
    /\ sOwn \subseteq Telnet!Options /\ sPeer \subseteq Telnet!Options
    /\ size \in Nat /\ asked \in Nat /\ resizes \in Nat

ClientHas(who) == IF who = "own" THEN theirs ELSE ours
ServerHas(who) == IF who = "own" THEN sOwn ELSE sPeer
ClientTakes(who) == IF who = "own" THEN Telnet!Theirs ELSE Telnet!Ours

OptionOK(who, o) ==
    Fits(who, o, o \in ClientHas(who), o \in ServerHas(who), o \in ClientTakes(who),
         <<who, o>> \in sWaits, toClient, toServer)

TelnetInv ==
    /\ TelnetTypes
    /\ \A who \in TelnetSides, o \in Telnet!Options : OptionOK(who, o)
    /\ SizeComing(commands, size, asked)
    /\ "naws" \in ours => SizeSoon(toServer, sSize, size)
    /\ pc = "connect" => "naws" \notin ours

\* What Append and Tail do to a queue.
LEMMA QueueGrows ==
    ASSUME NEW S, NEW q \in Seq(S), NEW e \in S
    PROVE  /\ Append(q, e) \in Seq(S) /\ Len(q) \in Nat /\ Len(Append(q, e)) = Len(q) + 1
           /\ Append(q, e)[Len(q) + 1] = e
           /\ \A n \in 1..Len(q) : Append(q, e)[n] = q[n]
OBVIOUS

LEMMA QueueShrinks ==
    ASSUME NEW S, NEW q \in Seq(S), q # <<>>
    PROVE  /\ Tail(q) \in Seq(S) /\ Len(q) \in Nat \ {0} /\ Len(Tail(q)) = Len(q) - 1
           /\ Head(q) = q[1] /\ Head(q) \in S
           /\ \A n \in 1..Len(Tail(q)) : Tail(q)[n] = q[n + 1]
OBVIOUS

\* What is said of one option does not depend on messages about others.
LEMMA OptionAskedOther ==
    ASSUME NEW who, NEW o, NEW client, NEW server, NEW takes, NEW waits, NEW S, NEW qc \in Seq(S),
           NEW qs, NEW m \in S, ~AsksAbout(m, who, o),
           OptionFits(who, o, client, server, takes, waits, qc, qs)
    PROVE  OptionFits(who, o, client, server, takes, waits, Append(qc, m), qs)
<1> DEFINE new == Append(qc, m)
<1>1. /\ Len(qc) \in Nat /\ Len(new) = Len(qc) + 1 /\ new[Len(qc) + 1] = m
      /\ \A n \in 1..Len(qc) : new[n] = qc[n]
  BY QueueGrows
<1> HIDE DEF new
<1>2. \A n \in 1..Len(new) : AsksAbout(new[n], who, o) => n \in 1..Len(qc) /\ new[n] = qc[n]
  BY <1>1
<1>3. \A n \in 1..Len(qc) : n \in 1..Len(new) /\ new[n] = qc[n]
  BY <1>1
<1> QED BY <1>2, <1>3 DEF OptionFits, new

LEMMA OptionAnsweredOther ==
    ASSUME NEW who, NEW o, NEW client, NEW server, NEW takes, NEW waits, NEW S, NEW qs \in Seq(S),
           NEW qc, NEW m \in S, ~AnswersAbout(m, who, o),
           OptionFits(who, o, client, server, takes, waits, qc, qs)
    PROVE  OptionFits(who, o, client, server, takes, waits, qc, Append(qs, m))
<1> DEFINE new == Append(qs, m)
<1>1. /\ Len(qs) \in Nat /\ Len(new) = Len(qs) + 1 /\ new[Len(qs) + 1] = m
      /\ \A n \in 1..Len(qs) : new[n] = qs[n]
  BY QueueGrows
<1> HIDE DEF new
<1>2. \A n \in 1..Len(new) : AnswersAbout(new[n], who, o) => n \in 1..Len(qs) /\ new[n] = qs[n]
  BY <1>1
<1>3. \A n \in 1..Len(qs) : n \in 1..Len(new) /\ new[n] = qs[n]
  BY <1>1
<1> QED BY <1>2, <1>3 DEF OptionFits, new

LEMMA OptionHeardOther ==
    ASSUME NEW who, NEW o, NEW client, NEW server, NEW takes, NEW waits, NEW S, NEW qc \in Seq(S),
           NEW qs, qc # <<>>, ~AsksAbout(Head(qc), who, o),
           OptionFits(who, o, client, server, takes, waits, qc, qs)
    PROVE  OptionFits(who, o, client, server, takes, waits, Tail(qc), qs)
<1> DEFINE new == Tail(qc)
<1>1. /\ Len(qc) \in Nat \ {0} /\ Len(new) = Len(qc) - 1 /\ Head(qc) = qc[1]
      /\ \A n \in 1..Len(new) : new[n] = qc[n + 1]
  BY QueueShrinks
<1> HIDE DEF new
<1>2. \A n \in 1..Len(new) : n + 1 \in 1..Len(qc) /\ new[n] = qc[n + 1]
  BY <1>1
<1>3. ASSUME NEW n \in 1..Len(qc), AsksAbout(qc[n], who, o)
      PROVE  n - 1 \in 1..Len(new) /\ new[n - 1] = qc[n]
  BY <1>1, <1>3
<1>4. ASSUME NEW n \in 1..Len(new), NEW m \in 1..Len(new),
             AsksAbout(new[n], who, o), AsksAbout(new[m], who, o)
      PROVE  m = n
  <2>1. m + 1 = n + 1
    BY <1>2, <1>4 DEF OptionFits
  <2> QED BY <1>1, <2>1
<1>5. ASSUME NEW n \in 1..Len(new), AsksAbout(new[n], who, o)
      PROVE  /\ waits /\ client # server /\ new[n].verb = AskVerb(who, server)
             /\ \A m \in 1..Len(qs) : ~AnswersAbout(qs[m], who, o)
  BY <1>2, <1>5 DEF OptionFits
<1>6. (\E n \in 1..Len(qc) : AsksAbout(qc[n], who, o))
        => \E n \in 1..Len(new) : AsksAbout(new[n], who, o)
  BY <1>3
<1> QED BY <1>4, <1>5, <1>6 DEF OptionFits, new

LEMMA OptionTakenOther ==
    ASSUME NEW who, NEW o, NEW client, NEW server, NEW takes, NEW waits, NEW S, NEW qs \in Seq(S),
           NEW qc, qs # <<>>, ~AnswersAbout(Head(qs), who, o),
           OptionFits(who, o, client, server, takes, waits, qc, qs)
    PROVE  OptionFits(who, o, client, server, takes, waits, qc, Tail(qs))
<1> DEFINE new == Tail(qs)
<1>1. /\ Len(qs) \in Nat \ {0} /\ Len(new) = Len(qs) - 1 /\ Head(qs) = qs[1]
      /\ \A n \in 1..Len(new) : new[n] = qs[n + 1]
  BY QueueShrinks
<1> HIDE DEF new
<1>2. \A n \in 1..Len(new) : n + 1 \in 1..Len(qs) /\ new[n] = qs[n + 1]
  BY <1>1
<1>3. ASSUME NEW n \in 1..Len(qs), AnswersAbout(qs[n], who, o)
      PROVE  n - 1 \in 1..Len(new) /\ new[n - 1] = qs[n]
  BY <1>1, <1>3
<1>4. ASSUME NEW n \in 1..Len(new), NEW m \in 1..Len(new),
             AnswersAbout(new[n], who, o), AnswersAbout(new[m], who, o)
      PROVE  m = n
  <2>1. m + 1 = n + 1
    BY <1>2, <1>4 DEF OptionFits
  <2> QED BY <1>1, <2>1
<1>5. ASSUME NEW n \in 1..Len(new), AnswersAbout(new[n], who, o)
      PROVE  waits /\ new[n].verb = AnswerVerb(who, client)
  BY <1>2, <1>5 DEF OptionFits
<1>6. (\E n \in 1..Len(qs) : AnswersAbout(qs[n], who, o))
        => \E n \in 1..Len(new) : AnswersAbout(new[n], who, o)
  BY <1>3
<1>7. ASSUME NEW n \in 1..Len(qc), AsksAbout(qc[n], who, o), NEW m \in 1..Len(new)
      PROVE  ~AnswersAbout(new[m], who, o)
  BY <1>2, <1>7 DEF OptionFits
<1> QED BY <1>4, <1>5, <1>6, <1>7 DEF OptionFits, new

\* The server asks, the client answers, the server takes the answer.
LEMMA OptionAsked ==
    ASSUME NEW who, NEW o, NEW client, NEW server \in BOOLEAN, NEW takes, NEW S, NEW qc \in Seq(S),
           NEW qs, NEW m \in S, m.opt = o, m.verb = AskVerb(who, ~server),
           OptionFits(who, o, client, server, takes, FALSE, qc, qs)
    PROVE  OptionFits(who, o, client, ~server, takes, TRUE, Append(qc, m), qs)
<1> DEFINE new == Append(qc, m)
<1>1. /\ Len(qc) \in Nat /\ Len(new) = Len(qc) + 1 /\ new[Len(qc) + 1] = m
      /\ \A n \in 1..Len(qc) : new[n] = qc[n]
  BY QueueGrows
<1> HIDE DEF new
<1>2. client = server /\ AsksAbout(m, who, o)
  BY DEF OptionFits, AsksAbout
<1>3. \A n \in 1..Len(new) : AsksAbout(new[n], who, o) => n = Len(qc) + 1
  BY <1>1 DEF OptionFits
<1>4. \A n \in 1..Len(qs) : ~AnswersAbout(qs[n], who, o)
  BY DEF OptionFits
<1>5. Len(qc) + 1 \in 1..Len(new)
  BY <1>1
<1> QED BY <1>1, <1>2, <1>3, <1>4, <1>5 DEF OptionFits, new

LEMMA OptionAnswered ==
    ASSUME NEW who, NEW o, NEW client \in BOOLEAN, NEW server \in BOOLEAN, NEW takes \in BOOLEAN,
           NEW waits, NEW S, NEW qc \in Seq(S), NEW T, NEW qs \in Seq(T), NEW m \in T,
           qc # <<>>, AsksAbout(Head(qc), who, o),
           m.opt = o, NEW on \in BOOLEAN, on <=> server /\ takes, m.verb = AnswerVerb(who, on),
           OptionFits(who, o, client, server, takes, waits, qc, qs)
    PROVE  OptionFits(who, o, on, server, takes, waits, Tail(qc), Append(qs, m))
<1> DEFINE newc == Tail(qc)
           news == Append(qs, m)
<1>1. /\ Len(qc) \in Nat \ {0} /\ Len(newc) = Len(qc) - 1 /\ Head(qc) = qc[1]
      /\ \A n \in 1..Len(newc) : newc[n] = qc[n + 1]
  BY QueueShrinks
<1>2. /\ Len(qs) \in Nat /\ Len(news) = Len(qs) + 1 /\ news[Len(qs) + 1] = m
      /\ \A n \in 1..Len(qs) : news[n] = qs[n]
  BY QueueGrows
<1> HIDE DEF newc, news
<1>3. /\ waits /\ \A n \in 1..Len(qc) : AsksAbout(qc[n], who, o) => n = 1
      /\ \A n \in 1..Len(qs) : ~AnswersAbout(qs[n], who, o)
  BY <1>1 DEF OptionFits
<1>4. \A n \in 1..Len(newc) : ~AsksAbout(newc[n], who, o)
  <2> SUFFICES ASSUME NEW n \in 1..Len(newc) PROVE ~AsksAbout(newc[n], who, o)
    OBVIOUS
  <2>1. n + 1 \in 1..Len(qc) /\ n + 1 # 1
    BY <1>1
  <2> QED BY <1>1, <1>3, <2>1
<1>5. AnswersAbout(m, who, o)
  BY DEF AnswersAbout
<1>6. \A n \in 1..Len(news) : AnswersAbout(news[n], who, o) => n = Len(qs) + 1
  BY <1>2, <1>3
<1>7. Len(qs) + 1 \in 1..Len(news)
  BY <1>2
<1> QED BY <1>2, <1>3, <1>4, <1>5, <1>6, <1>7 DEF OptionFits, newc, news

LEMMA OptionTaken ==
    ASSUME NEW who, NEW o, NEW client \in BOOLEAN, NEW server, NEW takes,
           NEW waits, NEW qc, NEW S, NEW qs \in Seq(S),
           qs # <<>>, AnswersAbout(Head(qs), who, o),
           OptionFits(who, o, client, server, takes, waits, qc, qs)
    PROVE  OptionFits(who, o, client, client, takes, FALSE, qc, Tail(qs))
<1> DEFINE new == Tail(qs)
<1>1. /\ Len(qs) \in Nat \ {0} /\ Len(new) = Len(qs) - 1 /\ Head(qs) = qs[1]
      /\ \A n \in 1..Len(new) : new[n] = qs[n + 1]
  BY QueueShrinks
<1> HIDE DEF new
<1>2. /\ \A n \in 1..Len(qs) : AnswersAbout(qs[n], who, o) => n = 1
      /\ \A n \in 1..Len(qc) : ~AsksAbout(qc[n], who, o)
  BY <1>1 DEF OptionFits
<1>3. \A n \in 1..Len(new) : ~AnswersAbout(new[n], who, o)
  <2> SUFFICES ASSUME NEW n \in 1..Len(new) PROVE ~AnswersAbout(new[n], who, o)
    OBVIOUS
  <2>1. n + 1 \in 1..Len(qs) /\ n + 1 # 1
    BY <1>1
  <2> QED BY <1>1, <1>2, <2>1
<1> QED BY <1>1, <1>2, <1>3 DEF OptionFits, new

\* What is said of one option, when the server does not wait.
LEMMA FreeAskedOther ==
    ASSUME NEW who, NEW o, NEW client, NEW server, NEW takes, NEW S, NEW qc \in Seq(S),
           NEW qs, NEW m \in S, ~AsksAbout(m, who, o),
           FreeFits(who, o, client, server, takes, qc, qs)
    PROVE  FreeFits(who, o, client, server, takes, Append(qc, m), qs)
<1> DEFINE new == Append(qc, m)
<1>1. /\ Len(qc) \in Nat /\ Len(new) = Len(qc) + 1 /\ new[Len(qc) + 1] = m
      /\ \A n \in 1..Len(qc) : new[n] = qc[n]
  BY QueueGrows
<1> HIDE DEF new
<1>2. ASSUME NEW n \in 1..Len(new), AsksAbout(new[n], who, o),
             \A k \in (n + 1)..Len(new) : ~AsksAbout(new[k], who, o)
      PROVE  new[n].verb = AskVerb(who, server)
  <2>1. n \in 1..Len(qc) /\ new[n] = qc[n]
    BY <1>1, <1>2
  <2>2. \A k \in (n + 1)..Len(qc) : ~AsksAbout(qc[k], who, o)
    BY <1>1, <1>2, <2>1
  <2> QED BY <1>2, <2>1, <2>2 DEF FreeFits, SaysLast
<1>3. (\A n \in 1..Len(new) : ~AsksAbout(new[n], who, o))
        => \A n \in 1..Len(qc) : ~AsksAbout(qc[n], who, o)
  BY <1>1
<1> QED BY <1>2, <1>3 DEF FreeFits, SaysLast, SaysNothing, new

LEMMA FreeAnsweredOther ==
    ASSUME NEW who, NEW o, NEW client, NEW server, NEW takes, NEW S, NEW qs \in Seq(S),
           NEW qc, NEW m \in S, ~AnswersAbout(m, who, o),
           FreeFits(who, o, client, server, takes, qc, qs)
    PROVE  FreeFits(who, o, client, server, takes, qc, Append(qs, m))
<1> DEFINE new == Append(qs, m)
<1>1. /\ Len(qs) \in Nat /\ Len(new) = Len(qs) + 1 /\ new[Len(qs) + 1] = m
      /\ \A n \in 1..Len(qs) : new[n] = qs[n]
  BY QueueGrows
<1> HIDE DEF new
<1>2. \A n \in 1..Len(new) : AnswersAbout(new[n], who, o) => n \in 1..Len(qs) /\ new[n] = qs[n]
  BY <1>1
<1>3. \A n \in 1..Len(qs) : n \in 1..Len(new) /\ new[n] = qs[n]
  BY <1>1
<1> QED BY <1>2, <1>3 DEF FreeFits, SaysLast, SaysNothing, new

\* The first message of the server: what becomes of the ones behind it.
LEMMA SaysTail ==
    ASSUME NEW who, NEW o, NEW S, NEW qc \in Seq(S), qc # <<>>, NEW verb,
           SaysLast(qc, who, o, verb)
    PROVE  /\ SaysLast(Tail(qc), who, o, verb)
           /\ SaysNothing(Tail(qc), who, o)
                => IF AsksAbout(Head(qc), who, o) THEN Head(qc).verb = verb
                   ELSE SaysNothing(qc, who, o)
<1> DEFINE new == Tail(qc)
<1>1. /\ Len(qc) \in Nat \ {0} /\ Len(new) = Len(qc) - 1 /\ Head(qc) = qc[1]
      /\ \A n \in 1..Len(new) : new[n] = qc[n + 1]
  BY QueueShrinks
<1> HIDE DEF new
<1>2. \A n \in 2..Len(qc) : n - 1 \in 1..Len(new) /\ qc[n] = new[n - 1]
  BY <1>1
<1>3. ASSUME NEW n \in 1..Len(new), AsksAbout(new[n], who, o),
             \A k \in (n + 1)..Len(new) : ~AsksAbout(new[k], who, o)
      PROVE  new[n].verb = verb
  <2>1. n + 1 \in 1..Len(qc) /\ new[n] = qc[n + 1]
    BY <1>1
  <2>2. ASSUME NEW k \in (n + 1 + 1)..Len(qc) PROVE ~AsksAbout(qc[k], who, o)
    <3>1. k \in 2..Len(qc) /\ k - 1 \in (n + 1)..Len(new)
      BY <1>1
    <3> QED BY <1>2, <1>3, <3>1
  <2> QED BY <1>3, <2>1, <2>2 DEF SaysLast
<1>4. 1 \in 1..Len(qc) /\ \A n \in 1..Len(qc) : n = 1 \/ n \in 2..Len(qc)
  BY <1>1
<1>5. ASSUME SaysNothing(new, who, o)
      PROVE  IF AsksAbout(Head(qc), who, o) THEN Head(qc).verb = verb
             ELSE SaysNothing(qc, who, o)
  <2>1. \A n \in 2..Len(qc) : ~AsksAbout(qc[n], who, o)
    BY <1>2, <1>5 DEF SaysNothing
  <2>2. \A k \in (1 + 1)..Len(qc) : ~AsksAbout(qc[k], who, o)
    BY <2>1
  <2> QED BY <1>1, <1>4, <2>1, <2>2 DEF SaysLast, SaysNothing
<1> QED BY <1>3, <1>5 DEF new, SaysLast

LEMMA FreeHeardOther ==
    ASSUME NEW who, NEW o, NEW client, NEW server, NEW takes, NEW S, NEW qc \in Seq(S),
           NEW qs, qc # <<>>, ~AsksAbout(Head(qc), who, o),
           FreeFits(who, o, client, server, takes, qc, qs)
    PROVE  FreeFits(who, o, client, server, takes, Tail(qc), qs)
<1>1. SaysLast(qc, who, o, AskVerb(who, server))
  BY DEF FreeFits
<1>2. /\ SaysLast(Tail(qc), who, o, AskVerb(who, server))
      /\ SaysNothing(Tail(qc), who, o) => SaysNothing(qc, who, o)
  BY <1>1, SaysTail
<1> QED BY <1>2 DEF FreeFits

LEMMA FreeTakenOther ==
    ASSUME NEW who, NEW o, NEW client, NEW server, NEW takes, NEW S, NEW qs \in Seq(S),
           NEW qc, qs # <<>>, ~AnswersAbout(Head(qs), who, o),
           FreeFits(who, o, client, server, takes, qc, qs)
    PROVE  FreeFits(who, o, client, server, takes, qc, Tail(qs))
<1> DEFINE new == Tail(qs)
<1>1. /\ Len(qs) \in Nat \ {0} /\ Len(new) = Len(qs) - 1 /\ Head(qs) = qs[1]
      /\ \A n \in 1..Len(new) : new[n] = qs[n + 1]
  BY QueueShrinks
<1> HIDE DEF new
<1>2. \A n \in 1..Len(new) : n + 1 \in 1..Len(qs) /\ new[n] = qs[n + 1]
  BY <1>1
<1>3. ASSUME NEW n \in 1..Len(qs), AnswersAbout(qs[n], who, o)
      PROVE  n - 1 \in 1..Len(new) /\ new[n - 1] = qs[n]
  BY <1>1, <1>3
<1>4. (\E n \in 1..Len(qs) : AnswersAbout(qs[n], who, o))
        => \E n \in 1..Len(new) : AnswersAbout(new[n], who, o)
  BY <1>3
<1> QED BY <1>2, <1>4 DEF FreeFits, SaysLast, SaysNothing, new

\* The server says what it has now, as it does whenever that changes.
LEMMA FreeAsked ==
    ASSUME NEW who, NEW o, NEW client, NEW old, NEW server \in BOOLEAN, NEW takes,
           NEW S, NEW qc \in Seq(S), NEW qs, NEW m \in S,
           m.opt = o, m.verb = AskVerb(who, server),
           FreeFits(who, o, client, old, takes, qc, qs)
    PROVE  FreeFits(who, o, client, server, takes, Append(qc, m), qs)
<1> DEFINE new == Append(qc, m)
<1>1. /\ Len(qc) \in Nat /\ Len(new) = Len(qc) + 1 /\ new[Len(qc) + 1] = m
  BY QueueGrows
<1> HIDE DEF new
<1>2. AsksAbout(m, who, o) /\ Len(qc) + 1 \in 1..Len(new)
  BY <1>1 DEF AsksAbout
<1>3. \A n \in 1..Len(new) : n = Len(qc) + 1 \/ Len(qc) + 1 \in (n + 1)..Len(new)
  BY <1>1
<1> QED BY <1>1, <1>2, <1>3 DEF FreeFits, SaysLast, SaysNothing, new

\* The client does what the server's message v asks for, if it takes the option, and
\* answers unless nothing changes.
LEMMA FreeHeard ==
    ASSUME NEW who \in TelnetSides, NEW o, NEW client \in BOOLEAN, NEW server \in BOOLEAN,
           NEW takes \in BOOLEAN, NEW v \in BOOLEAN, NEW S, NEW qc \in Seq(S), NEW qs,
           qc # <<>>, AsksAbout(Head(qc), who, o), Head(qc).verb = AskVerb(who, v),
           FreeFits(who, o, client, server, takes, qc, qs),
           v => takes
    PROVE  FreeFits(who, o, v /\ takes, server, takes, Tail(qc), qs)
<1>1. SaysLast(qc, who, o, AskVerb(who, server))
  BY DEF FreeFits
<1>2. /\ SaysLast(Tail(qc), who, o, AskVerb(who, server))
      /\ SaysNothing(Tail(qc), who, o) => Head(qc).verb = AskVerb(who, server)
  BY <1>1, SaysTail
<1>3. AskVerb(who, v) = AskVerb(who, server) => v = server
  BY DEF AskVerb, TelnetSides
<1> QED BY <1>2, <1>3 DEF FreeFits

LEMMA FreeAnswered ==
    ASSUME NEW who \in TelnetSides, NEW o, NEW client \in BOOLEAN, NEW server \in BOOLEAN,
           NEW takes \in BOOLEAN, NEW v \in BOOLEAN, NEW S, NEW qc \in Seq(S),
           NEW T, NEW qs \in Seq(T), NEW m \in T,
           qc # <<>>, AsksAbout(Head(qc), who, o), Head(qc).verb = AskVerb(who, v),
           m.opt = o, NEW on \in BOOLEAN, on <=> v /\ takes, m.verb = AnswerVerb(who, on),
           FreeFits(who, o, client, server, takes, qc, qs)
    PROVE  FreeFits(who, o, on, server, takes, Tail(qc), Append(qs, m))
<1>1. SaysLast(qc, who, o, AskVerb(who, server))
  BY DEF FreeFits
<1>2. /\ SaysLast(Tail(qc), who, o, AskVerb(who, server))
      /\ SaysNothing(Tail(qc), who, o) => Head(qc).verb = AskVerb(who, server)
  BY <1>1, SaysTail
<1>3. AskVerb(who, v) = AskVerb(who, server) => v = server
  BY DEF AskVerb, TelnetSides
<1> DEFINE new == Append(qs, m)
<1>4. /\ Len(qs) \in Nat /\ Len(new) = Len(qs) + 1 /\ new[Len(qs) + 1] = m
      /\ \A n \in 1..Len(qs) : new[n] = qs[n]
  BY QueueGrows
<1> HIDE DEF new
<1>5. AnswersAbout(m, who, o) /\ Len(qs) + 1 \in 1..Len(new)
  BY <1>4 DEF AnswersAbout
<1>6. ASSUME ~takes, NEW n \in 1..Len(new), AnswersAbout(new[n], who, o)
      PROVE  new[n].verb = AnswerVerb(who, FALSE)
  <2>1. CASE n \in 1..Len(qs)
    BY <1>4, <1>6, <2>1 DEF FreeFits
  <2>2. CASE n = Len(qs) + 1
    <3>1. on = FALSE
      BY <1>6
    <3>2. m.verb = AnswerVerb(who, FALSE)
      BY <3>1, Zenon
    <3> QED BY <1>4, <2>2, <3>2
  <2>3. n \in 1..Len(qs) \/ n = Len(qs) + 1
    BY <1>4
  <2> QED BY <2>1, <2>2, <2>3, Zenon
<1>7. \E n \in 1..Len(new) : AnswersAbout(new[n], who, o)
  BY <1>4, <1>5
<1> QED BY <1>2, <1>3, <1>6, <1>7 DEF FreeFits, SaysLast, SaysNothing, new

\* The server takes the client's message v: it has v then.
LEMMA FreeTaken ==
    ASSUME NEW who \in TelnetSides, NEW o, NEW client \in BOOLEAN, NEW server \in BOOLEAN,
           NEW takes \in BOOLEAN, NEW v \in BOOLEAN, NEW qc, NEW S, NEW qs \in Seq(S),
           qs # <<>>, AnswersAbout(Head(qs), who, o), Head(qs).verb = AnswerVerb(who, v),
           v = server, FreeFits(who, o, client, server, takes, qc, qs)
    PROVE  FreeFits(who, o, client, server, takes, qc, Tail(qs))
<1> DEFINE new == Tail(qs)
<1>1. /\ Len(qs) \in Nat \ {0} /\ Len(new) = Len(qs) - 1 /\ Head(qs) = qs[1]
      /\ \A n \in 1..Len(new) : new[n] = qs[n + 1]
  BY QueueShrinks
<1> HIDE DEF new
<1>2. \A n \in 1..Len(new) : n + 1 \in 1..Len(qs) /\ new[n] = qs[n + 1]
  BY <1>1
<1>3. ~takes => ~server
  <2>1. 1 \in 1..Len(qs)
    BY <1>1
  <2>2. ~takes => Head(qs).verb = AnswerVerb(who, FALSE)
    BY <1>1, <2>1 DEF FreeFits
  <2> QED BY <2>2 DEF AnswerVerb, TelnetSides
<1>4. ~takes => \A n \in 1..Len(new) :
                  AnswersAbout(new[n], who, o) => new[n].verb = AnswerVerb(who, FALSE)
  BY <1>2 DEF FreeFits
<1>5. SaysNothing(qc, who, o) => client = server
  BY <1>3 DEF FreeFits
<1>6. SaysLast(qc, who, o, AskVerb(who, server)) /\ (client => takes)
  BY DEF FreeFits
<1> QED BY <1>4, <1>5, <1>6 DEF FreeFits, new

\* ... and says so, if that changes what it has.
LEMMA FreeTold ==
    ASSUME NEW who \in TelnetSides, NEW o, NEW client \in BOOLEAN, NEW server \in BOOLEAN,
           NEW takes \in BOOLEAN, NEW v \in BOOLEAN,
           NEW T, NEW qc \in Seq(T), NEW m \in T, m.opt = o, m.verb = AskVerb(who, v),
           NEW S, NEW qs \in Seq(S), qs # <<>>,
           FreeFits(who, o, client, server, takes, qc, qs)
    PROVE  FreeFits(who, o, client, v, takes, Append(qc, m), Tail(qs))
<1> DEFINE newc == Append(qc, m)
           news == Tail(qs)
<1>1. /\ Len(qc) \in Nat /\ Len(newc) = Len(qc) + 1 /\ newc[Len(qc) + 1] = m
  BY QueueGrows
<1>2. /\ Len(qs) \in Nat \ {0} /\ Len(news) = Len(qs) - 1
      /\ \A n \in 1..Len(news) : news[n] = qs[n + 1]
  BY QueueShrinks
<1> HIDE DEF newc, news
<1>3. AsksAbout(m, who, o) /\ Len(qc) + 1 \in 1..Len(newc)
  BY <1>1 DEF AsksAbout
<1>4. \A n \in 1..Len(newc) : n = Len(qc) + 1 \/ Len(qc) + 1 \in (n + 1)..Len(newc)
  BY <1>1
<1>5. \A n \in 1..Len(news) : n + 1 \in 1..Len(qs) /\ news[n] = qs[n + 1]
  BY <1>2
<1>6. ~takes => \A n \in 1..Len(news) :
                  AnswersAbout(news[n], who, o) => news[n].verb = AnswerVerb(who, FALSE)
  BY <1>5 DEF FreeFits
<1>7. /\ \A n \in 1..Len(newc) :
           AsksAbout(newc[n], who, o) /\ (\A k \in (n + 1)..Len(newc) : ~AsksAbout(newc[k], who, o))
             => newc[n].verb = AskVerb(who, v)
      /\ \E n \in 1..Len(newc) : AsksAbout(newc[n], who, o)
  BY <1>1, <1>3, <1>4
<1>8. client => takes
  BY DEF FreeFits
<1> QED BY <1>6, <1>7, <1>8 DEF FreeFits, SaysLast, SaysNothing, newc, news

\* The same for either kind of server.
LEMMA AskedOther ==
    ASSUME NEW who, NEW o, NEW client, NEW server, NEW takes, NEW waits, NEW S, NEW qc \in Seq(S),
           NEW qs, NEW m \in S, ~AsksAbout(m, who, o),
           Fits(who, o, client, server, takes, waits, qc, qs)
    PROVE  Fits(who, o, client, server, takes, waits, Append(qc, m), qs)
<1>1. CASE Patient
  BY <1>1, OptionAskedOther DEF Fits
<1>2. CASE ~Patient
  BY <1>2, FreeAskedOther DEF Fits
<1> QED BY <1>1, <1>2

LEMMA AnsweredOther ==
    ASSUME NEW who, NEW o, NEW client, NEW server, NEW takes, NEW waits, NEW S, NEW qs \in Seq(S),
           NEW qc, NEW m \in S, ~AnswersAbout(m, who, o),
           Fits(who, o, client, server, takes, waits, qc, qs)
    PROVE  Fits(who, o, client, server, takes, waits, qc, Append(qs, m))
<1>1. CASE Patient
  BY <1>1, OptionAnsweredOther DEF Fits
<1>2. CASE ~Patient
  BY <1>2, FreeAnsweredOther DEF Fits
<1> QED BY <1>1, <1>2

LEMMA HeardOther ==
    ASSUME NEW who, NEW o, NEW client, NEW server, NEW takes, NEW waits, NEW S, NEW qc \in Seq(S),
           NEW qs, qc # <<>>, ~AsksAbout(Head(qc), who, o),
           Fits(who, o, client, server, takes, waits, qc, qs)
    PROVE  Fits(who, o, client, server, takes, waits, Tail(qc), qs)
<1>1. CASE Patient
  BY <1>1, OptionHeardOther DEF Fits
<1>2. CASE ~Patient
  BY <1>2, FreeHeardOther DEF Fits
<1> QED BY <1>1, <1>2

LEMMA TakenOther ==
    ASSUME NEW who, NEW o, NEW client, NEW server, NEW takes, NEW waits, NEW S, NEW qs \in Seq(S),
           NEW qc, qs # <<>>, ~AnswersAbout(Head(qs), who, o),
           Fits(who, o, client, server, takes, waits, qc, qs)
    PROVE  Fits(who, o, client, server, takes, waits, qc, Tail(qs))
<1>1. CASE Patient
  BY <1>1, OptionTakenOther DEF Fits
<1>2. CASE ~Patient
  BY <1>2, FreeTakenOther DEF Fits
<1> QED BY <1>1, <1>2

\* The server changes what it has and says so; one that waits, if it does not yet.
LEMMA Asked ==
    ASSUME NEW who, NEW o, NEW client, NEW server \in BOOLEAN, NEW takes, NEW waits \in BOOLEAN,
           NEW S, NEW qc \in Seq(S), NEW qs, NEW m \in S,
           NEW new \in BOOLEAN, new # server, m.opt = o, m.verb = AskVerb(who, new),
           Patient => ~waits, NEW waiting \in BOOLEAN, waiting <=> Patient,
           Fits(who, o, client, server, takes, waits, qc, qs)
    PROVE  Fits(who, o, client, new, takes, waiting, Append(qc, m), qs)
<1>1. CASE Patient
  <2>1. waits = FALSE /\ waiting = TRUE /\ new = ~server
    BY <1>1
  <2>2. OptionFits(who, o, client, server, takes, FALSE, qc, qs)
    BY <1>1, <2>1 DEF Fits
  <2>3. OptionFits(who, o, client, ~server, takes, TRUE, Append(qc, m), qs)
    BY <2>1, <2>2, OptionAsked
  <2>4. Fits(who, o, client, ~server, takes, TRUE, Append(qc, m), qs)
    BY <1>1, <2>3 DEF Fits
  <2> QED BY <2>1, <2>4
<1>2. CASE ~Patient
  <2>1. ~waiting /\ FreeFits(who, o, client, server, takes, qc, qs)
    BY <1>2 DEF Fits
  <2>2. FreeFits(who, o, client, new, takes, Append(qc, m), qs)
    BY <2>1, FreeAsked
  <2> QED BY <1>2, <2>1, <2>2 DEF Fits
<1> QED BY <1>1, <1>2

\* The client hears the question v.
LEMMA HeardSame ==
    ASSUME NEW who \in TelnetSides, NEW o, NEW client \in BOOLEAN, NEW server \in BOOLEAN,
           NEW takes \in BOOLEAN, NEW waits, NEW v \in BOOLEAN, NEW S, NEW qc \in Seq(S), NEW qs,
           qc # <<>>, AsksAbout(Head(qc), who, o), Head(qc).verb = AskVerb(who, v), v = client,
           Fits(who, o, client, server, takes, waits, qc, qs)
    PROVE  Fits(who, o, client, server, takes, waits, Tail(qc), qs)
<1>1. CASE Patient
  <2>1. Head(qc) = qc[1] /\ 1 \in 1..Len(qc)
    BY QueueShrinks
  <2>2. client # server /\ Head(qc).verb = AskVerb(who, server)
    BY <1>1, <2>1 DEF Fits, OptionFits
  <2> QED BY <2>2 DEF AskVerb, TelnetSides
<1>2. CASE ~Patient
  <2>1. FreeFits(who, o, client, server, takes, qc, qs) /\ (client => takes)
    BY <1>2 DEF Fits, FreeFits
  <2>2. FreeFits(who, o, v /\ takes, server, takes, Tail(qc), qs)
    BY <2>1, FreeHeard
  <2>3. (v /\ takes) = client
    BY <2>1
  <2> QED BY <1>2, <2>2, <2>3 DEF Fits
<1> QED BY <1>1, <1>2

LEMMA HeardNew ==
    ASSUME NEW who \in TelnetSides, NEW o, NEW client \in BOOLEAN, NEW server \in BOOLEAN,
           NEW takes \in BOOLEAN, NEW waits, NEW v \in BOOLEAN, NEW S, NEW qc \in Seq(S),
           NEW T, NEW qs \in Seq(T), NEW m \in T,
           qc # <<>>, AsksAbout(Head(qc), who, o), Head(qc).verb = AskVerb(who, v),
           m.opt = o, NEW on \in BOOLEAN, on <=> v /\ takes, m.verb = AnswerVerb(who, on),
           Fits(who, o, client, server, takes, waits, qc, qs)
    PROVE  Fits(who, o, on, server, takes, waits, Tail(qc), Append(qs, m))
<1>1. CASE Patient
  <2>1. Head(qc) = qc[1] /\ 1 \in 1..Len(qc)
    BY QueueShrinks
  <2>2. Head(qc).verb = AskVerb(who, server)
    BY <1>1, <2>1 DEF Fits, OptionFits
  <2>3. v = server
    BY <2>2 DEF AskVerb, TelnetSides
  <2>4. OptionFits(who, o, on, server, takes, waits, Tail(qc), Append(qs, m))
    BY <1>1, <2>3, OptionAnswered DEF Fits
  <2> QED BY <1>1, <2>3, <2>4 DEF Fits
<1>2. CASE ~Patient
  BY <1>2, FreeAnswered DEF Fits
<1> QED BY <1>1, <1>2

\* The server takes the client's message v, and says nothing, or what it has now.
LEMMA TakenSame ==
    ASSUME NEW who \in TelnetSides, NEW o, NEW client \in BOOLEAN, NEW server \in BOOLEAN,
           NEW takes \in BOOLEAN, NEW waits \in BOOLEAN, NEW v \in BOOLEAN,
           NEW qc, NEW S, NEW qs \in Seq(S), qs # <<>>, AnswersAbout(Head(qs), who, o),
           Head(qs).verb = AnswerVerb(who, v), waits \/ v = server, NEW now \in BOOLEAN, ~now,
           Fits(who, o, client, server, takes, waits, qc, qs)
    PROVE  Fits(who, o, client, v, takes, now, qc, Tail(qs))
<1>1. CASE Patient
  <2>1. Head(qs) = qs[1] /\ 1 \in 1..Len(qs)
    BY QueueShrinks
  <2>2. OptionFits(who, o, client, server, takes, waits, qc, qs)
    BY <1>1 DEF Fits
  <2>3. Head(qs).verb = AnswerVerb(who, client)
    BY <2>1, <2>2 DEF OptionFits
  <2>4. v = client
    BY <2>3 DEF AnswerVerb, TelnetSides
  <2>5. OptionFits(who, o, client, client, takes, FALSE, qc, Tail(qs))
    BY <2>2, OptionTaken
  <2>6. now = FALSE
    OBVIOUS
  <2> QED BY <1>1, <2>4, <2>5, <2>6 DEF Fits
<1>2. CASE ~Patient
  <2>1. v = server /\ FreeFits(who, o, client, server, takes, qc, qs)
    BY <1>2 DEF Fits
  <2> QED BY <1>2, <2>1, FreeTaken DEF Fits
<1> QED BY <1>1, <1>2

LEMMA TakenNew ==
    ASSUME NEW who \in TelnetSides, NEW o, NEW client \in BOOLEAN, NEW server \in BOOLEAN,
           NEW takes \in BOOLEAN, NEW v \in BOOLEAN, NEW waits \in BOOLEAN, ~waits,
           NEW T, NEW qc \in Seq(T), NEW m \in T, m.opt = o, m.verb = AskVerb(who, v),
           NEW S, NEW qs \in Seq(S), qs # <<>>, AnswersAbout(Head(qs), who, o),
           Fits(who, o, client, server, takes, waits, qc, qs)
    PROVE  Fits(who, o, client, v, takes, waits, Append(qc, m), Tail(qs))
<1>1. CASE Patient
  <2>1. Head(qs) = qs[1] /\ 1 \in 1..Len(qs)
    BY QueueShrinks
  <2> QED BY <1>1, <2>1 DEF Fits, OptionFits
<1>2. CASE ~Patient
  <2>1. FreeFits(who, o, client, server, takes, qc, qs)
    BY <1>2 DEF Fits
  <2>2. FreeFits(who, o, client, v, takes, Append(qc, m), Tail(qs))
    BY <2>1, FreeTold
  <2> QED BY <1>2, <2>2 DEF Fits
<1> QED BY <1>1, <1>2


\* The size on its way to the server.
LEMMA SizeSoonSent ==
    ASSUME NEW S, NEW q \in Seq(S), NEW m \in S, NEW now, NEW last, SizeSoon(q, now, last)
    PROVE  SizeSoon(Append(q, m), now, IF m.verb = "size" THEN m.opt ELSE last)
<1> DEFINE new == Append(q, m)
<1>1. /\ Len(q) \in Nat /\ Len(new) = Len(q) + 1 /\ new[Len(q) + 1] = m
      /\ \A n \in 1..Len(q) : new[n] = q[n]
  BY QueueGrows
<1> HIDE DEF new
<1>2. CASE m.verb = "size"
  <2>1. Len(q) + 1 \in 1..Len(new) /\ (Len(q) + 2)..Len(new) = {}
    BY <1>1
  <2> QED BY <1>1, <1>2, <2>1 DEF SizeSoon, new
<1>3. CASE m.verb # "size"
  <2>1. CASE now = last /\ \A n \in 1..Len(q) : q[n].verb # "size"
    BY <1>1, <1>3, <2>1 DEF SizeSoon, new
  <2>2. CASE \E n \in 1..Len(q) : /\ q[n].verb = "size" /\ q[n].opt = last
                                  /\ \A k \in (n + 1)..Len(q) : q[k].verb # "size"
    <3>1. PICK n \in 1..Len(q) : /\ q[n].verb = "size" /\ q[n].opt = last
                                 /\ \A k \in (n + 1)..Len(q) : q[k].verb # "size"
      BY <2>2
    <3>2. /\ n \in 1..Len(new) /\ new[n] = q[n]
          /\ \A k \in (n + 1)..Len(new) : new[k].verb # "size"
      BY <1>1, <1>3, <3>1
    <3> QED BY <1>3, <3>1, <3>2 DEF SizeSoon, new
  <2> QED BY <2>1, <2>2 DEF SizeSoon
<1> QED BY <1>2, <1>3

LEMMA SizeSoonSaid ==
    ASSUME NEW S, NEW q \in Seq(S), NEW m \in S, NEW now, m.verb = "size"
    PROVE  SizeSoon(Append(q, m), now, m.opt)
<1> DEFINE new == Append(q, m)
<1>1. Len(q) \in Nat /\ Len(new) = Len(q) + 1 /\ new[Len(q) + 1] = m
  BY QueueGrows
<1> HIDE DEF new
<1>2. Len(q) + 1 \in 1..Len(new) /\ \A k \in (Len(q) + 1 + 1)..Len(new) : new[k].verb # "size"
  BY <1>1
<1> QED BY <1>1, <1>2 DEF SizeSoon, new

LEMMA SizeSoonTaken ==
    ASSUME NEW S, NEW q \in Seq(S), q # <<>>, NEW now, NEW last, SizeSoon(q, now, last)
    PROVE  SizeSoon(Tail(q), IF Head(q).verb = "size" THEN Head(q).opt ELSE now, last)
<1> DEFINE new == Tail(q)
<1>1. /\ Len(q) \in Nat \ {0} /\ Len(new) = Len(q) - 1 /\ Head(q) = q[1]
      /\ \A n \in 1..Len(new) : new[n] = q[n + 1]
  BY QueueShrinks
<1> HIDE DEF new
<1>2. CASE now = last /\ \A n \in 1..Len(q) : q[n].verb # "size"
  <2>1. Head(q).verb # "size"
    BY <1>1, <1>2
  <2>2. \A n \in 1..Len(new) : new[n].verb # "size"
    <3> SUFFICES ASSUME NEW n \in 1..Len(new) PROVE new[n].verb # "size"
      OBVIOUS
    <3>1. n + 1 \in 1..Len(q)
      BY <1>1
    <3> QED BY <1>1, <1>2, <3>1
  <2> QED BY <1>2, <2>1, <2>2 DEF SizeSoon, new
<1>3. CASE \E n \in 1..Len(q) : /\ q[n].verb = "size" /\ q[n].opt = last
                                /\ \A k \in (n + 1)..Len(q) : q[k].verb # "size"
  <2>1. PICK n \in 1..Len(q) : /\ q[n].verb = "size" /\ q[n].opt = last
                               /\ \A k \in (n + 1)..Len(q) : q[k].verb # "size"
    BY <1>3
  <2>2. ASSUME NEW k \in n..Len(new), k \in 1..Len(new) PROVE new[k].verb # "size"
    <3>1. k + 1 \in (n + 1)..Len(q)
      BY <1>1, <2>2
    <3> QED BY <1>1, <2>1, <2>2, <3>1
  <2>3. CASE n = 1
    <3>1. \A k \in 1..Len(new) : new[k].verb # "size"
      BY <2>2, <2>3
    <3> QED BY <1>1, <2>1, <2>3, <3>1 DEF SizeSoon, new
  <2>4. CASE n # 1
    <3>1. n - 1 \in 1..Len(new) /\ new[n - 1] = q[n]
      BY <1>1, <2>4
    <3>2. \A k \in ((n - 1) + 1)..Len(new) : new[k].verb # "size"
      BY <1>1, <2>2
    <3> QED BY <2>1, <3>1, <3>2 DEF SizeSoon, new
  <2> QED BY <2>3, <2>4
<1> QED BY <1>2, <1>3 DEF SizeSoon

\* The verbs say which side a message is about.
LEMMA TelnetVerbs ==
    /\ \A m, o : \A who \in TelnetSides :
         /\ AsksAbout(m, who, o) <=>
              m.opt = o /\ m.verb \in IF who = "own" THEN {"will", "wont"} ELSE {"do", "dont"}
         /\ AnswersAbout(m, who, o) <=>
              m.opt = o /\ m.verb \in IF who = "own" THEN {"do", "dont"} ELSE {"will", "wont"}
    /\ \A who \in TelnetSides : /\ AskVerb(who, TRUE) # AskVerb(who, FALSE)
                                 /\ AnswerVerb(who, TRUE) # AnswerVerb(who, FALSE)
BY DEF AsksAbout, AnswersAbout, AskVerb, AnswerVerb, TelnetSides

\* Nvt::negotiate: what the server asks of an option is done if the client takes it, and
\* answered if that is a change or a refusal; the others are left alone.
LEMMA TelnetReceives == ASSUME TelnetInv, Telnet!Receive PROVE TelnetInv'
<1>a. PICK m : m = Head(toClient)
  OBVIOUS
<1>b. PICK who : who = IF m.verb \in {"will", "wont"} THEN "own" ELSE "peer"
  OBVIOUS
<1> DEFINE o == m.opt
<1>1. /\ toClient \in Seq(FromServer) /\ toClient # <<>> /\ toClient' = Tail(toClient)
      /\ toServer \in Seq(FromClient) /\ TelnetTypes
      /\ UNCHANGED <<commands, size, sOwn, sPeer, sWaits, sSize, asked, resizes>>
  BY DEF Telnet!Receive, Telnet!server, TelnetInv, TelnetTypes
<1>2. /\ m \in FromServer /\ m = toClient[1] /\ 1 \in 1..Len(toClient)
      /\ toClient' \in Seq(FromServer) /\ who \in TelnetSides /\ o \in Telnet!Options
  <2>1. m \in FromServer /\ m = toClient[1] /\ 1 \in 1..Len(toClient)
        /\ toClient' \in Seq(FromServer)
    BY <1>1, <1>a, QueueShrinks
  <2>2. who \in TelnetSides /\ o \in Telnet!Options
    BY <1>b, <2>1 DEF FromServer, TelnetSides
  <2> QED BY <2>1, <2>2
<1>3. AsksAbout(m, who, o)
  BY <1>2, <1>b, TelnetVerbs DEF FromServer
<1>c. PICK v \in BOOLEAN : m.verb = AskVerb(who, v)
  BY <1>3 DEF AsksAbout
<1>d. PICK client \in BOOLEAN, takes \in BOOLEAN, on \in BOOLEAN :
        /\ client <=> o \in ClientHas(who)
        /\ takes <=> o \in ClientTakes(who)
        /\ on <=> v /\ takes
  OBVIOUS
<1> DEFINE answer == Telnet!Msg(AnswerVerb(who, on), o)
           more == who = "peer" /\ on /\ o = "naws"
<1>4. client => takes
  <2>1. OptionOK(who, o)
    BY <1>2 DEF TelnetInv
  <2> QED BY <1>d, <2>1 DEF OptionOK, Fits, OptionFits, FreeFits
<1>5. /\ ClientHas(who)' = IF on THEN ClientHas(who) \cup {o} ELSE ClientHas(who) \ {o}
      /\ \A s \in TelnetSides : s # who => ClientHas(s)' = ClientHas(s)
      /\ toServer' = IF client = v THEN toServer
                     ELSE IF more THEN Append(Append(toServer, answer), Telnet!Size(size))
                     ELSE Append(toServer, answer)
  <2>1. Telnet!Negotiate(m)
    BY <1>a DEF Telnet!Receive
  <2>2. CASE m.verb = "will"
    <3>1. who = "own" /\ v /\ (client <=> o \in theirs) /\ (takes <=> o \in Telnet!Theirs)
      BY <1>b, <1>c, <1>d, <2>2 DEF AskVerb, ClientHas, ClientTakes
    <3>2. /\ theirs' = IF takes THEN theirs \cup {o} ELSE theirs
          /\ UNCHANGED ours
          /\ toServer' = IF ~takes THEN Append(toServer, Telnet!Msg("dont", o))
                         ELSE IF ~client THEN Append(toServer, Telnet!Msg("do", o))
                         ELSE toServer
      BY <2>1, <2>2, <3>1 DEF Telnet!Negotiate
    <3>3. answer = Telnet!Msg(IF takes THEN "do" ELSE "dont", o) /\ (on <=> takes)
      BY <1>d, <3>1 DEF AnswerVerb
    <3>4. ClientHas(who)' = IF on THEN ClientHas(who) \cup {o} ELSE ClientHas(who) \ {o}
      BY <1>4, <3>1, <3>2, <3>3 DEF ClientHas
    <3>5. \A s \in TelnetSides : s # who => ClientHas(s)' = ClientHas(s)
      BY <3>1, <3>2 DEF ClientHas, TelnetSides
    <3>6. toServer' = IF client = v THEN toServer ELSE Append(toServer, answer)
      BY <1>4, <3>1, <3>2, <3>3
    <3> QED BY <3>1, <3>4, <3>5, <3>6
  <2>3. CASE m.verb = "wont"
    <3>1. who = "own" /\ ~v /\ (client <=> o \in theirs) /\ ~on
      BY <1>b, <1>c, <1>d, <2>3 DEF AskVerb, ClientHas
    <3>2. /\ theirs' = theirs \ {o} /\ UNCHANGED ours
          /\ toServer' = IF client THEN Append(toServer, Telnet!Msg("dont", o)) ELSE toServer
      BY <2>1, <2>3, <3>1 DEF Telnet!Negotiate
    <3>3. answer = Telnet!Msg("dont", o)
      BY <3>1 DEF AnswerVerb
    <3> QED BY <3>1, <3>2, <3>3 DEF ClientHas, TelnetSides
  <2>4. CASE m.verb = "do"
    <3>1. who = "peer" /\ v /\ (client <=> o \in ours) /\ (takes <=> o \in Telnet!Ours)
      BY <1>b, <1>c, <1>d, <2>4 DEF AskVerb, ClientHas, ClientTakes
    <3>2. /\ UNCHANGED theirs
          /\ ours' = IF takes THEN ours \cup {o} ELSE ours
          /\ toServer' =
               IF ~takes THEN Append(toServer, Telnet!Msg("wont", o))
               ELSE IF client THEN toServer
               ELSE Append(toServer, Telnet!Msg("will", o))
                      \o (IF o = "naws" THEN <<Telnet!Size(size)>> ELSE <<>>)
      BY <2>1, <2>4, <3>1 DEF Telnet!Negotiate
    <3>3. answer = Telnet!Msg(IF takes THEN "will" ELSE "wont", o) /\ (on <=> takes)
      BY <1>d, <3>1 DEF AnswerVerb
    <3>4. ClientHas(who)' = IF on THEN ClientHas(who) \cup {o} ELSE ClientHas(who) \ {o}
      BY <1>4, <3>1, <3>2, <3>3 DEF ClientHas
    <3>5. \A s \in TelnetSides : s # who => ClientHas(s)' = ClientHas(s)
      BY <3>1, <3>2 DEF ClientHas, TelnetSides
    <3>6. Telnet!Msg("will", o) \in FromClient /\ Telnet!Size(size) \in FromClient
      BY <1>1, <1>2 DEF Telnet!Msg, Telnet!Size, FromClient, FromServer, TelnetTypes
    <3>7. /\ Append(toServer, Telnet!Msg("will", o)) \o <<>>
               = Append(toServer, Telnet!Msg("will", o))
          /\ Append(toServer, Telnet!Msg("will", o)) \o <<Telnet!Size(size)>>
               = Append(Append(toServer, Telnet!Msg("will", o)), Telnet!Size(size))
      BY <1>1, <3>6
    <3>8. CASE takes
      <4>1. answer = Telnet!Msg("will", o) /\ (more <=> o = "naws")
        BY <3>1, <3>3, <3>8
      <4> QED BY <3>1, <3>2, <3>4, <3>5, <3>7, <3>8, <4>1
    <3>9. CASE ~takes
      <4>1. answer = Telnet!Msg("wont", o) /\ ~more /\ client # v
        BY <1>4, <3>1, <3>3, <3>9
      <4> QED BY <3>2, <3>4, <3>5, <3>9, <4>1
    <3> QED BY <3>8, <3>9
  <2>5. CASE m.verb = "dont"
    <3>1. who = "peer" /\ ~v /\ (client <=> o \in ours) /\ ~on
      BY <1>b, <1>c, <1>d, <2>5 DEF AskVerb, ClientHas
    <3>2. /\ ours' = ours \ {o} /\ UNCHANGED theirs
          /\ toServer' = IF client THEN Append(toServer, Telnet!Msg("wont", o)) ELSE toServer
      BY <2>1, <2>5, <3>1 DEF Telnet!Negotiate
    <3>3. answer = Telnet!Msg("wont", o)
      BY <3>1 DEF AnswerVerb
    <3> QED BY <3>1, <3>2, <3>3 DEF ClientHas, TelnetSides
  <2> QED BY <1>2, <2>2, <2>3, <2>4, <2>5 DEF FromServer
<1>6. /\ answer \in FromClient /\ Telnet!Size(size) \in FromClient
      /\ answer.verb = AnswerVerb(who, on) /\ answer.opt = o /\ answer.verb # "size"
      /\ Telnet!Size(size).verb = "size" /\ Telnet!Size(size).opt = size
  BY <1>1, <1>2 DEF AnswerVerb, TelnetSides, Telnet!Msg, Telnet!Size, FromClient, FromServer,
     TelnetTypes
<1> HIDE DEF answer
<1>7. Append(toServer, answer) \in Seq(FromClient) /\ toServer' \in Seq(FromClient)
  <2>1. Append(toServer, answer) \in Seq(FromClient)
    BY <1>1, <1>6, QueueGrows
  <2>2. Append(Append(toServer, answer), Telnet!Size(size)) \in Seq(FromClient)
    BY <1>6, <2>1, QueueGrows
  <2> QED BY <1>1, <1>5, <2>1, <2>2
<1>8. \A p : \A s \in TelnetSides : ~AnswersAbout(Telnet!Size(size), s, p)
  BY <1>6, TelnetVerbs DEF TelnetSides
<1>9. ASSUME NEW s \in TelnetSides, NEW p \in Telnet!Options PROVE OptionOK(s, p)'
  <2>1. OptionOK(s, p)
    BY DEF TelnetInv
  <2>2. PICK old \in BOOLEAN, server \in BOOLEAN, does \in BOOLEAN, waits \in BOOLEAN :
          /\ old <=> p \in ClientHas(s)
          /\ server <=> p \in ServerHas(s)
          /\ does <=> p \in ClientTakes(s)
          /\ waits <=> <<s, p>> \in sWaits
    OBVIOUS
  <2>3. Fits(s, p, old, server, does, waits, toClient, toServer)
    BY <2>1, <2>2 DEF OptionOK
  <2>4. PICK new \in BOOLEAN : new <=> p \in ClientHas(s)'
    OBVIOUS
  <2>5. Fits(s, p, new, server, does, waits, Tail(toClient), toServer')
    <3>1. CASE s = who /\ p = o
      <4>1. old = client /\ does = takes /\ (new <=> on)
        BY <1>5, <1>d, <2>2, <2>4, <3>1
      <4>2. AsksAbout(Head(toClient), s, p) /\ Head(toClient).verb = AskVerb(s, v)
        BY <1>3, <1>a, <1>c, <3>1
      <4>3. CASE client = v
        <5>1. new = old /\ UNCHANGED toServer
          BY <1>4, <1>5, <1>d, <4>1, <4>3
        <5>2. Fits(s, p, old, server, does, waits, Tail(toClient), toServer)
          BY <1>1, <2>3, <4>1, <4>2, <4>3, HeardSame
        <5> QED BY <5>1, <5>2
      <4>4. CASE client # v
        <5>1. answer.opt = p /\ answer.verb = AnswerVerb(s, new) /\ (new <=> v /\ does)
          <6>1. new = on
            BY <4>1
          <6> QED BY <1>6, <1>d, <3>1, <4>1, <6>1
        <5>2. Fits(s, p, new, server, does, waits, Tail(toClient), Append(toServer, answer))
          BY <1>1, <1>6, <2>3, <4>2, <5>1, HeardNew
        <5>3. CASE more
          BY <1>5, <1>6, <1>7, <1>8, <4>4, <5>2, <5>3, AnsweredOther
        <5>4. CASE ~more
          BY <1>5, <4>4, <5>2, <5>4
        <5> QED BY <5>3, <5>4
      <4> QED BY <4>3, <4>4
    <3>2. CASE ~(s = who /\ p = o)
      <4>1. ~AsksAbout(m, s, p) /\ ~AnswersAbout(answer, s, p)
        BY <1>2, <1>3, <1>6, <3>2, TelnetVerbs DEF TelnetSides, AnswerVerb
      <4>2. new = old
        BY <1>5, <2>2, <2>4, <3>2
      <4>3. Fits(s, p, old, server, does, waits, Tail(toClient), toServer)
        BY <1>1, <1>a, <2>3, <4>1, HeardOther
      <4>4. Fits(s, p, old, server, does, waits, Tail(toClient), Append(toServer, answer))
        BY <1>1, <1>6, <4>1, <4>3, AnsweredOther
      <4>5. Fits(s, p, old, server, does, waits, Tail(toClient),
                 Append(Append(toServer, answer), Telnet!Size(size)))
        BY <1>6, <1>7, <1>8, <4>4, AnsweredOther
      <4>6. Fits(s, p, old, server, does, waits, Tail(toClient), toServer')
        BY <1>5, <4>3, <4>4, <4>5
      <4> QED BY <4>2, <4>6
    <3> QED BY <3>1, <3>2
  <2> QED BY <1>1, <2>2, <2>4, <2>5 DEF OptionOK, ServerHas, ClientTakes
<1>10. ASSUME "naws" \in ours' PROVE SizeSoon(toServer', sSize', size')
  <2>1. CASE client # v /\ more
    BY <1>1, <1>5, <1>6, <1>7, <2>1, SizeSoonSaid
  <2>2. CASE client = v \/ ~more
    <3>1. "naws" \in ours
      <4>1. CASE who = "peer"
        <5>1. on /\ o = "naws" => client
          BY <1>d, <2>2, <4>1
        <5>2. /\ ours' = IF on THEN ours \cup {o} ELSE ours \ {o}
              /\ client <=> o \in ours
          BY <1>5, <1>d, <4>1 DEF ClientHas
        <5> QED BY <1>10, <5>1, <5>2
      <4>2. CASE who = "own"
        BY <1>5, <1>10, <4>2 DEF ClientHas, TelnetSides
      <4> QED BY <1>2, <4>1, <4>2 DEF TelnetSides
    <3>2. SizeSoon(toServer, sSize, size)
      BY <3>1 DEF TelnetInv
    <3>3. toServer' = toServer \/ toServer' = Append(toServer, answer)
      BY <1>5, <2>2
    <3> QED BY <1>1, <1>6, <3>2, <3>3, SizeSoonSent
  <2> QED BY <2>1, <2>2
<1>11. TelnetTypes'
  <2>1. theirs' \subseteq Telnet!Options /\ ours' \subseteq Telnet!Options
    BY <1>1, <1>2, <1>5 DEF ClientHas, TelnetSides, TelnetTypes
  <2> QED BY <1>1, <1>2, <1>7, <2>1 DEF TelnetTypes
<1>12. SizeComing(commands, size, asked)' /\ pc' # "connect"
  BY <1>1 DEF TelnetInv, SizeComing, NoResize, Telnet!Receive
<1> QED BY <1>9, <1>10, <1>11, <1>12 DEF TelnetInv

\* The server asks about an option; one that waits, about one it has no question out for.
LEMMA TelnetServerStarts ==
    ASSUME TelnetInv, NEW who \in TelnetSides, NEW o \in Telnet!Options,
           Telnet!ServerStarts(who, o)
    PROVE  TelnetInv'
<1> DEFINE has == o \in ServerHas(who)
           m == Telnet!Msg(AskVerb(who, ~has), o)
<1>1. /\ Patient => <<who, o>> \notin sWaits
      /\ sWaits' = IF Patient THEN sWaits \cup {<<who, o>>} ELSE sWaits
      /\ UNCHANGED <<commands, size, ours, theirs, toServer, sSize, asked, resizes>>
  BY DEF Telnet!ServerStarts, Telnet!nvt
<1>2. /\ ServerHas(who)' = IF has THEN ServerHas(who) \ {o} ELSE ServerHas(who) \cup {o}
      /\ \A s \in TelnetSides : s # who => ServerHas(s)' = ServerHas(s)
      /\ toClient' = Append(toClient, m)
  BY DEF Telnet!ServerStarts, Telnet!Toggle, ServerHas, AskVerb, TelnetSides
<1>3. m \in FromServer /\ m.opt = o /\ m.verb = AskVerb(who, ~has)
  BY DEF Telnet!Msg, FromServer, AskVerb
<1>4. toClient \in Seq(FromServer) /\ toClient' \in Seq(FromServer) /\ TelnetTypes
  BY <1>2, <1>3, QueueGrows DEF TelnetInv, TelnetTypes
<1> HIDE DEF m
<1>5. ASSUME NEW s \in TelnetSides, NEW p \in Telnet!Options PROVE OptionOK(s, p)'
  <2>1. OptionOK(s, p)
    BY DEF TelnetInv
  <2>2. PICK client \in BOOLEAN, old \in BOOLEAN, takes \in BOOLEAN, waits \in BOOLEAN :
          /\ client <=> p \in ClientHas(s)
          /\ old <=> p \in ServerHas(s)
          /\ takes <=> p \in ClientTakes(s)
          /\ waits <=> <<s, p>> \in sWaits
    OBVIOUS
  <2>3. Fits(s, p, client, old, takes, waits, toClient, toServer)
    BY <2>1, <2>2 DEF OptionOK
  <2>4. client = (p \in ClientHas(s)') /\ takes = (p \in ClientTakes(s)')
    BY <1>1, <2>2 DEF ClientHas, ClientTakes
  <2>5. CASE s = who /\ p = o
    <3>1. PICK new \in BOOLEAN, waiting \in BOOLEAN :
            /\ new <=> p \in ServerHas(s)'
            /\ waiting <=> <<s, p>> \in sWaits'
      OBVIOUS
    <3>2. (Patient => ~waits) /\ old = has
      BY <1>1, <2>2, <2>5
    <3>3. new # old /\ (waiting <=> Patient)
      <4>1. ~Patient => ~waits
        BY <2>3 DEF Fits
      <4> QED BY <1>1, <1>2, <2>2, <2>5, <3>1, <3>2, <4>1
    <3>4. m.opt = p /\ m.verb = AskVerb(s, new)
      <4>1. new = ~has
        BY <3>2, <3>3
      <4> QED BY <1>3, <2>5, <4>1
    <3>5. m \in FromServer /\ toClient \in Seq(FromServer) /\ (Patient => ~waits)
      BY <1>3, <1>4, <3>2
    <3>6. Fits(s, p, client, new, takes, waiting, Append(toClient, m), toServer)
      BY <2>3, <3>3, <3>4, <3>5, Asked
    <3> QED BY <1>1, <1>2, <2>4, <3>1, <3>6 DEF OptionOK
  <2>6. CASE ~(s = who /\ p = o)
    <3>1. ~AsksAbout(m, s, p)
      BY <1>3, <2>6, TelnetVerbs DEF TelnetSides, AskVerb
    <3>2. Fits(s, p, client, old, takes, waits, Append(toClient, m), toServer)
      BY <1>3, <1>4, <2>3, <3>1, AskedOther
    <3>3. old = (p \in ServerHas(s)') /\ waits = (<<s, p>> \in sWaits')
      BY <1>1, <1>2, <2>2, <2>6
    <3> QED BY <1>1, <1>2, <2>4, <3>2, <3>3 DEF OptionOK
  <2> QED BY <2>5, <2>6
<1>6. TelnetTypes'
  <2>1. sOwn' \subseteq Telnet!Options /\ sPeer' \subseteq Telnet!Options
    BY <1>2, <1>4 DEF ServerHas, TelnetSides, TelnetTypes
  <2> QED BY <1>1, <1>4, <2>1 DEF TelnetTypes
<1>7. pc' # "connect"
  BY DEF Telnet!ServerStarts
<1> QED BY <1>1, <1>5, <1>6, <1>7 DEF TelnetInv, SizeComing, NoResize, SizeSoon

\* The server takes an answer: it has what the client has, and says so if it was not the
\* one that asked; or it takes a size.
LEMMA TelnetServerTakes == ASSUME TelnetInv, Telnet!ServerTakes PROVE TelnetInv'
<1>a. PICK m : m = Head(toServer)
  OBVIOUS
<1>b. PICK who : who = IF m.verb \in {"do", "dont"} THEN "own" ELSE "peer"
  OBVIOUS
<1>c. PICK on \in BOOLEAN : on <=> m.verb \in {"do", "will"}
  OBVIOUS
<1>1. /\ toServer \in Seq(FromClient) /\ toServer # <<>> /\ toServer' = Tail(toServer)
      /\ TelnetTypes /\ UNCHANGED <<commands, size, ours, theirs, asked, resizes>>
      /\ pc' # "connect" /\ toClient \in Seq(FromServer)
  BY DEF Telnet!ServerTakes, Telnet!nvt, TelnetInv, TelnetTypes
<1>2. m \in FromClient /\ m = toServer[1] /\ toServer' \in Seq(FromClient)
  BY <1>1, <1>a, QueueShrinks
<1>3. CASE m.verb = "size"
  <2>1. sSize' = m.opt /\ UNCHANGED <<sOwn, sPeer, sWaits, toClient>>
    BY <1>3, <1>a DEF Telnet!ServerTakes
  <2>2. ASSUME NEW s \in TelnetSides, NEW p \in Telnet!Options PROVE OptionOK(s, p)'
    <3>1. OptionOK(s, p) /\ ~AnswersAbout(m, s, p)
      BY <1>3, TelnetVerbs DEF TelnetInv, TelnetSides
    <3>2. Fits(s, p, p \in ClientHas(s), p \in ServerHas(s), p \in ClientTakes(s),
               <<s, p>> \in sWaits, toClient, Tail(toServer))
      BY <1>1, <1>a, <3>1, TakenOther DEF OptionOK
    <3> QED BY <1>1, <2>1, <3>2 DEF OptionOK, ClientHas, ServerHas, ClientTakes
  <2>3. "naws" \in ours => SizeSoon(toServer', sSize', size)
    BY <1>1, <1>3, <1>a, <2>1, SizeSoonTaken DEF TelnetInv
  <2>4. TelnetTypes'
    BY <1>1, <1>2, <2>1 DEF TelnetTypes
  <2> QED
    BY <1>1, <2>2, <2>3, <2>4 DEF TelnetInv, SizeComing, NoResize
<1>4. CASE m.verb # "size"
  <2> DEFINE o == m.opt
             told == Telnet!Msg(AskVerb(who, on), o)
  <2>1. m \in FromServer /\ who \in TelnetSides /\ o \in Telnet!Options
    <3>1. m \in FromServer
      BY <1>2, <1>4 DEF FromClient
    <3> QED BY <1>b, <3>1 DEF FromServer, TelnetSides
  <2>2. AnswersAbout(m, who, o) /\ m.verb = AnswerVerb(who, on)
    BY <1>b, <1>c, <2>1, TelnetVerbs DEF FromServer, TelnetSides, AnswerVerb
  <2>3. PICK client \in BOOLEAN, server \in BOOLEAN, takes \in BOOLEAN, waits \in BOOLEAN :
          /\ client <=> o \in ClientHas(who)
          /\ server <=> o \in ServerHas(who)
          /\ takes <=> o \in ClientTakes(who)
          /\ waits <=> <<who, o>> \in sWaits
    OBVIOUS
  <2>4. /\ ServerHas(who)' = IF on THEN ServerHas(who) \cup {o} ELSE ServerHas(who) \ {o}
        /\ \A s \in TelnetSides : s # who => ServerHas(s)' = ServerHas(s)
        /\ sWaits' = sWaits \ {<<who, o>>} /\ UNCHANGED sSize
        /\ toClient' = IF on # server /\ ~waits THEN Append(toClient, told) ELSE toClient
    <3>1. CASE who = "own"
      <4>1. /\ m.verb \in {"do", "dont"}
            /\ on <=> m.verb = "do"
        BY <1>b, <1>c, <2>1, <3>1 DEF FromServer
      <4>2. /\ sOwn' = IF on THEN sOwn \cup {o} ELSE sOwn \ {o}
            /\ UNCHANGED <<sPeer, sSize>> /\ sWaits' = sWaits \ {<<"own", o>>}
            /\ toClient' = IF (IF on THEN sOwn \cup {o} ELSE sOwn \ {o}) # sOwn
                                /\ <<"own", o>> \notin sWaits
                           THEN Append(toClient, Telnet!Msg(IF on THEN "will" ELSE "wont", o))
                           ELSE toClient
        BY <1>4, <1>a, <1>c, <4>1 DEF Telnet!ServerTakes
      <4>3. /\ server <=> o \in sOwn
            /\ waits <=> <<"own", o>> \in sWaits
            /\ told = Telnet!Msg(IF on THEN "will" ELSE "wont", o)
        BY <2>3, <3>1 DEF ServerHas, AskVerb
      <4>4. (IF on THEN sOwn \cup {o} ELSE sOwn \ {o}) # sOwn <=> on # server
        BY <4>3
      <4>5. toClient' = IF on # server /\ ~waits THEN Append(toClient, told) ELSE toClient
        BY <4>2, <4>3, <4>4
      <4> QED BY <3>1, <4>2, <4>5 DEF ServerHas, TelnetSides
    <3>2. CASE who = "peer"
      <4>1. /\ m.verb \in {"will", "wont"}
            /\ on <=> m.verb = "will"
        BY <1>b, <1>c, <2>1, <3>2 DEF FromServer
      <4>2. /\ sPeer' = IF on THEN sPeer \cup {o} ELSE sPeer \ {o}
            /\ UNCHANGED <<sOwn, sSize>> /\ sWaits' = sWaits \ {<<"peer", o>>}
            /\ toClient' = IF (IF on THEN sPeer \cup {o} ELSE sPeer \ {o}) # sPeer
                                /\ <<"peer", o>> \notin sWaits
                           THEN Append(toClient, Telnet!Msg(IF on THEN "do" ELSE "dont", o))
                           ELSE toClient
        BY <1>4, <1>a, <1>c, <4>1 DEF Telnet!ServerTakes
      <4>3. /\ server <=> o \in sPeer
            /\ waits <=> <<"peer", o>> \in sWaits
            /\ told = Telnet!Msg(IF on THEN "do" ELSE "dont", o)
        BY <2>3, <3>2 DEF ServerHas, AskVerb
      <4>4. (IF on THEN sPeer \cup {o} ELSE sPeer \ {o}) # sPeer <=> on # server
        BY <4>3
      <4>5. toClient' = IF on # server /\ ~waits THEN Append(toClient, told) ELSE toClient
        BY <4>2, <4>3, <4>4
      <4> QED BY <3>2, <4>2, <4>5 DEF ServerHas, TelnetSides
    <3> QED BY <2>1, <3>1, <3>2 DEF TelnetSides
  <2>5. told \in FromServer /\ told.opt = o /\ told.verb = AskVerb(who, on)
    BY <2>1 DEF Telnet!Msg, FromServer, AskVerb
  <2> HIDE DEF told
  <2>d. PICK waiting \in BOOLEAN : ~waiting
    OBVIOUS
  <2>6. Fits(who, o, client, on, takes, waiting, toClient', Tail(toServer))
    <3>1. Fits(who, o, client, server, takes, waits, toClient, toServer)
      BY <2>1, <2>3 DEF TelnetInv, OptionOK
    <3>2. AnswersAbout(Head(toServer), who, o) /\ Head(toServer).verb = AnswerVerb(who, on)
      BY <1>a, <2>2
    <3>3. CASE waits \/ on = server
      <4>1. Fits(who, o, client, on, takes, waiting, toClient, Tail(toServer))
        BY <1>1, <2>1, <2>d, <3>1, <3>2, <3>3, TakenSame
      <4> QED BY <2>4, <3>3, <4>1
    <3>4. CASE ~waits /\ on # server
      <4>1. Fits(who, o, client, on, takes, waits, Append(toClient, told), Tail(toServer))
        BY <1>1, <2>1, <2>5, <3>1, <3>2, <3>4, TakenNew
      <4>2. waits = waiting
        BY <2>d, <3>4
      <4> QED BY <2>4, <3>4, <4>1, <4>2
    <3> QED BY <3>3, <3>4
  <2>7. ASSUME NEW s \in TelnetSides, NEW p \in Telnet!Options PROVE OptionOK(s, p)'
    <3>1. OptionOK(s, p)
      BY DEF TelnetInv
    <3>2. CASE s = who /\ p = o
      <4>1. on = (p \in ServerHas(s)') /\ waiting = (<<s, p>> \in sWaits')
        BY <2>4, <2>d, <3>2
      <4>2. client = (p \in ClientHas(s)') /\ takes = (p \in ClientTakes(s)')
        BY <1>1, <2>3, <3>2 DEF ClientHas, ClientTakes
      <4> QED BY <1>1, <2>6, <3>2, <4>1, <4>2 DEF OptionOK
    <3>3. CASE ~(s = who /\ p = o)
      <4>1. ~AnswersAbout(m, s, p) /\ ~AsksAbout(told, s, p)
        BY <2>1, <2>2, <2>5, <3>3, TelnetVerbs DEF TelnetSides, AskVerb
      <4>2. Fits(s, p, p \in ClientHas(s), p \in ServerHas(s), p \in ClientTakes(s),
                 <<s, p>> \in sWaits, toClient, Tail(toServer))
        BY <1>1, <1>a, <3>1, <4>1, TakenOther DEF OptionOK
      <4>3. Fits(s, p, p \in ClientHas(s), p \in ServerHas(s), p \in ClientTakes(s),
                 <<s, p>> \in sWaits, Append(toClient, told), Tail(toServer))
        BY <1>1, <2>5, <4>1, <4>2, AskedOther
      <4>4. Fits(s, p, p \in ClientHas(s), p \in ServerHas(s), p \in ClientTakes(s),
                 <<s, p>> \in sWaits, toClient', Tail(toServer))
        BY <2>4, <4>2, <4>3
      <4>5. /\ (p \in ServerHas(s)') = (p \in ServerHas(s))
            /\ (<<s, p>> \in sWaits') = (<<s, p>> \in sWaits)
        BY <2>4, <3>3
      <4> QED BY <1>1, <4>4, <4>5 DEF OptionOK, ClientHas, ClientTakes
    <3> QED BY <3>2, <3>3
  <2>8. TelnetTypes'
    <3>1. sOwn' \subseteq Telnet!Options /\ sPeer' \subseteq Telnet!Options
      BY <1>1, <2>1, <2>4 DEF ServerHas, TelnetSides, TelnetTypes
    <3>2. toClient' \in Seq(FromServer)
      BY <1>1, <2>4, <2>5, QueueGrows
    <3> QED BY <1>1, <1>2, <2>4, <3>1, <3>2 DEF TelnetTypes
  <2>9. "naws" \in ours => SizeSoon(toServer', sSize', size)
    BY <1>1, <1>4, <1>a, <2>4, SizeSoonTaken DEF TelnetInv
  <2> QED BY <1>1, <2>7, <2>8, <2>9 DEF TelnetInv, SizeComing, NoResize
<1> QED BY <1>3, <1>4

\* A command of the pane, while connecting and after.
LEMMA TelnetCommands ==
    ASSUME TelnetInv, Telnet!ConnectingCommand \/ Telnet!Command PROVE TelnetInv'
<1>1. PICK c : c = Head(commands)
  OBVIOUS
<1>2. /\ commands \in Seq(PaneCommands) /\ commands # <<>> /\ commands' = Tail(commands)
      /\ toServer \in Seq(FromClient) /\ TelnetTypes
      /\ UNCHANGED <<ours, theirs, toClient, sOwn, sPeer, sWaits, sSize, asked, resizes>>
  BY DEF Telnet!ConnectingCommand, Telnet!Command, Telnet!nvt, Telnet!server, TelnetInv,
     TelnetTypes
<1>3. c \in PaneCommands /\ commands' \in Seq(PaneCommands)
  BY <1>1, <1>2, QueueShrinks
<1>4. /\ c.k = "resize" => c.size \in Nat
      /\ c.k = "resize" <=> c.k # "shutdown"
  BY <1>3 DEF PaneCommands
<1>5. /\ size' = IF c.k = "resize" THEN c.size ELSE size
      /\ \/ UNCHANGED toServer /\ (c.k # "resize" \/ "naws" \notin ours)
         \/ c.k = "resize" /\ toServer' = Append(toServer, Telnet!Size(c.size))
      /\ pc' = "connect" => pc = "connect"
  BY <1>1, <1>4 DEF Telnet!ConnectingCommand, Telnet!Command, Telnet!Resize, Telnet!server,
     TelnetInv
<1>6. SizeComing(commands', size', asked)
  BY <1>1, <1>2, <1>5, SizeTaken DEF TelnetInv
<1>7. CASE UNCHANGED toServer
  <2>1. "naws" \in ours => SizeSoon(toServer', sSize', size')
    BY <1>2, <1>5, <1>7 DEF TelnetInv, SizeSoon, Telnet!Size
  <2>2. \A s \in TelnetSides, p \in Telnet!Options : OptionOK(s, p)'
    BY <1>2, <1>7 DEF TelnetInv, OptionOK, ClientHas, ServerHas, ClientTakes
  <2>3. TelnetTypes'
    BY <1>2, <1>3, <1>4, <1>5, <1>7 DEF TelnetTypes
  <2> QED BY <1>2, <1>5, <1>6, <2>1, <2>2, <2>3 DEF TelnetInv
<1>8. CASE c.k = "resize" /\ toServer' = Append(toServer, Telnet!Size(c.size))
  <2>1. /\ Telnet!Size(c.size) \in FromClient /\ Telnet!Size(c.size).verb = "size"
        /\ Telnet!Size(c.size).opt = c.size
    BY <1>4, <1>8 DEF Telnet!Size, FromClient
  <2>2. SizeSoon(toServer', sSize', size')
    BY <1>2, <1>5, <1>8, <2>1, SizeSoonSaid
  <2>3. \A s \in TelnetSides, p \in Telnet!Options : OptionOK(s, p)'
    <3> SUFFICES ASSUME NEW s \in TelnetSides, NEW p \in Telnet!Options PROVE OptionOK(s, p)'
      OBVIOUS
    <3>1. OptionOK(s, p) /\ ~AnswersAbout(Telnet!Size(c.size), s, p)
      BY <2>1, TelnetVerbs DEF TelnetInv, TelnetSides
    <3>2. Fits(s, p, p \in ClientHas(s), p \in ServerHas(s), p \in ClientTakes(s),
               <<s, p>> \in sWaits, toClient, toServer')
      BY <1>2, <1>8, <2>1, <3>1, AnsweredOther DEF OptionOK
    <3> QED BY <1>2, <3>2 DEF OptionOK, ClientHas, ServerHas, ClientTakes
  <2>4. toServer' \in Seq(FromClient)
    BY <1>2, <1>8, <2>1, QueueGrows
  <2>5. TelnetTypes'
    BY <1>2, <1>3, <1>4, <1>5, <2>4 DEF TelnetTypes
  <2> QED BY <1>2, <1>5, <1>6, <2>2, <2>3, <2>5 DEF TelnetInv
<1> QED BY <1>5, <1>7, <1>8

\* The pane sends a command, or the connection comes up or is lost.
LEMMA TelnetOthers ==
    ASSUME TelnetInv,
           Telnet!PaneResizes \/ Telnet!PaneCloses \/ Telnet!Connected \/ Telnet!Lost
    PROVE  TelnetInv'
<1>1. /\ TelnetTypes
      /\ UNCHANGED <<size, ours, theirs, toServer, toClient, sOwn, sPeer, sWaits, sSize>>
  BY DEF Telnet!PaneResizes, Telnet!PaneCloses, Telnet!Connected, Telnet!Lost, Telnet!nvt,
     Telnet!server, TelnetInv
<1>2. \A s \in TelnetSides, p \in Telnet!Options : OptionOK(s, p)'
  BY <1>1 DEF TelnetInv, OptionOK, ClientHas, ServerHas, ClientTakes
<1>3. "naws" \in ours => SizeSoon(toServer', sSize', size')
  BY <1>1 DEF TelnetInv, SizeSoon
<1>4. pc' = "connect" => pc = "connect"
  BY DEF Telnet!PaneResizes, Telnet!PaneCloses, Telnet!Connected, Telnet!Lost
<1>5. TelnetTypes' /\ SizeComing(commands', size', asked')
  <2>1. commands \in Seq(PaneCommands) /\ resizes \in Nat /\ asked \in Nat
        /\ SizeComing(commands, size, asked)
    BY DEF TelnetInv, TelnetTypes
  <2>2. CASE UNCHANGED <<commands, asked, resizes>>
    BY <1>1, <2>1, <2>2 DEF TelnetTypes
  <2>3. ASSUME NEW c, c = [k |-> "resize", size |-> resizes + 1],
               asked' = c.size, commands' = Append(commands, c), resizes' = resizes + 1
        PROVE  TelnetTypes' /\ SizeComing(commands', size', asked')
    <3>1. c \in PaneCommands /\ c.k = "resize" /\ c.size \in Nat
      BY <2>1, <2>3 DEF PaneCommands
    <3>2. commands' \in Seq(PaneCommands)
      BY <2>1, <2>3, <3>1, QueueGrows
    <3>3. SizeComing(commands', size, asked')
      BY <2>1, <2>3, <3>1, SizeSent
    <3> QED BY <1>1, <2>1, <2>3, <3>1, <3>2, <3>3 DEF TelnetTypes
  <2>4. ASSUME NEW c, c = [k |-> "shutdown"],
               UNCHANGED <<asked, resizes>>, commands' = Append(commands, c)
        PROVE  TelnetTypes' /\ SizeComing(commands', size', asked')
    <3>1. c \in PaneCommands /\ c.k # "resize"
      BY <2>4 DEF PaneCommands
    <3>2. commands' \in Seq(PaneCommands)
      BY <2>1, <2>4, <3>1, QueueGrows
    <3>3. SizeComing(commands', size, asked)
      BY <2>1, <2>4, <3>1, SizeSent
    <3> QED BY <1>1, <2>1, <2>4, <3>2, <3>3 DEF TelnetTypes
  <2>5. CASE Telnet!PaneResizes
    BY <2>3, <2>5 DEF Telnet!PaneResizes
  <2>6. CASE Telnet!PaneCloses
    BY <2>4, <2>6 DEF Telnet!PaneCloses
  <2>7. CASE Telnet!Connected \/ Telnet!Lost
    BY <2>2, <2>7 DEF Telnet!Connected, Telnet!Lost
  <2> QED BY <2>5, <2>6, <2>7
<1> QED BY <1>1, <1>2, <1>3, <1>4, <1>5 DEF TelnetInv

\* Whether the server waits for the answer to what it asked or takes everything as a
\* question, however often it asks and whatever crosses its questions: once nothing is on
\* the way, it agrees with the client about every option, and has the pane's size if it
\* asked for sizes.
THEOREM TelnetAgrees == Telnet!TSpec => []Telnet!Agreed
<1>1. Telnet!TInit => TelnetInv
  <2> SUFFICES ASSUME Telnet!TInit PROVE TelnetInv
    OBVIOUS
  <2>1. TelnetTypes
    BY DEF Telnet!TInit, TelnetTypes
  <2>2. \A who \in TelnetSides, o \in Telnet!Options : OptionOK(who, o)
    BY DEF Telnet!TInit, OptionOK, Fits, OptionFits, FreeFits, SaysLast, ClientHas, ServerHas
  <2>3. SizeComing(commands, size, asked)
    BY DEF Telnet!TInit, SizeComing, NoResize
  <2> QED BY <2>1, <2>2, <2>3 DEF Telnet!TInit, TelnetInv
<1>2. TelnetInv /\ [Telnet!TNext]_(Telnet!telnetVars) => TelnetInv'
  <2> SUFFICES ASSUME TelnetInv, [Telnet!TNext]_(Telnet!telnetVars) PROVE TelnetInv'
    OBVIOUS
  <2>1. CASE Telnet!TNext
    BY <2>1, TelnetReceives, TelnetServerStarts, TelnetServerTakes, TelnetCommands, TelnetOthers
       DEF Telnet!TNext, TelnetSides
  <2>2. CASE UNCHANGED Telnet!telnetVars
    BY <2>2 DEF Telnet!telnetVars, TelnetInv, TelnetTypes, OptionOK, ClientHas, ServerHas,
       ClientTakes, SizeSoon, SizeComing, NoResize
  <2> QED BY <2>1, <2>2
<1>3. TelnetInv => Telnet!Agreed
  <2> SUFFICES ASSUME TelnetInv, Telnet!Quiet
               PROVE  theirs = sOwn /\ ours = sPeer /\ ("naws" \in ours => sSize = asked)
    BY DEF Telnet!Agreed
  <2>1. toServer = <<>> /\ toClient = <<>> /\ commands = <<>>
    BY DEF Telnet!Quiet
  <2>2. ASSUME NEW who \in TelnetSides, NEW o \in Telnet!Options
        PROVE  o \in ClientHas(who) <=> o \in ServerHas(who)
    <3>1. Fits(who, o, o \in ClientHas(who), o \in ServerHas(who),
               o \in ClientTakes(who), <<who, o>> \in sWaits, <<>>, <<>>)
      BY <2>1 DEF TelnetInv, OptionOK
    <3>2. ~(\E n \in 1..Len(<<>>) : AsksAbout(<<>>[n], who, o) \/ AnswersAbout(<<>>[n], who, o))
      OBVIOUS
    <3> QED BY <3>1, <3>2 DEF Fits, OptionFits, FreeFits, SaysNothing
  <2>3. theirs = sOwn /\ ours = sPeer
    BY <2>2 DEF ClientHas, ServerHas, TelnetSides, TelnetInv, TelnetTypes
  <2>4. size = asked /\ ("naws" \in ours => sSize = size)
    BY <2>1 DEF TelnetInv, SizeComing, NoResize, SizeSoon
  <2> QED BY <2>3, <2>4
<1> QED BY <1>1, <1>2, <1>3, PTL DEF Telnet!TSpec

-----------------------------------------------------------------------------
(***************************************************************************)
(* Connecting over SSH: which keys are trusted and where secrets go.       *)
(***************************************************************************)
LoginInv ==
    /\ own \subseteq accepted /\ once \subseteq accepted /\ saved \subseteq own
    /\ Login!Past => key \notin Revoked /\ Login!Line(hop, key) \in user \cup accepted
    /\ step = "ask" => key \notin Revoked /\ Login!Line(hop, key) \notin own
    /\ savedSent \in {0, 1} /\ (~pwUsed => savedSent = 0)
    /\ \A r \in remembered : r.ok

\* Steps before and after the check of a key.
Before == {"idle", "reach", "check", "failed"}

\* A step that trusts nothing new and sends nothing: it stays at the hop whose key
\* was checked, or leaves it.
LEMMA LoginGoesOn ==
    ASSUME LoginInv, UNCHANGED <<own, user, once, accepted, saved, remembered, savedSent, pwUsed>>,
           step' \in Before \/ (Login!Past /\ UNCHANGED <<hop, key>> /\ step' # "ask")
    PROVE  LoginInv'
BY DEF LoginInv, Login!Past, Login!Line, Before

\* The end of a method: on at this hop, to the next one, or connected.
LEMMA LoginMethodEnds ==
    ASSUME LoginInv, NEW offers, Login!Accepted(offers) \/ Login!RefusedWith(offers)
    PROVE  step' \in Before \/ (UNCHANGED hop /\ step' \in {"pick", "connected"})
BY DEF Login!Accepted, Login!RefusedWith, Login!Authenticated, Before

\* Every step keeps the invariant.
LEMMA LoginStep == ASSUME LoginInv, [Login!KNext]_(Login!sshcVars) PROVE LoginInv'
<1> USE DEF Login!files, Login!authVars, Login!ghosts
<1>1. CASE \/ Login!Begin \/ Login!ReachFails \/ Login!Distrust
           \/ \E k \in HostKeys : Login!Presents(k)
           \/ Login!Cancel
  BY <1>1, LoginGoesOn DEF Login!Begin, Login!ReachFails, Login!Presents, Login!Distrust,
     Login!Cancel, Login!Fails, Before
<1>2. CASE Login!CheckKey
  <2>1. UNCHANGED <<own, user, once, accepted, saved, remembered, savedSent, pwUsed, hop, key>>
    BY <1>2 DEF Login!CheckKey
  <2>2. CASE step' = "failed"
    BY <2>1, <2>2, LoginGoesOn DEF Before
  <2>3. CASE step' # "failed"
    <3>1. Login!Check(hop, key) # "revoked" /\ step' \in {"none", "ask"}
      BY <1>2, <2>3 DEF Login!CheckKey, Login!Fails
    <3>2. key \notin Revoked
      BY <3>1 DEF Login!Check
    <3>3. step' = "ask" => Login!Check(hop, key) # "known"
      BY <1>2 DEF Login!CheckKey
    <3>4. step' = "ask" => Login!Line(hop, key) \notin own
      BY <3>2, <3>3 DEF Login!Check, Login!Status, Login!ForHost, Login!Line
    <3>5. step' = "none" => Login!Check(hop, key) = "known" \/ Login!Line(hop, key) \in once
      BY <1>2 DEF Login!CheckKey
    <3>6. Login!Check(hop, key) = "known" => Login!Line(hop, key) \in own \cup user
      BY <3>2 DEF Login!Check, Login!Status
    <3> QED
      BY <2>1, <3>1, <3>2, <3>4, <3>5, <3>6 DEF LoginInv, Login!Past, Login!Line
  <2> QED BY <2>2, <2>3
<1>3. CASE Login!TrustOnce
  BY <1>3 DEF Login!TrustOnce, LoginInv, Login!Past, Login!Line
<1>4. CASE \E ok \in BOOLEAN : Login!TrustAndRemember(ok)
  BY <1>4 DEF Login!TrustAndRemember, Login!Remember, LoginInv, Login!Past, Login!Line
<1>5. CASE \E l \in own : Login!Forget(l)
  BY <1>5 DEF Login!Forget, LoginInv, Login!Past, Login!Line
<1>6. CASE \E o \in Offers : Login!AuthNone(o)
  BY <1>6 DEF Login!AuthNone, LoginInv, Login!Past, Login!Line
<1>7. CASE Login!NoneSuffices
  BY <1>7, LoginGoesOn DEF Login!NoneSuffices, Login!Authenticated, Login!Past, Before
<1>8. CASE Login!Pick
  <2>1. ASSUME Login!Left # {}
        PROVE  Login!Order[CHOOSE i \in Login!Left : \A j \in Login!Left : i <= j]
                 \in {"publickey", "keyboard", "password"}
    <3> DEFINE first == CHOOSE i \in Login!Left : \A j \in Login!Left : i <= j
    <3>1. /\ DOMAIN Login!Order = 1..3 /\ Login!Order[1] = "publickey"
          /\ Login!Order[2] = "keyboard" /\ Login!Order[3] = "password"
      BY DEF Login!Order
    <3>2. Login!Left \subseteq 1..3
      BY <3>1 DEF Login!Left
    <3>3. \E i \in Login!Left : \A j \in Login!Left : i <= j
      <4>1. CASE 1 \in Login!Left
        BY <3>2, <4>1
      <4>2. CASE 1 \notin Login!Left /\ 2 \in Login!Left
        BY <3>2, <4>2
      <4>3. CASE 1 \notin Login!Left /\ 2 \notin Login!Left
        <5>1. PICK i \in Login!Left : TRUE
          BY <2>1
        <5>2. \A j \in Login!Left : j = 3
          BY <3>2, <4>3
        <5> QED BY <5>1, <5>2
      <4> QED BY <4>1, <4>2, <4>3
    <3>4. first \in Login!Left
      BY <3>3
    <3> HIDE DEF first
    <3>5. first = 1 \/ first = 2 \/ first = 3
      BY <3>2, <3>4
    <3>6. Login!Order[first] \in {"publickey", "keyboard", "password"}
      BY <3>1, <3>5
    <3> QED BY <3>6 DEF first
  <2>2. /\ step = "pick" /\ step' \in {"failed", "key", "keyboard", "password"}
        /\ UNCHANGED <<own, user, once, accepted, saved, remembered, savedSent, pwUsed, hop, key>>
    BY <1>8, <2>1 DEF Login!Pick, Login!Fails
  <2> QED BY <2>2, LoginGoesOn DEF Login!Past, Before
<1>9. CASE \E o \in Offers : Login!OfferKey(o)
  <2>1. PICK o \in Offers : Login!OfferKey(o)
    BY <1>9
  <2>2. /\ step = "key" /\ UNCHANGED <<own, user, once, accepted, saved, remembered, savedSent,
                                      pwUsed, key>>
        /\ \/ Login!Accepted(o) \/ Login!RefusedWith(o)
           \/ UNCHANGED <<step, hop>>
    BY <2>1 DEF Login!OfferKey
  <2>3. step' \in Before \/ (UNCHANGED hop /\ step' \in {"pick", "connected", "key"})
    BY <2>2, LoginMethodEnds
  <2> QED BY <2>2, <2>3, LoginGoesOn DEF Login!Past
<1>10. CASE Login!AskPhrase \/ Login!PhraseWrong \/ Login!PhraseSkipped
  BY <1>10, LoginGoesOn DEF Login!AskPhrase, Login!PhraseWrong, Login!PhraseSkipped,
     Login!NextFile, Login!Past
<1>11. CASE \E r \in BOOLEAN : Login!PhraseOpens(r)
  BY <1>11 DEF Login!PhraseOpens, LoginInv, Login!Past, Login!Line
<1>12. CASE \E a \in BOOLEAN : Login!KeyboardRound(a)
  BY <1>12 DEF Login!KeyboardRound, LoginInv, Login!Past, Login!Line
<1>13. CASE Login!CodeTyped
  BY <1>13, LoginGoesOn DEF Login!CodeTyped, Login!Past
<1>14. CASE \E o \in Offers : Login!KeyboardOver(o)
  BY <1>14, LoginGoesOn, LoginMethodEnds DEF Login!KeyboardOver, Login!Past
<1>15. CASE Login!PasswordNext
  BY <1>15 DEF Login!PasswordNext, LoginInv, Login!Past, Login!Line
<1>16. CASE \E t \in Typed, r \in BOOLEAN : Login!PasswordTyped(t, r)
  BY <1>16, LoginGoesOn DEF Login!PasswordTyped, Login!Past
<1>17. CASE \E o \in Offers : Login!PasswordWorks(o)
  <2>1. PICK o \in Offers : Login!PasswordWorks(o)
    BY <1>17
  <2>2. step' \in Before \/ (UNCHANGED hop /\ step' \in {"pick", "connected"})
    BY <2>1, LoginMethodEnds DEF Login!PasswordWorks
  <2>3. /\ step = "pwSend" /\ sending.secret = right
        /\ UNCHANGED <<own, user, once, accepted, saved, savedSent, pwUsed, key>>
        /\ remembered' = Login!RememberedAs(sending)
    BY <2>1 DEF Login!PasswordWorks, Login!Works
  <2>4. \A r \in remembered' : r.ok
    <3>1. \A r \in remembered : r.ok
      BY DEF LoginInv
    <3>2. [what |-> "password", ok |-> sending.secret = right].ok
      BY <2>3
    <3> QED BY <2>3, <3>1, <3>2 DEF Login!RememberedAs
  <2> QED
    BY <2>2, <2>3, <2>4 DEF LoginInv, Login!Past, Login!Line, Before
<1>18. CASE \E o \in Offers : Login!PasswordRefused(o)
  <2>1. PICK o \in Offers : Login!PasswordRefused(o)
    BY <1>18
  <2>2. /\ step = "pwSend" /\ UNCHANGED <<own, user, once, accepted, saved, remembered,
                                         savedSent, pwUsed, key>>
        /\ Login!RefusedWith(o) \/ (step' = "password" /\ UNCHANGED hop)
    BY <2>1 DEF Login!PasswordRefused
  <2>3. step' \in Before \/ (UNCHANGED hop /\ step' \in {"pick", "connected", "password"})
    BY <2>2, LoginMethodEnds
  <2> QED BY <2>2, <2>3, LoginGoesOn DEF Login!Past
<1>19. CASE UNCHANGED Login!sshcVars
  BY <1>19 DEF Login!sshcVars, LoginInv, Login!Past, Login!Line
<1> QED
  BY <1>1, <1>2, <1>3, <1>4, <1>5, <1>6, <1>7, <1>8, <1>9, <1>10, <1>11, <1>12, <1>13, <1>14,
     <1>15, <1>16, <1>17, <1>18, <1>19 DEF Login!KNext

\* Over any hops, keys, offers of the servers, cancelled and wrong answers, and any
\* number of connections: nothing goes to a server whose key is revoked or neither
\* known nor accepted for that host, a key the user had remembered is not asked about
\* again, the keychain's password goes out at most once per authentication, and only
\* what a server accepted is remembered.
THEOREM LoginIsChecked ==
    Login!KSpec => [](/\ Login!NoUnknownKey /\ Login!NoSecondQuestion
                      /\ Login!SavedOnce /\ Login!RememberedWorks)
<1>1. Login!KInit => LoginInv
  BY DEF Login!KInit, LoginInv, Login!Past
<1>2. LoginInv /\ [Login!KNext]_(Login!sshcVars) => LoginInv'
  BY LoginStep
<1>3. LoginInv => /\ Login!NoUnknownKey /\ Login!NoSecondQuestion
                  /\ Login!SavedOnce /\ Login!RememberedWorks
  BY DEF LoginInv, Login!NoUnknownKey, Login!NoSecondQuestion, Login!SavedOnce,
     Login!RememberedWorks
<1> QED BY <1>1, <1>2, <1>3, PTL DEF Login!KSpec
=============================================================================
