------------------------------ MODULE LocalPty ------------------------------
(***************************************************************************)
(* A local shell on a pseudoterminal (opensesh-term/src/pty.rs), the Unix  *)
(* build.  Four threads: the handle (the engine's), the control thread     *)
(* that starts the shell, writes and tears down, the reader, and the       *)
(* waiter that reaps the shell.  They share the process record, under a    *)
(* lock, and the control thread's inbox.                                   *)
(*                                                                         *)
(* The shell may ignore a hangup (`stubborn`), leave its input unread      *)
(* (`deaf`: a write to it blocks), and leave a job behind that keeps the   *)
(* terminal open and reads as little (`holder`), in any combination.       *)
(* Output is counted in chunks.                                            *)
(***************************************************************************)
EXTENDS Naturals, Sequences

CONSTANTS QueueMax,   \* EVENT_QUEUE
          MaxOut,     \* bound: chunks the shell prints
          MaxWrites   \* bound: writes to it

VARIABLES
    shell,     \* "none", "running", "dead" (a zombie), "reaped"
    kind,      \* [stubborn, deaf, holder]
    printed,   \* chunks printed so far
    tty,       \* chunks not read yet
    handle,    \* the handle: "idle", "hang", "send", "done" (shutdown's steps)
    stopping, process, \* PtyShared: the flag, and [pid, wake, exited]
    woken,     \* a byte is in the reader's wake pipe
    inbox,     \* Control messages
    control,   \* control thread: "start", "spawned", "started", "loop", "write",
               \* "exit", "failed", "last", "ended"
    exit, readerDone, closing, \* its variables
    deadline,  \* "none", "grace", "close", and "passed" once CLOSE_TIMEOUT did
    reader,    \* "off", "poll", "send", "done"
    waiter,    \* "off", "wait", "reaped", "done"
    events, receiver, \* the engine's channel, and whether it still receives
    exitedSent, \* Exited (or nothing to send it to)
    writes

ptyVars == <<shell, kind, printed, tty, handle, stopping, process, woken, inbox,
             control, exit, readerDone, deadline, closing, reader, waiter, events,
             receiver, exitedSent, writes>>
controlVars == <<control, exit, readerDone, deadline, closing>>
shellVars == <<shell, kind, printed, tty>>

Kinds == [stubborn : BOOLEAN, deaf : BOOLEAN, holder : BOOLEAN]

LInit ==
    /\ shell = "none" /\ kind \in Kinds /\ printed = 0 /\ tty = 0
    /\ handle = "idle" /\ stopping = FALSE
    /\ process = [pid |-> FALSE, wake |-> FALSE, exited |-> FALSE] /\ woken = FALSE
    /\ inbox = <<>> /\ control = "start"
    /\ exit = FALSE /\ readerDone = FALSE /\ deadline = "none" /\ closing = FALSE
    /\ reader = "off" /\ waiter = "off"
    /\ events = <<>> /\ receiver = TRUE /\ exitedSent = FALSE /\ writes = 0

(***************************************************************************)
(* PtyShared::hang_up: SIGHUP unless the waiter recorded the exit, and a   *)
(* byte for the reader.  Io::close does it once.                           *)
(***************************************************************************)
HangUp ==
    /\ shell' = IF process.pid /\ ~process.exited /\ shell = "running" /\ ~kind.stubborn
                THEN "dead" ELSE shell
    /\ woken' = (woken \/ process.wake)

Closes ==
    /\ ~closing /\ closing' = TRUE /\ deadline' = "close"
    /\ HangUp

Sends(m) == inbox' = Append(inbox, m)

(***************************************************************************)
(* The handle: write, and the three steps of shutdown.                     *)
(***************************************************************************)
Write ==
    /\ handle = "idle" /\ writes < MaxWrites /\ control # "ended"
    /\ writes' = writes + 1 /\ Sends("write")
    /\ UNCHANGED <<shellVars, handle, stopping, process, woken, controlVars, reader,
                   waiter, events, receiver, exitedSent>>

\* Asked for, or the engine is gone and drops the handle.
Shutdown(leaves) ==
    /\ handle = "idle" /\ handle' = "hang" /\ stopping' = TRUE
    /\ receiver' = ~leaves /\ events' = IF leaves THEN <<>> ELSE events
    /\ UNCHANGED <<shellVars, process, woken, inbox, controlVars, reader, waiter,
                   exitedSent, writes>>

ShutdownNoHangUp ==
    /\ handle = "hang" /\ handle' = "send"
    /\ UNCHANGED <<shellVars, stopping, process, woken, inbox, controlVars, reader,
                   waiter, events, receiver, exitedSent, writes>>
ShutdownHangsUp ==
    /\ handle = "hang" /\ handle' = "send"
    /\ HangUp
    /\ UNCHANGED <<kind, printed, tty, stopping, process, inbox, controlVars, reader,
                   waiter, events, receiver, exitedSent, writes>>

ShutdownSends ==
    /\ handle = "send" /\ handle' = "done" /\ Sends("shutdown")
    /\ UNCHANGED <<shellVars, stopping, process, woken, controlVars, reader, waiter,
                   events, receiver, exitedSent, writes>>

(***************************************************************************)
(* start: the shell, then the process record, then the two threads.  A     *)
(* failure is an Error event, and the channel closes.                      *)
(***************************************************************************)
Spawn ==
    /\ control = "start" /\ control' = "spawned" /\ shell' = "running"
    /\ UNCHANGED <<kind, printed, tty, handle, stopping, process, woken, inbox, exit,
                   readerDone, deadline, closing, reader, waiter, events, receiver,
                   exitedSent, writes>>

StartThreads ==
    /\ control = "spawned" /\ control' = "started"
    /\ process' = [process EXCEPT !.pid = TRUE, !.wake = TRUE]
    /\ reader' = "poll" /\ waiter' = "wait"
    /\ UNCHANGED <<shellVars, handle, stopping, woken, inbox, exit, readerDone,
                   deadline, closing, events, receiver, exitedSent, writes>>

\* Nothing could be started, or the waiter's thread could not: with the reader
\* running, the shell is hung up and the reader woken.
StartFails ==
    /\ \/ control = "start" /\ UNCHANGED <<shell, process, reader, woken>>
       \/ /\ control = "spawned"
          /\ process' = [process EXCEPT !.pid = TRUE, !.wake = TRUE]
          /\ shell' = IF shell = "running" /\ ~kind.stubborn THEN "dead" ELSE shell
          /\ woken' = TRUE /\ reader' \in {"off", "poll"}
    /\ control' = "failed"
    /\ UNCHANGED <<kind, printed, tty, handle, stopping, inbox, exit, readerDone,
                   deadline, closing, waiter, events, receiver, exitedSent, writes>>

\* events.send waits for room, and gives up when nobody receives.
Sent(e) == IF receiver THEN Len(events) < QueueMax /\ events' = Append(events, e)
           ELSE UNCHANGED events

SendError ==
    /\ control = "failed" /\ control' = "last" /\ Sent("output")
    /\ UNCHANGED <<shellVars, handle, stopping, process, woken, inbox, exit, readerDone,
                   deadline, closing, reader, waiter, receiver, exitedSent, writes>>

\* shutdown may have run while the shell was starting.
CheckStopping ==
    /\ control = "started" /\ control' = "loop"
    /\ IF stopping THEN Closes ELSE UNCHANGED <<shell, woken, closing, deadline>>
    /\ UNCHANGED <<kind, printed, tty, handle, stopping, process, inbox, exit,
                   readerDone, reader, waiter, events, receiver, exitedSent, writes>>

(***************************************************************************)
(* The control loop: one message, or the deadline of the teardown.         *)
(***************************************************************************)
After(done, ended) == control' = IF done /\ ended THEN "exit" ELSE "loop"

TakeMessage ==
    /\ control = "loop" /\ inbox # <<>>
    /\ inbox' = Tail(inbox)
    /\ \/ /\ Head(inbox) = "write"
          /\ control' = IF exit THEN "loop" ELSE "write"
          /\ UNCHANGED <<shell, woken, exit, readerDone, deadline, closing>>
       \/ /\ Head(inbox) = "shutdown"
          /\ IF closing THEN UNCHANGED <<shell, woken, deadline, closing>> ELSE Closes
          /\ After(readerDone, exit) /\ UNCHANGED <<exit, readerDone>>
       \/ /\ Head(inbox) = "childExited"
          /\ exit' = TRUE /\ After(readerDone, TRUE)
          /\ deadline' = IF deadline = "none" THEN "grace" ELSE deadline
          /\ UNCHANGED <<shell, woken, readerDone, closing>>
       \/ /\ Head(inbox) = "readerDone"
          /\ readerDone' = TRUE /\ After(TRUE, exit)
          /\ UNCHANGED <<shell, woken, exit, deadline, closing>>
    /\ UNCHANGED <<kind, printed, tty, handle, stopping, process, reader, waiter,
                   events, receiver, exitedSent, writes>>

\* Io::write blocks while what has the terminal open leaves its input unread.
Blocked == kind.deaf /\ (shell = "running" \/ kind.holder)

WriteReturns ==
    /\ control = "write" /\ ~Blocked
    /\ After(readerDone, exit)
    /\ UNCHANGED <<shellVars, handle, stopping, process, woken, inbox, exit, readerDone,
                   deadline, closing, reader, waiter, events, receiver, exitedSent, writes>>

GracePasses ==
    /\ control = "loop" /\ inbox = <<>> /\ deadline = "grace" /\ ~closing
    /\ Closes
    /\ UNCHANGED <<kind, printed, tty, handle, stopping, process, inbox, control, exit,
                   readerDone, reader, waiter, events, receiver, exitedSent, writes>>

\* The shell did not end within CLOSE_TIMEOUT, or the reader did not.
CloseTimesOut ==
    /\ control = "loop" /\ inbox = <<>> /\ deadline = "close"
    /\ control' = "exit" /\ deadline' = "passed"
    /\ UNCHANGED <<shellVars, handle, stopping, process, woken, inbox, exit, readerDone,
                   closing, reader, waiter, events, receiver, exitedSent, writes>>

SendExited ==
    /\ control = "exit" /\ control' = "last" /\ exitedSent' = TRUE /\ Sent("exited")
    /\ UNCHANGED <<shellVars, handle, stopping, process, woken, inbox, exit, readerDone,
                   deadline, closing, reader, waiter, receiver, writes>>

\* The thread ends and its sender is dropped.
ControlEnds ==
    /\ control = "last" /\ control' = "ended"
    /\ UNCHANGED <<shellVars, handle, stopping, process, woken, inbox, exit, readerDone,
                   deadline, closing, reader, waiter, events, receiver, exitedSent, writes>>

(***************************************************************************)
(* The waiter: the shell is reaped, then recorded as exited and reported.  *)
(***************************************************************************)
Reap ==
    /\ waiter = "wait" /\ shell = "dead"
    /\ waiter' = "reaped" /\ shell' = "reaped"
    /\ UNCHANGED <<kind, printed, tty, handle, stopping, process, woken, inbox,
                   controlVars, reader, events, receiver, exitedSent, writes>>

ReportExit ==
    /\ waiter = "reaped" /\ waiter' = "done"
    /\ process' = [process EXCEPT !.exited = TRUE]
    /\ Sends("childExited")
    /\ UNCHANGED <<shellVars, handle, stopping, woken, controlVars, reader, events,
                   receiver, exitedSent, writes>>

(***************************************************************************)
(* read_loop: the wake pipe first; then output, or the end of it once the  *)
(* shell and its jobs closed the terminal.                                 *)
(***************************************************************************)
EndOfFile == shell \in {"dead", "reaped"} /\ ~kind.holder /\ tty = 0

ReaderStops ==
    /\ reader = "poll" /\ (woken \/ EndOfFile)
    /\ reader' = "done" /\ Sends("readerDone")
    /\ UNCHANGED <<shellVars, handle, stopping, process, woken, controlVars, waiter,
                   events, receiver, exitedSent, writes>>

Read ==
    /\ reader = "poll" /\ ~woken /\ tty > 0
    /\ tty' = tty - 1 /\ reader' = IF receiver THEN "send" ELSE "poll"
    /\ UNCHANGED <<shell, kind, printed, handle, stopping, process, woken, inbox,
                   controlVars, waiter, events, receiver, exitedSent, writes>>

SendOutput ==
    /\ reader = "send" /\ reader' = "poll" /\ Sent("output")
    /\ UNCHANGED <<shellVars, handle, stopping, process, woken, inbox, controlVars,
                   waiter, receiver, exitedSent, writes>>

(***************************************************************************)
(* The shell and the engine.                                               *)
(***************************************************************************)
Prints ==
    /\ shell = "running" /\ printed < MaxOut
    /\ printed' = printed + 1 /\ tty' = tty + 1
    /\ UNCHANGED <<shell, kind, handle, stopping, process, woken, inbox, controlVars,
                   reader, waiter, events, receiver, exitedSent, writes>>

ShellExits ==
    /\ shell = "running" /\ shell' = "dead"
    /\ UNCHANGED <<kind, printed, tty, handle, stopping, process, woken, inbox,
                   controlVars, reader, waiter, events, receiver, exitedSent, writes>>

Hears ==
    /\ receiver /\ events # <<>> /\ events' = Tail(events)
    /\ UNCHANGED <<shellVars, handle, stopping, process, woken, inbox, controlVars,
                   reader, waiter, receiver, exitedSent, writes>>

ControlSteps ==
    \/ Spawn \/ StartThreads \/ StartFails \/ SendError \/ CheckStopping
    \/ TakeMessage \/ WriteReturns \/ GracePasses \/ CloseTimesOut \/ SendExited
    \/ ControlEnds

LNext ==
    \/ Write \/ (\E leaves \in BOOLEAN : Shutdown(leaves))
    \/ ShutdownHangsUp \/ ShutdownSends
    \/ Spawn \/ StartThreads \/ StartFails \/ SendError \/ CheckStopping
    \/ TakeMessage \/ WriteReturns \/ GracePasses \/ CloseTimesOut \/ SendExited
    \/ ControlEnds
    \/ Reap \/ ReportExit \/ ReaderStops \/ Read \/ SendOutput
    \/ Prints \/ ShellExits \/ Hears

LSpec == LInit /\ [][LNext]_ptyVars

\* The threads run, deadlines pass and the engine takes what is there; nothing
\* obliges the user to close the tab or the shell to end.
LFairness ==
    /\ WF_ptyVars(ShutdownHangsUp \/ ShutdownSends) /\ WF_ptyVars(ControlSteps)
    /\ WF_ptyVars(Reap \/ ReportExit) /\ WF_ptyVars(ReaderStops \/ Read \/ SendOutput)
    /\ WF_ptyVars(Hears)

-----------------------------------------------------------------------------
(***************************************************************************)
(* The channel closes when both senders are gone.                          *)
(***************************************************************************)
ChannelPhase ==
    IF control = "ended" /\ reader \in {"off", "done"} THEN "closed"
    ELSE IF exitedSent THEN "exited" ELSE "open"

Contract == INSTANCE BackendContract WITH
    queue <- events, phase <- ChannelPhase, heard <- receiver

\* The reader waits for room in the engine's channel since before the teardown's
\* time limit: the control thread did not wait for it any longer.
Overran == deadline = "passed" /\ reader = "send"

\* What the engine hears keeps the contract of backend.rs: all output comes
\* before the one Exited, and the channel closes after it.  Only what a reader
\* that overran the time limit had read comes later.
KeepsContract ==
    Contract!CInit /\ [][Overran \/ Contract!CNext]_(Contract!contractVars)

\* A write that nothing ends: the hangup does not end what reads nothing.
WriteStuck == control = "write" /\ Blocked /\ (kind.stubborn \/ kind.holder)

\* A closed tab's backend ends, whether the shell reads nothing, ignores the
\* hangup, was just starting or left a job behind; unless the control thread is
\* in a write to a terminal that nothing reads and the hangup does not close.
ClosedIsOver == stopping => WriteStuck \/ (control = "ended" /\ reader \in {"off", "done"})
ClosedEnds == []<>ClosedIsOver

\* A shell that ended by itself, with nobody closing the tab and no job left on
\* its terminal within the grace time, had all its output delivered first.
AllOutputFirst == exitedSent /\ ~stopping /\ ~closing => tty = 0 /\ reader = "done"
=============================================================================
