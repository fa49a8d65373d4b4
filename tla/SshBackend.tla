----------------------------- MODULE SshBackend -----------------------------
(***************************************************************************)
(* A terminal over an SSH channel (opensesh-ssh/src/backend.rs) and what   *)
(* the pane shows of it (ssh_hooks of terminal/registry.rs).  One task     *)
(* connects, runs the shell's channel, and after a loss waits for Enter or *)
(* for its own timer.  The OS detection and the key installation run       *)
(* beside the shell, and the task joins them before it closes.             *)
(*                                                                         *)
(* Connecting itself is a step that succeeds or fails, for good or not     *)
(* (SshConnect has its inside).  Keystrokes are "enter" or "key".          *)
(***************************************************************************)
EXTENDS Naturals, Sequences

CONSTANTS Sizes, FirstSize,
          QueueMax,     \* the events channel's bound
          MaxAttempts,  \* Reconnect::max_attempts
          MaxNet,       \* bound: messages of the server
          MaxOps,       \* bound: commands of the pane
          MaxFailures   \* bound: losses and failed connections

VARIABLES
    automatic, \* Reconnect::automatic
    pc,        \* "connect", "setup", "shell", "data", "typing", "join", "exit", "last",
               \* "wait", "ended"
    commands,  \* of the pane, in order
    size,      \* run's size
    failures,  \* run's failures
    retry,     \* wait_for_enter has a timer
    result,    \* how the shell's loop ended: "exited", "shutdown", "lost"
    conn,      \* the connection: "none", "up", "down"
    net,       \* the channel's messages
    exited,    \* the shell's loop saw an exit or an end of file
    startup,   \* the startup snippet is still to be typed
    install,   \* the key to install: "given", "taken", "told"
    beside,    \* detection and installation: "no", "running", "done"
    serverSize, \* the size the server was told
    status, live, \* SshState: what the pane shows, and the shared connection
    events, receiver, exitedSent,
    asked, netSent, opsDone  \* history: the pane's last size, counters

sshVars == <<automatic, pc, commands, size, failures, retry, result, conn, net, exited,
             startup, install, beside, serverSize, status, live, events, receiver,
             exitedSent, asked, netSent, opsDone>>
paneVars == <<status, live>>
channelVars == <<conn, net, exited, startup, beside, serverSize>>
ghosts == <<asked, netSent, opsDone>>

SInit ==
    /\ automatic \in BOOLEAN /\ pc = "connect" /\ commands = <<>>
    /\ size = FirstSize /\ failures = 0 /\ retry = FALSE /\ result = "none"
    /\ conn = "none" /\ net = <<>> /\ exited = FALSE /\ startup = FALSE
    /\ install \in {"given", "told"} /\ beside = "no" /\ serverSize = FirstSize
    /\ status = "connecting" /\ live = FALSE
    /\ events = <<>> /\ receiver = TRUE /\ exitedSent = FALSE
    /\ asked = FirstSize /\ netSent = 0 /\ opsDone = 0

(***************************************************************************)
(* Output::send waits for room; note and warn are dropped without it.      *)
(***************************************************************************)
Send(e) == receiver /\ Len(events) < QueueMax /\ events' = Append(events, e)
TrySend(e) == IF receiver /\ Len(events) < QueueMax
              THEN events' = Append(events, e) ELSE UNCHANGED events

\* StatusSink: any state but Connected and the extras takes the connection away.
Shows(s) == status' = s /\ live' = (IF s = "connected" THEN live ELSE FALSE)

(***************************************************************************)
(* The pane: keys, resizes, closing (the handle is dropped with the        *)
(* engine).                                                                *)
(***************************************************************************)
Commands == {[k |-> "enter"], [k |-> "key"]} \cup [k : {"resize"}, size : Sizes]

Asks(c) ==
    /\ receiver /\ opsDone < MaxOps /\ opsDone' = opsDone + 1
    /\ commands' = Append(commands, c)
    /\ asked' = IF c.k = "resize" THEN c.size ELSE asked
    /\ UNCHANGED <<automatic, pc, size, failures, retry, result, channelVars, install,
                   paneVars, events, receiver, exitedSent, netSent>>

PaneCloses ==
    /\ receiver /\ receiver' = FALSE /\ events' = <<>>
    /\ commands' = Append(commands, [k |-> "shutdown"])
    /\ UNCHANGED <<automatic, pc, size, failures, retry, result, channelVars, install,
                   paneVars, exitedSent, ghosts>>

Hears ==
    /\ receiver /\ events # <<>> /\ events' = Tail(events)
    /\ UNCHANGED <<automatic, pc, commands, size, failures, retry, result, channelVars,
                   install, paneVars, receiver, exitedSent, ghosts>>

(***************************************************************************)
(* once: connecting, while resizes and a shutdown are followed.            *)
(***************************************************************************)
StartsConnecting == pc' = "connect" /\ Shows("connecting") /\ TrySend("output")

\* Connected: the state and the shared connection are shown, and the work beside
\* the shell starts.
Connects ==
    /\ pc = "connect" /\ pc' = "setup" /\ conn' = "up"
    /\ status' = "connected" /\ live' = TRUE
    /\ beside' = "running" /\ install' = IF install = "given" THEN "taken" ELSE install
    /\ UNCHANGED <<automatic, commands, size, failures, retry, result, net, exited,
                   startup, serverSize, events, receiver, exitedSent, ghosts>>

\* Disconnected: the state for the pane, and the two lines in the terminal.  The
\* second line is dropped with the first when there is no room, so one stands
\* for both.
Lost(final) ==
    /\ failures' = failures + 1
    /\ retry' = (automatic /\ ~final /\ failures + 1 <= MaxAttempts)
    /\ Shows(IF final THEN "failed" ELSE "disconnected")
    /\ TrySend("output")
    /\ pc' = "wait"

ConnectFails(final) ==
    /\ pc = "connect" /\ failures < MaxFailures /\ Lost(final)
    /\ UNCHANGED <<automatic, commands, size, result, channelVars, install, receiver,
                   exitedSent, asked, netSent, opsDone>>

NextCommand == commands # <<>> /\ commands' = Tail(commands)

ConnectCommand ==
    /\ pc = "connect" /\ NextCommand
    /\ LET c == Head(commands) IN
       /\ size' = IF c.k = "resize" THEN c.size ELSE size
       /\ pc' = IF c.k = "shutdown" THEN "ended" ELSE pc
    /\ UNCHANGED <<automatic, failures, retry, result, channelVars, install, paneVars,
                   events, receiver, exitedSent, ghosts>>

(***************************************************************************)
(* The shell's channel is opened, which the server answers when it likes,  *)
(* with the size of this moment; commands are left in the queue meanwhile. *)
(***************************************************************************)
SetUp ==
    /\ pc = "setup" /\ conn = "up" /\ pc' = "shell"
    /\ serverSize' = size /\ startup' = TRUE /\ exited' = FALSE
    /\ UNCHANGED <<automatic, commands, size, failures, retry, result, conn, net, beside,
                   install, paneVars, events, receiver, exitedSent, asked, netSent, opsDone>>

\* The server refuses the terminal, the forwardings or the shell, or is lost.
SetUpRefused ==
    /\ pc = "setup" /\ failures < MaxFailures /\ pc' = "join" /\ result' = "lost"
    /\ UNCHANGED <<automatic, commands, size, failures, retry, channelVars, install,
                   paneVars, events, receiver, exitedSent, ghosts>>

\* Detection has a timeout; copy_id::install has none, and waits for the server.
BesideEnds ==
    /\ beside = "running" /\ beside' = "done"
    /\ install' = IF install = "taken" THEN "told" ELSE install
    /\ UNCHANGED <<automatic, pc, commands, size, failures, retry, result, conn, net,
                   exited, startup, serverSize, paneVars, events, receiver, exitedSent,
                   ghosts>>

(***************************************************************************)
(* The server and the network.  "exit" is the exit status, the exit signal *)
(* or the end of the output, which all say that the shell is over.         *)
(***************************************************************************)
ServerSends(m) ==
    /\ pc \in {"shell", "data", "typing"} /\ conn = "up" /\ netSent < MaxNet
    /\ ~\E i \in DOMAIN net : net[i] = "close"
    /\ net' = Append(net, m) /\ netSent' = netSent + 1
    /\ UNCHANGED <<automatic, pc, commands, size, failures, retry, result, conn, exited,
                   startup, beside, serverSize, install, paneVars, events, receiver,
                   exitedSent, asked, opsDone>>

ConnectionLost ==
    /\ conn = "up" /\ failures < MaxFailures
    /\ conn' = "down"
    /\ UNCHANGED <<automatic, pc, commands, size, failures, retry, result, net, exited,
                   startup, beside, serverSize, install, paneVars, events, receiver,
                   exitedSent, ghosts>>

(***************************************************************************)
(* The shell's loop.                                                       *)
(***************************************************************************)
ShellEnds(r) == pc' = "join" /\ result' = r

Message ==
    /\ pc = "shell"
    /\ \/ /\ net # <<>> /\ net' = Tail(net)
          /\ exited' = (exited \/ Head(net) = "exit")
          /\ \/ Head(net) = "data" /\ pc' = "data" /\ UNCHANGED result
             \/ Head(net) = "exit" /\ UNCHANGED <<pc, result>>
             \/ /\ Head(net) = "close"
                /\ ShellEnds(IF exited \/ conn = "up" THEN "exited" ELSE "lost")
       \/ /\ net = <<>> /\ conn = "down"
          /\ ShellEnds(IF exited THEN "exited" ELSE "lost")
          /\ UNCHANGED <<net, exited>>
    /\ UNCHANGED <<automatic, commands, size, failures, retry, conn, startup, beside,
                   serverSize, install, paneVars, events, receiver, exitedSent, ghosts>>

\* channel.data: what is typed goes at once, or waits for room in the server's
\* window; on a lost connection it fails.  Nothing else is handled meanwhile.
Types ==
    \/ conn = "down" /\ ShellEnds("lost")
    \/ conn = "up" /\ pc' \in {"shell", "typing"} /\ UNCHANGED result

TypeEnds ==
    /\ pc = "typing"
    /\ \/ conn = "down" /\ ShellEnds("lost")
       \/ conn = "up" /\ pc' = "shell" /\ UNCHANGED result
    /\ UNCHANGED <<automatic, commands, size, failures, retry, channelVars, install,
                   paneVars, events, receiver, exitedSent, ghosts>>

\* The startup snippet is typed after the first output.
ShowData ==
    /\ pc = "data"
    /\ \/ /\ Send("output") /\ startup' = FALSE
          /\ IF startup THEN Types ELSE pc' = "shell" /\ UNCHANGED result
       \/ ~receiver /\ ShellEnds("shutdown") /\ UNCHANGED <<events, startup>>
    /\ UNCHANGED <<automatic, commands, size, failures, retry, conn, net, exited, beside,
                   serverSize, install, paneVars, receiver, exitedSent, ghosts>>

ShellCommand ==
    /\ pc = "shell" /\ NextCommand
    /\ LET c == Head(commands) IN
       \/ c.k \in {"enter", "key"} /\ Types /\ UNCHANGED <<size, serverSize>>
       \/ /\ c.k = "resize" /\ size' = c.size
          /\ serverSize' = IF conn = "up" THEN c.size ELSE serverSize
          /\ UNCHANGED <<pc, result>>
       \/ /\ c.k = "shutdown" /\ ShellEnds("shutdown") /\ UNCHANGED <<size, serverSize>>
    /\ UNCHANGED <<automatic, failures, retry, conn, net, exited, startup, beside,
                   install, paneVars, events, receiver, exitedSent, ghosts>>

(***************************************************************************)
(* After the join the connection is closed and run decides what follows.   *)
(***************************************************************************)
Closed == conn' = "none" /\ net' = <<>> /\ beside' = "no"

JoinLost ==
    /\ pc = "join" /\ beside = "done" /\ result = "lost" /\ Closed /\ Lost(FALSE)
    /\ UNCHANGED <<automatic, commands, size, result, exited, startup, serverSize,
                   install, receiver, exitedSent, asked, netSent, opsDone>>

JoinEnds ==
    /\ pc = "join" /\ beside = "done" /\ Closed
    /\ \/ result = "shutdown" /\ pc' = "ended" /\ UNCHANGED paneVars
       \/ result = "exited" /\ pc' = "exit" /\ Shows("ended")
    /\ UNCHANGED <<automatic, commands, size, failures, retry, result, exited, startup,
                   serverSize, install, events, receiver, exitedSent, ghosts>>

SendExited ==
    /\ pc = "exit" /\ pc' = "last" /\ exitedSent' = TRUE
    /\ Send("exited") \/ (~receiver /\ UNCHANGED events)
    /\ UNCHANGED <<automatic, commands, size, failures, retry, result, channelVars,
                   install, paneVars, receiver, ghosts>>

TaskEnds ==
    /\ pc = "last" /\ pc' = "ended"
    /\ UNCHANGED <<automatic, commands, size, failures, retry, result, channelVars,
                   install, paneVars, events, receiver, exitedSent, ghosts>>

(***************************************************************************)
(* wait_for_enter.                                                         *)
(***************************************************************************)
RetryTimer ==
    /\ pc = "wait" /\ retry /\ StartsConnecting
    /\ UNCHANGED <<automatic, commands, size, failures, retry, result, channelVars,
                   install, receiver, exitedSent, ghosts>>

WaitIgnoresSize ==
    /\ pc = "wait" /\ NextCommand
    /\ LET c == Head(commands) IN
       \/ c.k = "enter" /\ StartsConnecting
       \/ c.k \in {"key", "resize"} /\ UNCHANGED <<pc, events, paneVars>>
       \/ c.k = "shutdown" /\ pc' = "ended" /\ UNCHANGED <<events, paneVars>>
    /\ UNCHANGED <<automatic, size, failures, retry, result, channelVars, install,
                   receiver, exitedSent, ghosts>>
WaitCommand ==
    /\ pc = "wait" /\ NextCommand
    /\ LET c == Head(commands) IN
       \/ c.k = "enter" /\ StartsConnecting /\ UNCHANGED size
       \/ c.k = "key" /\ UNCHANGED <<pc, size, events, paneVars>>
       \/ c.k = "resize" /\ size' = c.size /\ UNCHANGED <<pc, events, paneVars>>
       \/ c.k = "shutdown" /\ pc' = "ended" /\ UNCHANGED <<size, events, paneVars>>
    /\ UNCHANGED <<automatic, failures, retry, result, channelVars, install, receiver,
                   exitedSent, ghosts>>

TaskSteps ==
    \/ Connects \/ ConnectFails(FALSE) \/ ConnectFails(TRUE) \/ ConnectCommand
    \/ conn = "down" /\ (SetUpRefused \/ TypeEnds)
    \/ Message \/ ShowData \/ ShellCommand
    \/ JoinLost \/ JoinEnds \/ SendExited \/ TaskEnds \/ RetryTimer \/ WaitCommand

\* Detection ends, and the installation once the connection is down.
BesideDue == BesideEnds /\ (install # "taken" \/ conn = "down")

SNext ==
    \/ \E c \in Commands : Asks(c)
    \/ PaneCloses \/ Hears
    \/ Connects \/ (\E final \in BOOLEAN : ConnectFails(final)) \/ ConnectCommand
    \/ SetUp \/ SetUpRefused \/ BesideEnds
    \/ (\E m \in {"data", "exit", "close"} : ServerSends(m)) \/ ConnectionLost
    \/ Message \/ ShowData \/ TypeEnds \/ ShellCommand
    \/ JoinLost \/ JoinEnds \/ SendExited \/ TaskEnds \/ RetryTimer \/ WaitCommand

SSpec == SInit /\ [][SNext]_sshVars

\* The runtime polls the task, what has a timeout or lost its connection ends, and
\* the engine takes events.  Nothing obliges the server to open a channel, to make
\* room in its window or to run the installation, nor a connection to be lost.
SFairness == WF_sshVars(TaskSteps) /\ WF_sshVars(BesideDue) /\ WF_sshVars(Hears)

-----------------------------------------------------------------------------
ChannelPhase ==
    IF pc = "ended" THEN "closed" ELSE IF exitedSent THEN "exited" ELSE "open"

Contract == INSTANCE BackendContract WITH
    queue <- events, phase <- ChannelPhase, heard <- receiver
KeepsContract == Contract!CSpec

\* Whatever was resized while connecting, waiting or during a loss, the server
\* has the pane's size once its commands are handled.
SizeFollows ==
    pc = "shell" /\ commands = <<>> /\ conn = "up" => serverSize = asked

\* The pane shows what the task does: a connection is offered to other channels
\* only while its session lasts, and a pane that says it retries does.
PaneTruth ==
    receiver =>
    /\ live => pc \in {"setup", "shell", "data", "typing", "join"}
    /\ status = "disconnected" => pc = "wait"
    /\ pc = "wait" => status \in {"disconnected", "failed"}
    /\ pc \in {"setup", "shell", "data", "typing"} => status = "connected" /\ live

\* What has no timeout: the server is to answer, over a connection that is up.
ServerAwaited ==
    /\ conn = "up"
    /\ pc \in {"setup", "typing"} \/ (pc = "join" /\ install = "taken")

\* A closed pane's task ends, unless it waits for an answer without a time limit.
ClosedIsOver == ~receiver => pc = "ended" \/ ServerAwaited
ClosedEnds == []<>ClosedIsOver
=============================================================================
