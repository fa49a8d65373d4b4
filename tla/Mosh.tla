-------------------------------- MODULE Mosh --------------------------------
(***************************************************************************)
(* A mosh session (opensesh-proto-misc/src/mosh.rs): an SSH connection     *)
(* starts mosh-server and closes, then mosh-client runs in a local PTY     *)
(* whose events a thread passes on to the pane's channel.  The PTY is used *)
(* through its contract only (BackendContract), on a queue of its own.     *)
(***************************************************************************)
EXTENDS Naturals, Sequences

CONSTANTS QueueMax,   \* both channels' bound
          Sizes, FirstSize,
          MaxOps      \* bound: what the pane asks

VARIABLES
    pc,        \* "find", "connect", "server", "resolve", "retry", "enter", "launch",
               \* "client", "fail", "exit", "last", "ended"
    commands, size,
    inner, innerPhase, innerHeard, \* the PTY's channel
    ptySize,   \* the size the PTY has
    forward,   \* the forwarding thread: "off", "recv", or the event it holds
    stopped,   \* pty.shutdown was called
    status,    \* what the pane shows
    events, receiver, exitedSent,
    asked, opsDone

moshVars == <<pc, commands, size, inner, innerPhase, innerHeard, ptySize, forward, stopped,
              status, events, receiver, exitedSent, asked, opsDone>>
pty == <<inner, innerPhase, innerHeard, ptySize, stopped>>
outer == <<events, receiver, exitedSent>>
ghosts == <<asked, opsDone>>

Pty == INSTANCE BackendContract WITH queue <- inner, phase <- innerPhase, heard <- innerHeard

OInit ==
    /\ pc = "find" /\ commands = <<>> /\ size = FirstSize
    /\ inner = <<>> /\ innerPhase = "none" /\ innerHeard = TRUE /\ ptySize = FirstSize
    /\ forward = "off" /\ stopped = FALSE /\ status = "connecting"
    /\ events = <<>> /\ receiver = TRUE /\ exitedSent = FALSE
    /\ asked = FirstSize /\ opsDone = 0

Sent(e) == IF receiver THEN Len(events) < QueueMax /\ events' = Append(events, e)
           ELSE UNCHANGED events

(***************************************************************************)
(* The pane.                                                               *)
(***************************************************************************)
Commands == {[k |-> "enter"]} \cup [k : {"resize"}, size : Sizes]

PaneAsks(c) ==
    /\ receiver /\ opsDone < MaxOps /\ opsDone' = opsDone + 1
    /\ commands' = Append(commands, c)
    /\ asked' = IF c.k = "resize" THEN c.size ELSE asked
    /\ UNCHANGED <<pc, size, pty, forward, status, outer>>

PaneCloses ==
    /\ receiver /\ receiver' = FALSE /\ events' = <<>>
    /\ commands' = Append(commands, [k |-> "shutdown"])
    /\ UNCHANGED <<pc, size, pty, forward, status, exitedSent, ghosts>>

Hears ==
    /\ receiver /\ events # <<>> /\ events' = Tail(events)
    /\ UNCHANGED <<pc, commands, size, pty, forward, status, receiver, exitedSent, ghosts>>

(***************************************************************************)
(* run, to the client's start.  A failure that another try may mend waits  *)
(* for Enter.                                                              *)
(***************************************************************************)
Ended == status' = "ended" /\ pc' = "fail"

FindClient ==
    /\ pc = "find"
    /\ (pc' = "connect" /\ UNCHANGED status) \/ Ended
    /\ UNCHANGED <<commands, size, pty, forward, outer, ghosts>>

\* start_server: connecting, starting the program, resolving the address.
Following == {"connect", "server", "resolve"}
NextStep == [connect |-> "server", server |-> "resolve", resolve |-> "launch"]

StepWorks ==
    /\ pc \in Following /\ pc' = NextStep[pc]
    /\ status' = IF pc = "connect" THEN "connected" ELSE status
    /\ Sent("output")
    /\ UNCHANGED <<commands, size, pty, forward, receiver, exitedSent, ghosts>>

StepFails ==
    /\ pc \in Following
    /\ \/ pc' = "retry" /\ status' = "disconnected"
       \/ pc = "server" /\ Ended
    /\ UNCHANGED <<commands, size, pty, forward, outer, ghosts>>

\* follow.
Follow ==
    /\ pc \in Following /\ commands # <<>> /\ commands' = Tail(commands)
    /\ LET c == Head(commands) IN
       /\ size' = IF c.k = "resize" THEN c.size ELSE size
       /\ pc' = IF c.k = "shutdown" THEN "ended" ELSE pc
    /\ UNCHANGED <<pty, forward, status, outer, ghosts>>

OfferEnter ==
    /\ pc = "retry" /\ pc' = "enter" /\ Sent("output")
    /\ UNCHANGED <<commands, size, pty, forward, status, receiver, exitedSent, ghosts>>

WaitForEnter ==
    /\ pc = "enter" /\ commands # <<>> /\ commands' = Tail(commands)
    /\ LET c == Head(commands) IN
       /\ size' = IF c.k = "resize" THEN c.size ELSE size
       /\ pc' = CASE c.k = "enter" -> "connect" [] c.k = "shutdown" -> "ended"
                  [] OTHER -> pc
    /\ UNCHANGED <<pty, forward, status, outer, ghosts>>

(***************************************************************************)
(* run_client: the PTY, the forwarding thread, then the pane's commands.   *)
(***************************************************************************)
Launch ==
    /\ pc = "launch" /\ ptySize' = size
    /\ \/ pc' = "client" /\ innerPhase' = "open" /\ forward' = "recv"
          /\ UNCHANGED <<innerHeard, stopped>>
       \/ pc' = "fail" /\ innerPhase' = "open" /\ innerHeard' = FALSE /\ stopped' = TRUE
          /\ UNCHANGED forward
       \/ pc' = "fail" /\ UNCHANGED <<innerPhase, innerHeard, stopped, forward>>
    /\ UNCHANGED <<commands, size, inner, status, outer, ghosts>>

ClientCommand ==
    /\ pc = "client" /\ commands # <<>> /\ commands' = Tail(commands)
    /\ LET c == Head(commands) IN
       /\ ptySize' = IF c.k = "resize" THEN c.size ELSE ptySize
       /\ pc' = IF c.k = "shutdown" THEN "ended" ELSE pc
       /\ stopped' = (stopped \/ c.k = "shutdown")
    /\ UNCHANGED <<size, inner, innerPhase, innerHeard, forward, status, outer, ghosts>>

\* Output::fail.
SendError ==
    /\ pc = "fail" /\ pc' = "exit" /\ Sent("output")
    /\ UNCHANGED <<commands, size, pty, forward, status, receiver, exitedSent, ghosts>>

SendExited ==
    /\ pc = "exit" /\ pc' = "last" /\ Sent("exited") /\ exitedSent' = TRUE
    /\ UNCHANGED <<commands, size, pty, forward, status, receiver, ghosts>>

TaskEnds ==
    /\ pc = "last" /\ pc' = "ended"
    /\ UNCHANGED <<commands, size, pty, forward, status, outer, ghosts>>

(***************************************************************************)
(* The forwarding thread and the PTY.                                      *)
(***************************************************************************)
ForwardTakes ==
    /\ forward = "recv"
    /\ \/ /\ inner # <<>> /\ forward' = Head(inner) /\ inner' = Tail(inner)
       \/ /\ inner = <<>> /\ innerPhase = "closed" /\ forward' = "ended"
          /\ UNCHANGED inner
    /\ UNCHANGED <<pc, commands, size, innerPhase, innerHeard, ptySize, stopped, status,
                   outer, ghosts>>

ForwardEndsToo ==
    /\ forward \in {"output", "exited"} /\ Sent(forward)
    /\ exitedSent' = (exitedSent \/ forward = "exited")
    /\ forward' = IF receiver THEN "recv" ELSE "ended"
    /\ innerHeard' = receiver /\ inner' = IF receiver THEN inner ELSE <<>>
    /\ pc' = IF pc = "client" /\ forward = "exited" THEN "exit" ELSE pc
    /\ UNCHANGED <<commands, size, innerPhase, ptySize, stopped, status, receiver, ghosts>>
ForwardSends ==
    /\ forward \in {"output", "exited"} /\ Sent(forward)
    /\ exitedSent' = (exitedSent \/ forward = "exited")
    /\ forward' = IF receiver THEN "recv" ELSE "ended"
    /\ innerHeard' = receiver /\ inner' = IF receiver THEN inner ELSE <<>>
    /\ UNCHANGED <<pc, commands, size, innerPhase, ptySize, stopped, status, receiver, ghosts>>

PtyStep ==
    /\ innerPhase # "none" /\ (Pty!Emit \/ Pty!Exit)
    /\ UNCHANGED <<pc, commands, size, ptySize, forward, stopped, status, outer, ghosts>>

\* A PTY that was told to stop, or whose program ended, closes its channel.
PtyCloses ==
    /\ (stopped \/ innerPhase = "exited") /\ innerPhase # "none" /\ Pty!CloseChannel
    /\ UNCHANGED <<pc, commands, size, ptySize, forward, stopped, status, outer, ghosts>>

TaskSteps ==
    FindClient \/ StepWorks \/ StepFails \/ Follow \/ OfferEnter \/ WaitForEnter \/ Launch
    \/ ClientCommand \/ SendError \/ SendExited \/ TaskEnds

ONext ==
    \/ \E c \in Commands : PaneAsks(c)
    \/ PaneCloses \/ Hears
    \/ FindClient \/ StepWorks \/ StepFails \/ Follow \/ OfferEnter \/ WaitForEnter
    \/ Launch \/ ClientCommand \/ SendError \/ SendExited \/ TaskEnds
    \/ ForwardTakes \/ ForwardSends \/ PtyStep \/ PtyCloses

OSpec == OInit /\ [][ONext]_moshVars

\* The task and the thread run, the PTY keeps its promise to close, the engine takes events.
OFairness ==
    /\ WF_moshVars(TaskSteps) /\ WF_moshVars(ForwardTakes \/ ForwardSends)
    /\ WF_moshVars(PtyCloses) /\ WF_moshVars(Hears)

-----------------------------------------------------------------------------
ChannelPhase ==
    IF pc = "ended" /\ forward \in {"off", "ended"} THEN "closed"
    ELSE IF exitedSent THEN "exited" ELSE "open"

Contract == INSTANCE BackendContract WITH
    queue <- events, phase <- ChannelPhase, heard <- receiver
KeepsContract == Contract!CSpec

\* mosh-client has the pane's size once the pane's commands are handled, whenever
\* it was resized: while connecting, waiting for Enter or starting.
ClientSize == pc = "client" /\ commands = <<>> => ptySize = asked

\* A closed pane's task, thread and PTY all end.
ClosedIsOver ==
    ~receiver => /\ pc = "ended" /\ forward \in {"off", "ended"}
                 /\ innerPhase \in {"none", "closed"}
ClosedEnds == []<>ClosedIsOver
=============================================================================
