------------------------------- MODULE Serial -------------------------------
(***************************************************************************)
(* A serial session (opensesh-proto-misc/src/serial.rs): a thread opens    *)
(* the device and reads it, a second one writes what is typed and sends    *)
(* breaks; both watch the flag `stop` and send to the engine's channel.    *)
(* What is read is "data", lines of the backend's own and local echo are   *)
(* "note".                                                                 *)
(***************************************************************************)
EXTENDS Naturals, Sequences

CONSTANTS QueueMax,   \* the channel's bound (512)
          MaxReads,   \* bound: chunks the device sends
          MaxOps      \* bound: what the pane asks

VARIABLES
    pc,       \* reader: "open", "opened", "loop", "switch", "send", "flush", "gone",
              \* "fail", "exit", "ended"
    writer,   \* "off", "loop", "echo", "write", "break", "ended", "broken"
    device,   \* "ok", "gone"
    got,      \* what the read gave: "none", "quiet", "data", "error"
    commands, stop, breaks, hex,  \* shared with the handle and SerialControl
    showing, line, \* the reader's view, and a hex line under way
    echoes,   \* spec.local_echo
    events, receiver, exitedSent,
    reads, opsDone

serialVars == <<pc, writer, device, got, commands, stop, breaks, hex, showing, line, echoes,
                events, receiver, exitedSent, reads, opsDone>>
shared == <<commands, stop, breaks, hex>>
view == <<showing, line, echoes>>
counters == <<reads, opsDone>>

YInit ==
    /\ pc = "open" /\ writer = "off" /\ device = "ok" /\ got = "none"
    /\ commands = <<>> /\ stop = FALSE /\ breaks = FALSE /\ hex = FALSE
    /\ showing = FALSE /\ line = FALSE /\ echoes \in BOOLEAN
    /\ events = <<>> /\ receiver = TRUE /\ exitedSent = FALSE /\ reads = 0 /\ opsDone = 0

\* A send waits for room; without a receiver it fails at once.
Sent(e) == IF receiver THEN Len(events) < QueueMax /\ events' = Append(events, e)
           ELSE UNCHANGED events

(***************************************************************************)
(* The pane and the device.                                                *)
(***************************************************************************)
Op == opsDone < MaxOps /\ opsDone' = opsDone + 1
PaneAsks ==
    /\ receiver /\ Op
    /\ \/ commands' = Append(commands, "input") /\ UNCHANGED <<breaks, hex>>
       \/ breaks' = TRUE /\ UNCHANGED <<commands, hex>>
       \/ hex' = ~hex /\ UNCHANGED <<commands, breaks>>
    /\ UNCHANGED <<pc, writer, device, got, stop, view, events, receiver, exitedSent, reads>>

\* Handle::shutdown, and the engine is gone.
PaneCloses ==
    /\ receiver /\ receiver' = FALSE /\ events' = <<>>
    /\ stop' = TRUE /\ commands' = Append(commands, "shutdown")
    /\ UNCHANGED <<pc, writer, device, got, breaks, hex, view, exitedSent, counters>>

Hears ==
    /\ receiver /\ events # <<>> /\ events' = Tail(events)
    /\ UNCHANGED <<pc, writer, device, got, shared, view, receiver, exitedSent, counters>>

DeviceGone ==
    /\ device = "ok" /\ device' = "gone"
    /\ UNCHANGED <<pc, writer, got, shared, view, events, receiver, exitedSent, counters>>

(***************************************************************************)
(* run: open, clone, start the writer; each may fail.                      *)
(***************************************************************************)
OpenNote ==
    /\ pc = "open" /\ pc' \in {"opened", "fail"} /\ Sent("note")
    /\ UNCHANGED <<writer, device, got, shared, view, receiver, exitedSent, counters>>

StartWriter ==
    /\ pc = "opened" /\ Sent("note")
    /\ \/ pc' = "loop" /\ writer' = "loop"
       \/ pc' = "fail" /\ UNCHANGED writer
    /\ UNCHANGED <<device, got, shared, view, receiver, exitedSent, counters>>

SendError ==
    /\ pc = "fail" /\ pc' = "exit" /\ Sent("note")
    /\ UNCHANGED <<writer, device, got, shared, view, receiver, exitedSent, counters>>

\* The reader that leaves stops the writer; before there is one, it just ends.
SendExited ==
    /\ pc = "exit" /\ pc' = "ended" /\ exitedSent' = TRUE /\ Sent("exited")
    /\ stop' = (stop \/ writer # "off")
    /\ UNCHANGED <<writer, device, got, commands, breaks, hex, view, receiver, counters>>

(***************************************************************************)
(* The reader's loop.                                                      *)
(***************************************************************************)
Read ==
    /\ pc = "loop" /\ ~stop /\ pc' = "switch"
    /\ IF device = "gone" THEN got' = "error" /\ UNCHANGED reads
       ELSE \/ got' = "quiet" /\ UNCHANGED reads
            \/ got' = "data" /\ reads < MaxReads /\ reads' = reads + 1
    /\ UNCHANGED <<writer, device, shared, view, events, receiver, exitedSent, opsDone>>

ReaderStops ==
    /\ pc = "loop" /\ stop /\ pc' = "ended"
    /\ UNCHANGED <<writer, device, got, shared, view, events, receiver, exitedSent, counters>>

\* A changed view ends the hex line first; then what was read.
SwitchView ==
    /\ pc = "switch" /\ pc' = "send"
    /\ IF hex # showing THEN showing' = hex /\ line' = FALSE /\ Sent("note")
       ELSE UNCHANGED <<showing, line, events>>
    /\ UNCHANGED <<writer, device, got, shared, echoes, receiver, exitedSent, counters>>

Show ==
    /\ pc = "send" /\ got \in {"data", "quiet"}
    /\ \/ /\ got = "data" /\ Sent("data") /\ line' \in (IF showing THEN BOOLEAN ELSE {line})
          /\ pc' = IF receiver THEN "loop" ELSE "ended"
          /\ stop' = (stop \/ ~receiver)
       \/ /\ got = "quiet" /\ pc' = "loop" /\ UNCHANGED stop
          /\ \/ line /\ line' = FALSE /\ Sent("data")
             \/ UNCHANGED <<line, events>>
    /\ UNCHANGED <<writer, device, got, commands, breaks, hex, showing, echoes, receiver,
                   exitedSent, counters>>

ReadFailed ==
    /\ pc = "send" /\ got = "error"
    /\ IF stop THEN pc' = "ended" ELSE pc' = "fail"
    /\ UNCHANGED <<writer, device, got, shared, view, events, receiver, exitedSent, counters>>

(***************************************************************************)
(* write_loop.                                                             *)
(***************************************************************************)
WriterLoop ==
    /\ writer = "loop"
    /\ \/ stop /\ writer' = "ended" /\ UNCHANGED <<breaks, commands>>
       \/ ~stop /\ breaks /\ breaks' = FALSE /\ writer' = "break" /\ UNCHANGED commands
       \/ /\ ~stop /\ ~breaks /\ commands # <<>> /\ commands' = Tail(commands)
          /\ UNCHANGED breaks
          /\ writer' = IF Head(commands) = "shutdown" THEN "ended"
                       ELSE IF echoes THEN "echo" ELSE "write"
    /\ UNCHANGED <<pc, device, got, stop, hex, view, events, receiver, exitedSent, counters>>

WriterSends ==
    /\ writer \in {"break", "echo"} /\ Sent("note")
    /\ writer' = IF writer = "break" THEN "loop" ELSE "write"
    /\ UNCHANGED <<pc, device, got, shared, view, receiver, exitedSent, counters>>

\* write_all and the flush, which has no timeout: a device that holds the line
\* (flow control) makes it wait.  A write may also give up, with the device there.
WriterWrites ==
    /\ writer = "write"
    /\ \/ device = "ok" /\ writer' = "loop"
       \/ writer' = "broken"
    /\ UNCHANGED <<pc, device, got, shared, view, events, receiver, exitedSent, counters>>

YNext ==
    \/ PaneAsks \/ PaneCloses \/ Hears \/ DeviceGone
    \/ OpenNote \/ StartWriter \/ SendError \/ SendExited
    \/ Read \/ ReaderStops \/ SwitchView \/ Show \/ ReadFailed
    \/ WriterLoop \/ WriterSends \/ WriterWrites

YSpec == YInit /\ [][YNext]_serialVars

ReaderSteps == OpenNote \/ StartWriter \/ SendError \/ SendExited \/ Read \/ ReaderStops
               \/ SwitchView \/ Show \/ ReadFailed
WriterSteps == WriterLoop \/ WriterSends \/ (device = "gone" /\ WriterWrites)

\* Both threads run and the engine takes what is there; nothing obliges a device
\* to take what is written to it, but a write to one that is gone fails.
YFairness == WF_serialVars(ReaderSteps) /\ WF_serialVars(WriterSteps) /\ WF_serialVars(Hears)

-----------------------------------------------------------------------------
\* Nothing the device sent comes after Exited, whichever thread was sending.
At(e) == {i \in DOMAIN events : events[i] = e}
DeviceBeforeExit ==
    \A i \in At("exited") : \A j \in At("data") : j < i

\* A closed session frees the port: both threads end, unless the writer waits for
\* a device that is there and does not take what was typed.
ClosedIsOver ==
    ~receiver => /\ pc = "ended"
                 /\ \/ writer \in {"off", "ended", "broken"}
                    \/ writer = "write" /\ device = "ok"
ClosedEnds == []<>ClosedIsOver
=============================================================================
