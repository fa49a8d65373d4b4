-------------------------- MODULE TerminalSession --------------------------
(***************************************************************************)
(* A terminal session (opensesh-term/src/session.rs): the engine thread    *)
(* that parses a backend's output into the Term, and the handle the GUI    *)
(* uses.  The engine selects over the backend's events, the commands of    *)
(* the handles and a timer; every loop it handles the queued commands,     *)
(* pulls output, parses one chunk under the lock, runs the timers and      *)
(* reports the program's end.  It shares with the handles the Term (under  *)
(* a lock) and a few atomic flags.                                         *)
(*                                                                         *)
(* The screen is a version number: `ver` grows with every change of what   *)
(* the Term shows, and `base` is the version the damage of the Term is     *)
(* relative to (the version of the last frame copied out of it).  One      *)
(* throttled notice, the title, stands for the six kinds, which share      *)
(* their code.  Output is a chunk: a synchronized update's start or        *)
(* end, a title, or text.                                                  *)
(***************************************************************************)
EXTENDS Naturals, Sequences

CONSTANTS Titles,     \* the titles a program may set
          Sizes,      \* grid sizes
          FirstSize,  \* the size the session starts with
          Unset,
          QueueMax,   \* EVENT_QUEUE: events in flight from the backend
          PendingMax, \* PENDING_LIMIT: chunks pulled ahead of the parser
          MaxOut      \* bound: chunks the program prints

VARIABLES
    events,   \* the backend's channel
    printed,  \* chunks printed so far (bounds the run)
    backend,  \* the program: "running", "exited" (told), "gone" (channel closed)
    program,  \* the window size the program was told
    commands, \* what the handles asked for, in order
    pc,       \* where the engine thread is in its loop
    pending,  \* chunks pulled and not parsed
    ver, damageBase, termSize, \* the Term
    full,     \* the next frame holds every row (full_redraw, or `shown` differs)
    focused,  \* the Term was told it has the keyboard focus
    dirty, synchronized, pasting, closed,  \* atomics shared with the handles
    hold,     \* sync_hold: "no", "fresh", "over" (SYNC_HOLD has passed)
    side,     \* the side parser is inside a synchronized update
    title,    \* Throttled: [pending, last, recent]
    paste,    \* [left, at]: chunks of a paced paste, when the next one goes
    size, resize, \* the engine's size and the one still to apply
    exit, reported, \* the end of the program, and whether it was told
    notified  \* notices being delivered by the callback, on the engine thread

termVars == <<ver, damageBase, termSize, full, focused>>
flags == <<dirty, synchronized, pasting, closed>>
sessionVars == <<events, printed, backend, program, commands, pc, pending, ver,
                 damageBase, termSize, full, focused, dirty, synchronized, pasting, closed,
                 hold, side, title, paste, size, resize, exit, reported, notified>>

SInit ==
    /\ events = <<>> /\ printed = 0 /\ backend = "running"
    /\ program = FirstSize
    /\ commands = <<>> /\ pc = "loop" /\ pending = <<>>
    /\ ver = 0 /\ damageBase = 0 /\ termSize = FirstSize /\ full = TRUE /\ focused = FALSE
    /\ dirty = FALSE /\ synchronized = FALSE /\ pasting = FALSE /\ closed = FALSE
    /\ hold = "no" /\ side = FALSE
    /\ title = [pending |-> Unset, last |-> Unset, recent |-> FALSE]
    /\ paste = [left |-> 0, at |-> "none"]
    /\ size = FirstSize /\ resize = Unset
    /\ exit = FALSE /\ reported = FALSE /\ notified = <<>>

(***************************************************************************)
(* Shared::emit and Shared::mark_dirty, as what they add to the notices.   *)
(***************************************************************************)
Emitted(n) == IF closed THEN notified ELSE Append(notified, n)

MarkDirty ==
    /\ dirty' = TRUE
    /\ notified' = IF dirty THEN notified ELSE Emitted([k |-> "dirty"])

\* The engine thread goes on once the callback has returned.
Engine(at) == pc = at /\ notified = <<>>

(***************************************************************************)
(* The backend's side of the channel: output, then the end, then the       *)
(* channel closes.  A stopped engine no longer receives.                   *)
(***************************************************************************)
Outputs(kind) ==
    /\ backend = "running" /\ printed < MaxOut /\ Len(events) < QueueMax
    /\ printed' = printed + 1
    /\ events' = Append(events, kind)
    /\ UNCHANGED <<backend, program, commands, pc, pending, termVars, flags, hold,
                   side, title, paste, size, resize, exit, reported, notified>>

Ends ==
    /\ \/ /\ backend = "running" /\ Len(events) < QueueMax
          /\ backend' = "exited" /\ events' = Append(events, "exit")
       \/ /\ backend \in {"running", "exited"}
          /\ backend' = "gone" /\ UNCHANGED events
    /\ UNCHANGED <<printed, program, commands, pc, pending, termVars, flags, hold,
                   side, title, paste, size, resize, exit, reported, notified>>

(***************************************************************************)
(* Backend events.  Received(s) is the state after the events s are        *)
(* handled: output is queued for the parser, the end is remembered.        *)
(***************************************************************************)
Ended(s) == s # <<>> /\ s[Len(s)] = "exit"   \* the end comes last (BackendContract)
Output(s) == IF Ended(s) THEN SubSeq(s, 1, Len(s) - 1) ELSE s

(***************************************************************************)
(* Commands, one at a time, until the queue is empty.                      *)
(***************************************************************************)
EndPaste == paste' = [left |-> 0, at |-> "none"] /\ pasting' = FALSE

\* A chunk of the paste goes to the program; the last one ends the paste.
SendChunk ==
    IF paste.left = 1 THEN EndPaste
    ELSE paste' = [left |-> paste.left - 1, at |-> "later"] /\ UNCHANGED pasting

Paced(c) ==
    /\ paste' = [left |-> paste.left + c.n,
                 at |-> IF paste.at = "none" THEN "now" ELSE paste.at]
    /\ pc' = IF paste.at = "none" THEN "pasteTimers" ELSE pc
    /\ UNCHANGED <<termVars, flags, resize, notified>>

CancelPaste ==
    EndPaste /\ UNCHANGED <<pc, termVars, dirty, synchronized, closed, resize, notified>>

\* A size that waits for its turn is replaced by a later one.
Resize(c) == resize' = c.size /\ UNCHANGED <<pc, termVars, flags, paste, notified>>

\* The cursor's shape changes with the focus.
Focus(c) ==
    /\ focused' = c.f
    /\ IF c.f = focused THEN UNCHANGED <<ver, dirty, notified>>
       ELSE ver' = ver + 1 /\ MarkDirty
    /\ UNCHANGED <<pc, damageBase, termSize, full, synchronized, pasting, closed, paste, resize>>

Redraw ==
    MarkDirty /\ UNCHANGED <<pc, termVars, synchronized, pasting, closed, paste, resize>>

Shutdown == pc' = "stopped" /\ UNCHANGED <<termVars, flags, paste, resize, notified>>

Command ==
    /\ Engine("loop") /\ commands # <<>>
    /\ commands' = Tail(commands)
    /\ LET c == Head(commands) IN
       \/ c.k = "paced" /\ Paced(c)
       \/ c.k = "cancel" /\ CancelPaste
       \/ c.k = "resize" /\ Resize(c)
       \/ c.k = "focus" /\ Focus(c)
       \/ c.k = "redraw" /\ Redraw
       \/ c.k = "shutdown" /\ Shutdown
    /\ UNCHANGED <<events, printed, backend, program, pending, hold, side, title, size,
                   exit, reported>>

\* apply_resize: the Term first, then the backend.
ApplyResize ==
    /\ Engine("loop") /\ commands = <<>> /\ resize # Unset
    /\ resize' = Unset
    /\ IF resize = size THEN UNCHANGED <<ver, termSize, full, size, program, dirty, notified>>
       ELSE /\ ver' = ver + 1 /\ termSize' = resize /\ size' = resize /\ full' = TRUE
            /\ program' = IF backend = "running" THEN resize ELSE program
            /\ MarkDirty
    /\ UNCHANGED <<events, printed, backend, commands, pc, pending, damageBase, focused,
                   synchronized, pasting, closed, hold, side, title, paste, exit,
                   reported>>

(***************************************************************************)
(* One turn of the loop, once the commands are handled.  pull_output moves *)
(* what is there into `pending`, up to the limit; a closed and empty       *)
(* channel is the end, known or not.  parse_chunk: under the lock the Term *)
(* and the side parser take a chunk (several small ones together), and the *)
(* events of the parser are handled; after the unlock the synchronized     *)
(* flag is stored, then the redraw is asked for.                           *)
(***************************************************************************)
Room == IF Len(pending) >= PendingMax THEN 0 ELSE PendingMax - Len(pending)
Pulled == SubSeq(events, 1, IF Len(events) < Room THEN Len(events) ELSE Room)
Exits == exit \/ Ended(Pulled)
              \/ (backend = "gone" /\ Len(events) = Len(Pulled) /\ Len(events) < Room)

LastOf(s, set, old) ==
    IF \E i \in DOMAIN s : s[i] \in set
    THEN s[CHOOSE i \in DOMAIN s : s[i] \in set /\ \A j \in i + 1..Len(s) : s[j] \notin set]
    ELSE old

TimerDue == hold = "over" \/ paste.at = "now" \/ (title.pending # Unset /\ ~title.recent)

Turn ==
    /\ Engine("loop") /\ commands = <<>> /\ resize = Unset
    /\ events' = SubSeq(events, Len(Pulled) + 1, Len(events))
    /\ exit' = Exits
    /\ LET waiting == pending \o Output(Pulled) IN
       \/ /\ waiting = <<>> /\ (TimerDue \/ Exits # exit)
          /\ pc' = "timers"
          /\ UNCHANGED <<pending, ver, side, title>>
       \/ \E n \in 1..Len(waiting) :
          LET chunk == SubSeq(waiting, 1, n) IN
          /\ pc' = "publish"
          /\ pending' = SubSeq(waiting, n + 1, Len(waiting))
          /\ ver' = ver + 1
          /\ side' = (LastOf(chunk, {"syncOn", "syncOff"},
                             IF side THEN "syncOn" ELSE "syncOff") = "syncOn")
          /\ title' = [title EXCEPT !.pending = LastOf(chunk, Titles, @)]
    /\ UNCHANGED <<printed, backend, program, commands, damageBase, termSize, full,
                   focused, flags, hold, paste, size, resize, reported, notified>>

Publish ==
    /\ Engine("publish")
    /\ synchronized' = IF side /\ hold # "no" THEN synchronized ELSE side
    /\ hold' = IF ~side THEN "no" ELSE IF hold = "no" THEN "fresh" ELSE hold
    /\ pc' = IF side THEN "timers" ELSE "mark"
    /\ UNCHANGED <<events, printed, backend, program, commands, pending, termVars,
                   dirty, pasting, closed, side, title, paste, size, resize, exit,
                   reported, notified>>

Mark ==
    /\ Engine("mark") /\ pc' = "timers" /\ MarkDirty
    /\ UNCHANGED <<events, printed, backend, program, commands, pending, termVars,
                   synchronized, pasting, closed, hold, side, title, paste, size,
                   resize, exit, reported>>

(***************************************************************************)
(* Timers: a synchronized update that was never ended is shown, the next   *)
(* chunk of a paced paste goes, and throttled notices that are due are     *)
(* sent.  Taken(force) is Throttled::take for the title.                   *)
(***************************************************************************)
Taken(force) == title.pending # Unset /\ (force \/ ~title.recent)
TakenValue(force) ==
    IF Taken(force) /\ title.pending # title.last THEN title.pending ELSE Unset
AfterTake(force) ==
    IF ~Taken(force) THEN title
    ELSE IF title.pending = title.last THEN [title EXCEPT !.pending = Unset]
    ELSE [pending |-> Unset, last |-> title.pending, recent |-> TRUE]

\* timers runs in every loop, and at once when a paced paste begins.
InTimers == pc \in {"timers", "pasteTimers"} /\ notified = <<>>

SyncTimeout ==
    /\ InTimers /\ hold = "over"
    /\ hold' = "no" /\ side' = FALSE /\ synchronized' = FALSE
    /\ pc' = IF pc = "timers" THEN "timeout" ELSE "pasteTimeout"
    /\ UNCHANGED <<events, printed, backend, program, commands, pending, termVars,
                   dirty, pasting, closed, title, paste, size, resize, exit, reported,
                   notified>>

TimeoutMark ==
    /\ pc \in {"timeout", "pasteTimeout"} /\ notified = <<>>
    /\ pc' = IF pc = "timeout" THEN "timers" ELSE "pasteTimers"
    /\ MarkDirty
    /\ UNCHANGED <<events, printed, backend, program, commands, pending, termVars,
                   synchronized, pasting, closed, hold, side, title, paste, size,
                   resize, exit, reported>>

\* The loop ends with report_exit: the end is told once, after the output before
\* it is parsed and after the notices still held back.
Ending == pc = "timers" /\ exit /\ ~reported /\ pending = <<>>

Timers ==
    /\ InTimers /\ hold # "over"
    /\ pc' = "loop"
    /\ IF paste.at = "now" THEN SendChunk ELSE UNCHANGED <<paste, pasting>>
    /\ title' = AfterTake(Ending)
    /\ reported' = (reported \/ Ending)
    /\ notified' = IF closed THEN notified
                   ELSE (IF TakenValue(Ending) = Unset THEN <<>>
                         ELSE <<[k |-> "title", v |-> TakenValue(Ending)]>>)
                        \o (IF Ending THEN <<[k |-> "exited"]>> ELSE <<>>)
    /\ UNCHANGED <<events, printed, backend, program, commands, pending, termVars, dirty,
                   synchronized, closed, hold, side, size, resize, exit>>

(***************************************************************************)
(* Time: each of the three waits may come to its end.                      *)
(***************************************************************************)
HoldPasses == hold = "fresh" /\ hold' = "over" /\ UNCHANGED <<title, paste>>
IntervalPasses ==   \* only a notice held back looks at it
    title.recent /\ title.pending # Unset /\ title' = [title EXCEPT !.recent = FALSE] /\ UNCHANGED <<hold, paste>>
DelayPasses ==
    paste.at = "later" /\ paste' = [paste EXCEPT !.at = "now"] /\ UNCHANGED <<hold, title>>

TimePasses ==
    /\ HoldPasses \/ IntervalPasses \/ DelayPasses
    /\ UNCHANGED <<events, printed, backend, program, commands, pc, pending, termVars,
                   flags, side, size, resize, exit, reported, notified>>

EngineSteps ==
    Command \/ ApplyResize \/ Turn \/ Publish \/ Mark \/ SyncTimeout \/ TimeoutMark
        \/ Timers
=============================================================================
