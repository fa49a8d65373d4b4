---------------------------- MODULE TerminalView ----------------------------
(***************************************************************************)
(* A terminal on screen: the session of TerminalSession, the registry      *)
(* entry that outlives the items showing it (terminal/registry.rs) and the *)
(* TerminalItem of a tab (bridge/terminal_view.rs).                        *)
(*                                                                         *)
(* The engine's callback records what happened in the entry and, once per  *)
(* batch, posts a `drain` to the GUI thread with the attachment's token.   *)
(* The item takes the batch, asks for a frame, and the render thread takes *)
(* a snapshot while the GUI thread is blocked.  A hidden item gets no      *)
(* frames: it reports activity once, or, for a change the app made itself, *)
(* takes a snapshot that nobody draws.                                     *)
(***************************************************************************)
EXTENDS TerminalSession

CONSTANTS MaxOps,     \* bound: what the user does
          Scenes      \* what user and program may do in one run: [ops, kinds, ends]

ASSUME ViewAssumption ==
    /\ QueueMax \in Nat /\ PendingMax \in Nat /\ MaxOut \in Nat /\ MaxOps \in Nat
    /\ Unset \notin Titles /\ Unset \notin Sizes \cup {FirstSize}
    /\ \A s \in Scenes : "exit" \notin s.kinds

VARIABLES
    info,      \* SessionInfo: [title, exited]
    ev,        \* Events waiting in the entry: [dirty, info, exited]
    attached,  \* the attachment's token, 0 without one
    wakeUp,    \* a wake-up is posted and not taken
    gui,       \* drains posted to the GUI thread: their tokens
    item,      \* the TerminalItem
    snap,      \* the snapshot being taken (the GUI thread waits meanwhile)
    tokens,    \* NEXT_TOKEN
    ops,       \* how much the user did so far
    scene,     \* one of the Scenes
    lastTitle  \* history: the last title the program set

entryVars == <<info, ev, attached, wakeUp>>
viewVars == <<info, ev, attached, wakeUp, gui, item, snap, tokens, ops, scene,
              lastTitle>>
terminalVars == <<sessionVars, viewVars>>

NoCopy == 1000        \* the renderer holds no copy of this session's screen
NoEvents == [dirty |-> FALSE, info |-> FALSE, exited |-> FALSE]

NoItem == [token |-> 0, visible |-> TRUE, update |-> FALSE, needsFull |-> TRUE,
           drawn |-> NoCopy, torn |-> FALSE, quiet |-> FALSE, focusSent |-> Unset,
           focusRedraw |-> FALSE, running |-> FALSE,
           title |-> Unset, grid |-> FirstSize]

\* The tab was just opened: attach_or_start has started the session and attached.
VInit ==
    /\ SInit
    /\ info = [title |-> Unset, exited |-> FALSE]
    /\ ev = NoEvents /\ attached = 1 /\ wakeUp = FALSE /\ gui = <<>>
    /\ item = [NoItem EXCEPT !.token = 1, !.update = TRUE, !.quiet = TRUE,
                             !.focusSent = FALSE, !.running = TRUE]
    /\ snap = "idle" /\ tokens = 2 /\ ops = 0 /\ lastTitle = Unset
    /\ scene \in Scenes

(***************************************************************************)
(* The engine's callback (SessionState::record and wake).                  *)
(***************************************************************************)
AnyEvent(e) == e.dirty \/ e.info \/ e.exited

\* wake, for events e, attachment a and flag q: the new queue and flag.
Woken(e, a, q) == AnyEvent(e) /\ ~q /\ a # 0

Record ==
    /\ notified # <<>>
    /\ notified' = Tail(notified)
    /\ LET n == Head(notified)
           e == CASE n.k = "dirty"  -> [ev EXCEPT !.dirty = TRUE]
                  [] n.k = "title"  -> [ev EXCEPT !.info = TRUE]
                  [] n.k = "exited" -> [ev EXCEPT !.exited = TRUE]
       IN  /\ ev' = e
           /\ info' = CASE n.k = "dirty"  -> info
                        [] n.k = "title"  -> [info EXCEPT !.title = n.v]
                        [] n.k = "exited" -> [info EXCEPT !.exited = TRUE]
           /\ wakeUp' = (wakeUp \/ Woken(e, attached, wakeUp))
           /\ gui' = IF Woken(e, attached, wakeUp) THEN Append(gui, attached) ELSE gui
    /\ UNCHANGED <<events, printed, backend, program, commands, pc, pending, termVars,
                   flags, hold, side, title, paste, size, resize, exit, reported,
                   attached, item, snap, tokens, ops, scene, lastTitle>>

(***************************************************************************)
(* What the user and the window do, on the GUI thread.                     *)
(***************************************************************************)
GuiFree == snap = "idle"
User(op) ==
    /\ op \in scene.ops /\ ops < MaxOps /\ ops' = ops + 1
    /\ GuiFree /\ ~closed

Asks(cs) == commands' = commands \o cs
NoEngine == UNCHANGED <<events, printed, backend, program, pc, pending, damageBase, termSize,
                        focused, synchronized, closed, hold, side, title, paste, size,
                        resize, exit, reported, notified>>

\* A change the handle makes under the lock, followed by a Redraw command.
Shows == ver' = ver + 1 /\ full' = TRUE

\* attach: the colours and options again, the size, the focus, then the entry.
Attach(f) ==
    /\ User("attach") /\ item.token = 0
    /\ Shows
    /\ Asks(<<[k |-> "redraw"], [k |-> "resize", size |-> item.grid],
              [k |-> "focus", f |-> f]>>)
    /\ attached' = tokens /\ tokens' = tokens + 1
    /\ wakeUp' = AnyEvent(ev)
    /\ gui' = IF AnyEvent(ev) THEN Append(gui, tokens) ELSE gui
    /\ item' = [item EXCEPT !.token = tokens, !.needsFull = TRUE, !.quiet = TRUE,
                            !.focusSent = f, !.update = TRUE, !.title = info.title,
                            !.running = ~info.exited]
    /\ NoEngine /\ UNCHANGED <<dirty, pasting, info, ev, snap, scene, lastTitle>>

\* The session stays in the registry; a pane moved elsewhere gets a new item.
Detach ==
    /\ User("detach") /\ item.token # 0
    /\ IF attached = item.token THEN attached' = 0 /\ wakeUp' = FALSE
       ELSE UNCHANGED <<attached, wakeUp>>
    /\ item' = [NoItem EXCEPT !.visible = item.visible, !.grid = item.grid]
    /\ NoEngine
    /\ UNCHANGED <<commands, ver, full, dirty, pasting, info, ev, gui, snap, tokens, scene, lastTitle>>

\* Scrolling, selecting, searching, other colours, clearing the history.
Change ==
    /\ User("change") /\ item.token # 0
    /\ Shows /\ Asks(<<[k |-> "redraw"]>>)
    /\ NoEngine
    /\ UNCHANGED <<dirty, pasting, entryVars, gui, item, snap, tokens, scene, lastTitle>>

SetGrid(s) ==
    /\ User("resize") /\ item.token # 0 /\ item.grid # s
    /\ item' = [item EXCEPT !.grid = s, !.quiet = TRUE]
    /\ Asks(<<[k |-> "resize", size |-> s]>>)
    /\ NoEngine
    /\ UNCHANGED <<ver, full, dirty, pasting, entryVars, gui, snap, tokens, scene, lastTitle>>

FocusChange(f) ==
    /\ User("focus") /\ item.token # 0 /\ item.focusSent # f
    /\ item' = [item EXCEPT !.focusSent = f, !.focusRedraw = ~item.visible]
    /\ Asks(<<[k |-> "focus", f |-> f]>>)
    /\ NoEngine
    /\ UNCHANGED <<ver, full, dirty, pasting, entryVars, gui, snap, tokens, scene, lastTitle>>

SetVisibleOnly ==
    /\ User("visible")
    /\ item' = [item EXCEPT !.visible = ~@]
    /\ NoEngine
    /\ UNCHANGED <<commands, ver, full, dirty, pasting, entryVars, gui, snap, tokens, scene,
                   lastTitle>>

\* itemChange: an item that becomes visible asks for a frame.
SetVisible ==
    /\ User("visible")
    /\ item' = [item EXCEPT !.visible = ~@, !.update = @ \/ ~item.visible]
    /\ NoEngine
    /\ UNCHANGED <<commands, ver, full, dirty, pasting, entryVars, gui, snap, tokens, scene,
                   lastTitle>>

PasteLines(n) ==
    /\ User("paste") /\ item.token # 0
    /\ pasting' = TRUE
    /\ Asks(<<[k |-> "paced", n |-> n]>>)
    /\ NoEngine
    /\ UNCHANGED <<ver, full, dirty, entryVars, gui, item, snap, tokens, scene, lastTitle>>

\* Escape or Ctrl+C while a paste is going.
StopPaste ==
    /\ User("paste") /\ item.token # 0 /\ item.running /\ pasting
    /\ Asks(<<[k |-> "cancel"]>>)
    /\ NoEngine
    /\ UNCHANGED <<ver, full, dirty, pasting, entryVars, gui, item, snap, tokens, scene, lastTitle>>

\* registry::close: the tab is closed.
Close ==
    /\ User("close")
    /\ closed' = TRUE
    /\ Asks(<<[k |-> "shutdown"]>>)
    /\ attached' = 0 /\ wakeUp' = FALSE
    /\ UNCHANGED <<events, printed, backend, program, pc, pending, termVars, dirty,
                   synchronized, pasting, hold, side, title, paste, size, resize, exit,
                   reported, notified, info, ev, gui, item, snap, tokens, scene, lastTitle>>

(***************************************************************************)
(* drain and on_dirty.                                                     *)
(***************************************************************************)
Quiet == item.focusRedraw \/ item.quiet

Taken1(it, e) == IF e.info \/ e.exited
                 THEN [it EXCEPT !.title = info.title, !.running = ~info.exited] ELSE it

\* A snapshot nobody draws consumes damage: the next frame needs every row.
SkipFrameOnly(it) == [it EXCEPT !.focusRedraw = FALSE]
SkipFrame(it) == [it EXCEPT !.focusRedraw = FALSE, !.needsFull = TRUE]

Drain ==
    /\ GuiFree /\ gui # <<>>
    /\ gui' = Tail(gui)
    /\ LET mine == Head(gui) = item.token /\ Head(gui) = attached IN
       \/ /\ ~mine
          /\ UNCHANGED <<ev, wakeUp, item, snap, dirty>>
       \/ /\ mine
          /\ wakeUp' = FALSE /\ ev' = NoEvents
          /\ \/ /\ ~ev.dirty
                /\ item' = Taken1(item, ev)
                /\ UNCHANGED <<snap, dirty>>
             \/ /\ ev.dirty /\ item.visible
                /\ item' = Taken1([item EXCEPT !.update = TRUE, !.focusRedraw = FALSE], ev)
                /\ UNCHANGED <<snap, dirty>>
             \/ /\ ev.dirty /\ ~item.visible /\ ~Quiet
                /\ item' = Taken1(item, ev)   \* activity()
                /\ UNCHANGED <<snap, dirty>>
             \/ /\ ev.dirty /\ ~item.visible /\ Quiet
                /\ item' = Taken1(SkipFrame(item), ev)
                /\ dirty' = FALSE /\ snap' = "skipCheck"
    /\ NoEngine
    /\ UNCHANGED <<commands, ver, full, pasting, info, attached, tokens, ops, scene, lastTitle>>

(***************************************************************************)
(* fill (render thread) and Session::snapshot: the dirty flag first, then  *)
(* the synchronized flag, then the rows under the lock.                    *)
(***************************************************************************)
Render(lost) ==
    /\ GuiFree /\ item.token # 0 /\ item.visible /\ item.update
    /\ lost => "lost" \in scene.ops
    /\ item' = [item EXCEPT !.update = FALSE, !.needsFull = FALSE,
                            !.drawn = IF lost THEN NoCopy ELSE @]
    /\ dirty' = FALSE
    /\ snap' = IF item.needsFull \/ lost THEN "drawFull" ELSE "drawCheck"
    /\ NoEngine
    /\ UNCHANGED <<commands, ver, full, pasting, entryVars, gui, tokens, ops, scene, lastTitle>>

SnapshotCheck ==
    /\ snap \in {"drawCheck", "skipCheck"}
    /\ snap' = IF synchronized THEN "idle"
               ELSE IF snap = "drawCheck" THEN "draw" ELSE "skip"
    /\ NoEngine
    /\ UNCHANGED <<commands, ver, full, dirty, pasting, entryVars, gui, item, tokens, ops, scene,
                   lastTitle>>

SnapshotFill ==
    /\ snap \in {"draw", "drawFull", "skip"}
    /\ snap' = "idle"
    /\ damageBase' = ver /\ full' = FALSE
    /\ LET all == full \/ snap = "drawFull" IN
       item' = IF snap = "skip" THEN item
               ELSE [item EXCEPT !.drawn = ver,
                                 !.torn = @ \/ (~all /\ item.drawn # damageBase)]
    /\ UNCHANGED <<events, printed, backend, program, commands, pc, pending, ver, termSize,
                   focused, flags, hold, side, title, paste, size, resize, exit, reported,
                   notified, entryVars, gui, tokens, ops, scene, lastTitle>>

QuietPasses ==
    /\ item.quiet /\ ~item.visible /\ GuiFree   \* only a hidden item looks at it
    /\ item' = [item EXCEPT !.quiet = FALSE]
    /\ NoEngine
    /\ UNCHANGED <<commands, ver, full, dirty, pasting, entryVars, gui, snap, tokens, ops, scene,
                   lastTitle>>

-----------------------------------------------------------------------------
Prints(kind) ==
    /\ Outputs(kind)
    /\ lastTitle' = IF kind \in Titles THEN kind ELSE lastTitle
    /\ UNCHANGED <<entryVars, gui, item, snap, tokens, ops, scene>>

VNext ==
    \/ \E kind \in scene.kinds : Prints(kind)
    \/ scene.ends /\ Ends /\ UNCHANGED viewVars
    \/ Command /\ UNCHANGED viewVars
    \/ ApplyResize /\ UNCHANGED viewVars
    \/ Turn /\ UNCHANGED viewVars
    \/ Publish /\ UNCHANGED viewVars
    \/ Mark /\ UNCHANGED viewVars
    \/ SyncTimeout /\ UNCHANGED viewVars
    \/ TimeoutMark /\ UNCHANGED viewVars
    \/ Timers /\ UNCHANGED viewVars
    \/ TimePasses /\ UNCHANGED viewVars
    \/ Record
    \/ \E f \in BOOLEAN : Attach(f) \/ FocusChange(f)
    \/ \E s \in Sizes : SetGrid(s)
    \/ \E n \in 1..2 : PasteLines(n)
    \/ Detach \/ Change \/ SetVisible \/ StopPaste \/ Close
    \/ Drain \/ SnapshotCheck \/ SnapshotFill \/ QuietPasses
    \/ \E lost \in BOOLEAN : Render(lost)

VSpec == VInit /\ [][VNext]_terminalVars

\* The threads run, a posted drain is delivered, an item asking for a frame
\* gets one, and time passes; nothing obliges the program or the user.
VFairness ==
    /\ WF_terminalVars(EngineSteps /\ UNCHANGED viewVars)
    /\ WF_terminalVars(HoldPasses /\ TimePasses /\ UNCHANGED viewVars)
    /\ WF_terminalVars(IntervalPasses /\ TimePasses /\ UNCHANGED viewVars)
    /\ WF_terminalVars(Record) /\ WF_terminalVars(Drain)
    /\ WF_terminalVars(SnapshotCheck) /\ WF_terminalVars(SnapshotFill)
    /\ WF_terminalVars(\E lost \in BOOLEAN : Render(lost))

VFairSpec == VSpec /\ VFairness

-----------------------------------------------------------------------------
\* A frame that holds only the damaged rows is put on top of a picture that is
\* exactly the one the damage is relative to: whoever takes a snapshot that is
\* not drawn, or attaches to a running session, asks for every row next.
NeverTorn == ~item.torn

\* Whatever the program prints and the user changes is on the screen in the
\* end, if the terminal is visible: no redraw is lost between the dirty flag,
\* the synchronized update, the batch of events and the frame.
Showing == item.token # 0 /\ item.visible /\ ~closed
ScreenCurrent == Showing => item.drawn = ver
ScreenCatchesUp == []<>ScreenCurrent

\* "Sent once, after all its output has been parsed": when the GUI knows that
\* the program ended, it knows its last title too, and nothing is unparsed.
ExitToldLast ==
    info.exited => /\ events = <<>> /\ pending = <<>>
                   /\ info.title = lastTitle

\* After a burst of sizes the Term and the program have the item's size.
ViewSettled == pc = "loop" /\ commands = <<>> /\ resize = Unset /\ item.token # 0 /\ ~closed
SizeSettles ==
    ViewSettled => /\ termSize = item.grid
                   /\ backend = "running" => program = item.grid

\* A terminal's view: no frame is put on a picture it does not belong to, the
\* end is told after everything else, and program, engine and item agree about
\* the size when all is quiet.
ViewSound == NeverTorn /\ ExitToldLast /\ SizeSettles
=============================================================================
