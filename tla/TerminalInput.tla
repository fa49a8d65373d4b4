--------------------------- MODULE TerminalInput ---------------------------
(***************************************************************************)
(* The input side of a terminal item (opensesh-app/src/bridge/             *)
(* terminal_view.rs): mouse buttons that go to the program or select text, *)
(* the wheel and the scroll position, keys, pastes and their review, and   *)
(* what of it is repeated in the other panes (broadcast, synchronized      *)
(* scrolling).  The handlers run on the GUI thread; the program, parsed by *)
(* the engine thread, may change its modes and the screen between any two  *)
(* of them, and the render thread publishes the scroll position of the     *)
(* frames it draws.                                                        *)
(*                                                                         *)
(* A paste is `plain` or of two `lines`; a chunk of one is [opens, closes] *)
(* (whether it carries the bracketed paste markers).  How events become    *)
(* bytes is InputCodec's subject: here a report is sent or not.            *)
(***************************************************************************)
EXTENDS Integers, Sequences, FiniteSets

CONSTANTS None,
          History,    \* lines of scrollback
          Lines,      \* scaled_lines: lines one wheel step scrolls
          Budgets     \* how much of each kind of input a behaviour has

Buttons == {"left", "middle", "right"}
Cells == {1, 2}
Protocols == {"none", "x10", "normal", "button", "any"}

VARIABLES
    left,     \* what is left of the budget
    modes,    \* the program's: [mouse, bracketed, alt]
    held,     \* the buttons the user holds
    mouse,    \* MouseState: [reported, cell, selecting, link]
    told,     \* [down (the buttons the program was last told are down), lost (history:
              \*  those whose release the item is never to report)]
    sel,      \* the engine's selection: "none", "empty", "some"
    hasSel,   \* hasSelection, what the menus see
    news,     \* a Dirty event waits to be drained
    view,     \* [offset (the engine's), shown (displayOffset), scrolled, pending,
              \*  fresh: the last frame shows this offset]
    peer,     \* the scroll position of a pane that follows this one
    queue,    \* chunks of a paced paste the engine has still to send
    open,     \* the program is inside a bracketed paste
    review,   \* the text in the paste review dialog
    attached, running,
    unseen    \* input was sent while the frame was fresh and is not on the live screen

inputVars == <<left, modes, held, mouse, told, sel, hasSel, news, view, peer, queue, open,
               review, attached, running, unseen>>

NoMouse == [reported |-> {}, cell |-> None, selecting |-> FALSE, link |-> FALSE]

VInit ==
    /\ left \in Budgets
    /\ modes = [mouse |-> "none", bracketed |-> FALSE, alt |-> FALSE]
    /\ held = {} /\ mouse = NoMouse /\ told = [down |-> {}, lost |-> {}]
    /\ sel = "none" /\ hasSel = FALSE /\ news = FALSE
    /\ view = [offset |-> 0, shown |-> 0, scrolled |-> FALSE, pending |-> 0, fresh |-> TRUE]
    /\ peer = 0
    /\ queue = <<>> /\ open = FALSE /\ review = None
    /\ attached = TRUE /\ running = TRUE /\ unseen = FALSE

Spend(kind) == left[kind] > 0 /\ left' = [left EXCEPT ![kind] = @ - 1]
pasteVars == <<queue, open, review>>
mouseVars == <<held, mouse, told, sel, hasSel>>

Clamp(n) == IF n < 0 THEN 0 ELSE IF n > History THEN History ELSE n
\* Session::scroll(Scroll::Lines(n)), with what the item remembers of it.
Scrolled(n, scrolled) ==
    [view EXCEPT !.offset = Clamp(@ + n), !.scrolled = scrolled, !.fresh = FALSE]
Bottom == [view EXCEPT !.offset = 0, !.scrolled = FALSE, !.fresh = FALSE]
\* scroll_synced: the synchronized pane moves along.
Synced(n) == Clamp(peer + n)

(***************************************************************************)
(* send_input: typed or pasted input, back on the live screen first.       *)
(***************************************************************************)
SendInput ==
    LET v == IF view.scrolled THEN Bottom ELSE view
    IN  view' = v /\ unseen' = (unseen \/ (view.fresh /\ v.offset > 0))

(***************************************************************************)
(* The mouse.                                                              *)
(***************************************************************************)
ReportingActive(mods) == modes.mouse # "none" /\ "shift" \notin mods

\* What encode_mouse reports: X10 only presses, motion only the last two protocols,
\* and nothing beyond the limit of the encoding (`fits`).
Reports(action, buttons) ==
    CASE action = "press"   -> modes.mouse # "none"
      [] action = "release" -> modes.mouse \notin {"none", "x10"}
      [] action = "move"    -> modes.mouse = "any" \/ (modes.mouse = "button" /\ buttons # {})

Selects(kind) == sel' = kind /\ news' = TRUE

MousePress(b, mods, cell, link) ==
    /\ attached /\ b \notin held /\ Spend("mouse")
    /\ held' = held \cup {b}
    /\ CASE b = "left" /\ "ctrl" \in mods /\ link ->       \* open_link
              /\ mouse' = [mouse EXCEPT !.link = TRUE]
              /\ UNCHANGED <<told, sel, hasSel, news, review, queue, open, peer, view, unseen>>
         [] ~(b = "left" /\ "ctrl" \in mods /\ link) /\ ReportingActive(mods) ->
              /\ IF view.shown = 0
                 THEN /\ mouse' = [mouse EXCEPT !.reported = @ \cup {b}, !.cell = cell]
                      /\ \E fits \in BOOLEAN :
                            told' = IF modes.mouse = "x10" \/ ~fits THEN told
                                    ELSE [down |-> told.down \cup {b}, lost |-> told.lost \ {b}]
                 ELSE UNCHANGED <<mouse, told>>
              /\ UNCHANGED <<sel, hasSel, news, review, queue, open, peer, view, unseen>>
         [] OTHER ->
              /\ CASE b = "left" ->
                        /\ IF "shift" \in mods /\ modes.mouse = "none" /\ sel = "some"
                           THEN Selects("some") ELSE Selects("empty")
                        /\ mouse' = [mouse EXCEPT !.selecting = TRUE]
                   [] OTHER -> UNCHANGED <<sel, news, mouse>>  \* paste or the menu (PasteChecked)
              /\ UNCHANGED <<told, hasSel, review, queue, open, peer, view, unseen>>
    /\ UNCHANGED <<modes, attached, running>>

MouseMove(cell, where) ==
    /\ attached /\ held # {} /\ ~mouse.link /\ Spend("mouse")
    /\ IF mouse.reported # {}
       THEN /\ mouse' = [mouse EXCEPT !.cell = cell]
            /\ UNCHANGED <<sel, news, view>>
       ELSE /\ mouse.selecting /\ "left" \in held
            /\ Selects("some")
            /\ view' = CASE where = "above" -> Scrolled(1, TRUE)
                         [] where = "below" -> Scrolled(-1, view.scrolled)
                         [] OTHER           -> view
            /\ UNCHANGED mouse
    /\ UNCHANGED <<modes, held, told, hasSel, peer, pasteVars, attached, running, unseen>>

\* finish_selection
FinishSelection == hasSel' = (sel = "some")

\* While a link click lasts, every release is taken for it.
ReleaseKept(b) == [told EXCEPT !.lost = @ \cup ({b} \cap told.down)]
ReleaseTold(b) == [down |-> told.down \ {b}, lost |-> told.lost \ {b}]

MouseRelease(b) ==
    /\ b \in held
    /\ held' = held \ {b}
    /\ CASE ~attached -> UNCHANGED <<mouse, told, hasSel>>
         [] attached /\ mouse.link ->
              /\ mouse' = [mouse EXCEPT !.link = held' # {}]
              /\ told' = ReleaseKept(b)
              /\ UNCHANGED hasSel
         [] attached /\ ~mouse.link /\ b \in mouse.reported ->
              /\ mouse' = [mouse EXCEPT !.reported = @ \ {b}]
              /\ \E fits \in BOOLEAN :
                    told' = IF Reports("release", {b}) /\ fits THEN ReleaseTold(b)
                            ELSE ReleaseKept(b)
              /\ UNCHANGED hasSel
         [] attached /\ ~mouse.link /\ b \notin mouse.reported /\ b = "left" /\ mouse.selecting ->
              /\ mouse' = [mouse EXCEPT !.selecting = FALSE]
              /\ FinishSelection /\ UNCHANGED told
         [] OTHER -> UNCHANGED <<mouse, told, hasSel>>
    /\ UNCHANGED <<left, modes, sel, news, view, peer, pasteVars, attached, running, unseen>>

\* handle_hover: motion without a button.
Hover(mods, cell) ==
    /\ attached /\ held = {} /\ Spend("mouse")
    /\ modes.mouse = "any" /\ "shift" \notin mods /\ view.shown = 0 /\ mouse.cell # cell
    /\ mouse' = [mouse EXCEPT !.cell = cell]
    /\ UNCHANGED <<modes, held, told, sel, hasSel, news, view, peer, pasteVars, attached,
                   running, unseen>>

(***************************************************************************)
(* The wheel and the scroll position.                                      *)
(***************************************************************************)
Wheel(mods, up, smooth) ==
    LET n == IF up THEN Lines ELSE -Lines
    IN  /\ attached /\ Spend("scroll")
        /\ ~ReportingActive(mods) /\ ~(modes.alt /\ "shift" \notin mods)
        /\ IF smooth
           THEN /\ view' = [view EXCEPT !.pending = @ + n, !.scrolled = TRUE]
                /\ UNCHANGED peer
           ELSE view' = Scrolled(n, TRUE) /\ peer' = Synced(n)
        /\ UNCHANGED <<modes, mouseVars, news, pasteVars, attached, running, unseen>>

\* handle_scroll_tick: a quarter of what is left, at least one line.
ScrollTick ==
    LET size == IF view.pending < 0 THEN -view.pending ELSE view.pending
        step == (IF size \div 4 > 1 THEN size \div 4 ELSE 1) * (IF view.pending < 0 THEN -1 ELSE 1)
    IN  /\ view.pending # 0
        /\ IF attached
           THEN /\ view' = [Scrolled(step, view.scrolled) EXCEPT !.pending = @ - step]
                /\ peer' = Synced(step)
           ELSE view' = [view EXCEPT !.pending = 0] /\ UNCHANGED peer
        /\ UNCHANGED <<left, modes, mouseVars, news, pasteVars, attached, running, unseen>>

\* scroll_lines, scroll_to, scroll_to_bottom, find, the Shift+Page keys; the pane that
\* follows moves with scroll_lines only.
ScrollTo(offset) ==
    /\ attached /\ Spend("scroll")
    /\ view' = [view EXCEPT !.offset = offset, !.scrolled = offset > 0, !.fresh = FALSE]
    /\ UNCHANGED <<modes, mouseVars, news, peer, pasteVars, attached, running, unseen>>
FindMatch(offset) ==
    /\ attached /\ Spend("scroll")
    /\ view' = [view EXCEPT !.offset = offset, !.scrolled = TRUE, !.fresh = FALSE]
    /\ UNCHANGED <<modes, mouseVars, news, peer, pasteVars, attached, running, unseen>>
ScrollLines(n) ==
    /\ attached /\ Spend("scroll")
    /\ view' = Scrolled(n, TRUE) /\ peer' = Synced(n)
    /\ UNCHANGED <<modes, mouseVars, news, pasteVars, attached, running, unseen>>
\* The pane this one follows scrolled.
PeerScrolls(n) ==
    /\ Spend("scroll")
    /\ view' = Scrolled(n, view.scrolled)
    /\ UNCHANGED <<modes, mouseVars, news, peer, pasteVars, attached, running, unseen>>

\* publish_view, when the render thread has drawn a frame.
PublishView == [view EXCEPT !.fresh = TRUE, !.scrolled = view.offset > 0]
Frame ==
    /\ attached /\ ~view.fresh /\ view' = PublishView
    /\ UNCHANGED <<left, modes, mouseVars, news, peer, pasteVars, attached, running, unseen>>
\* sync_view, queued to the GUI thread.
SyncView ==
    /\ view.fresh /\ view.shown # view.offset
    /\ view' = [view EXCEPT !.shown = view.offset]
    /\ UNCHANGED <<left, modes, mouseVars, news, peer, pasteVars, attached, running, unseen>>

(***************************************************************************)
(* Selection.                                                              *)
(***************************************************************************)
SelectAll ==
    /\ attached /\ Spend("mouse")
    /\ Selects("some") /\ hasSel' = TRUE
    /\ view' = [view EXCEPT !.offset = view.shown, !.fresh = FALSE]
    /\ UNCHANGED <<modes, held, mouse, told, peer, pasteVars, attached, running, unseen>>
ClearSelection ==
    /\ attached /\ Spend("mouse")
    /\ sel' = "none" /\ news' = (news \/ sel # "none") /\ hasSel' = FALSE
    /\ UNCHANGED <<modes, held, mouse, told, view, peer, pasteVars, attached, running, unseen>>
Copy ==
    /\ attached /\ hasSel /\ sel # "some"
    /\ hasSel' = FALSE
    /\ UNCHANGED <<left, modes, held, mouse, told, sel, news, view, peer, pasteVars, attached,
                   running, unseen>>

\* drain: the engine clears the selection itself (alternate screen, erased cells, reset).
DrainedSelection == IF hasSel /\ ~mouse.selecting THEN sel = "some" ELSE hasSel
Drain ==
    /\ attached /\ news /\ news' = FALSE
    /\ hasSel' = DrainedSelection
    /\ UNCHANGED <<left, modes, held, mouse, told, sel, view, peer, pasteVars, attached,
                   running, unseen>>

(***************************************************************************)
(* Pastes.                                                                 *)
(***************************************************************************)
Chunk(opens, closes) == [opens |-> opens, closes |-> closes]
\* encode_paste and paste_chunks
Chunks(text, bracketed) ==
    IF text = "plain" THEN <<Chunk(bracketed, bracketed)>>
    ELSE <<Chunk(bracketed, FALSE), Chunk(FALSE, bracketed)>>

\* analyze: lines run at once without bracketed paste.
WorthALook(text) == text = "lines" /\ ~modes.bracketed

PasteText(text, delay) ==
    LET chunks == Chunks(text, modes.bracketed)
    IN  /\ peer' = 0        \* broadcast_paste, its own markers
        /\ IF ~delay \/ Len(chunks) < 2
           THEN SendInput /\ UNCHANGED queue
           ELSE /\ view' = IF view.scrolled THEN Bottom ELSE view
                /\ unseen' = (unseen \/ (view.fresh /\ view'.offset > 0))
                /\ queue' = queue \o chunks

\* paste, paste_selection, paste_given and a right click that pastes.
PasteChecked(text, protect, guard, delay) ==
    /\ attached /\ Spend("paste")
    /\ IF guard \/ (protect /\ WorthALook(text))
       THEN review' = text /\ UNCHANGED <<peer, view, unseen, queue>>
       ELSE PasteText(text, delay) /\ UNCHANGED review
    /\ UNCHANGED <<modes, mouseVars, news, open, attached, running>>

PasteReviewed(delay) ==
    /\ review # None /\ attached
    /\ PasteText(review, delay) /\ review' = None
    /\ UNCHANGED <<left, modes, mouseVars, news, open, attached, running>>

\* The engine thread sends the next chunk of a paced paste.
SendChunk ==
    /\ queue # <<>>
    /\ queue' = Tail(queue)
    /\ open' = (open \/ Head(queue).opens) /\ ~Head(queue).closes
    /\ UNCHANGED <<left, modes, mouseVars, news, view, peer, review, attached, running,
                   unseen>>

(***************************************************************************)
(* Keys.  "stop" is Escape or Ctrl+C; scrolling, Shift+Insert and Menu are *)
(* not sent and are other actions here.                                    *)
(***************************************************************************)
HandleKey(kind) ==
    /\ attached /\ running /\ Spend("key")
    /\ IF kind = "stop" /\ queue # <<>>
       THEN queue' = <<>>
       ELSE UNCHANGED queue
    /\ peer' = 0            \* broadcast_key
    /\ SendInput
    /\ UNCHANGED <<modes, mouseVars, news, open, review, attached, running>>

\* handle_ime_commit and send_text; a commit never carries control characters.
Commit ==
    /\ attached /\ Spend("key")
    /\ peer' = 0
    /\ SendInput
    /\ UNCHANGED <<modes, mouseVars, news, pasteVars, attached, running>>

(***************************************************************************)
(* The item lets go of its session or takes it again; the program.         *)
(***************************************************************************)
Detach ==
    /\ attached /\ Spend("moves")
    /\ attached' = FALSE /\ mouse' = NoMouse /\ hasSel' = FALSE
    /\ told' = [told EXCEPT !.lost = told.down]
    /\ UNCHANGED <<modes, held, sel, news, view, peer, pasteVars, running, unseen>>
Attach ==
    /\ ~attached /\ attached' = TRUE
    /\ mouse' = NoMouse
    /\ UNCHANGED <<left, modes, held, told, sel, hasSel, news, view, peer, pasteVars, running,
                   unseen>>

SetModes(mm, bracketed, alt) ==
    /\ running /\ Spend("modes")
    /\ modes' = [mouse |-> mm, bracketed |-> bracketed, alt |-> alt]
    /\ IF alt = modes.alt THEN UNCHANGED <<sel, view>>
       ELSE sel' = "none" /\ view' = [view EXCEPT !.offset = 0, !.fresh = FALSE]
    /\ news' = TRUE
    /\ UNCHANGED <<held, mouse, told, hasSel, peer, pasteVars, attached, running, unseen>>
\* Output: the view stays on its lines while scrolled, and may erase the selection.
Output(erases) ==
    /\ running /\ Spend("modes")
    /\ view' = IF view.offset = 0 THEN view
               ELSE [view EXCEPT !.offset = Clamp(@ + 1), !.fresh = FALSE]
    /\ sel' = IF erases THEN "none" ELSE sel
    /\ news' = TRUE
    /\ UNCHANGED <<modes, held, mouse, told, hasSel, peer, pasteVars, attached, running, unseen>>
ClearScrollback ==
    /\ attached /\ Spend("scroll")
    /\ view' = [view EXCEPT !.offset = 0, !.fresh = FALSE] /\ news' = TRUE
    /\ UNCHANGED <<modes, mouseVars, peer, pasteVars, attached, running, unseen>>
Exit ==
    /\ running /\ Spend("moves") /\ running' = FALSE
    /\ UNCHANGED <<modes, mouseVars, news, view, peer, pasteVars, attached, unseen>>

Mods == {{}, {"shift"}, {"ctrl"}}
VNext ==
    \/ \E b \in Buttons, m \in Mods, c \in Cells, l \in BOOLEAN : MousePress(b, m, c, l)
    \/ \E c \in Cells, w \in {"in", "above", "below"} : MouseMove(c, w)
    \/ \E b \in Buttons : MouseRelease(b)
    \/ \E m \in Mods, c \in Cells : Hover(m, c)
    \/ \E m \in Mods, up, smooth \in BOOLEAN : Wheel(m, up, smooth)
    \/ ScrollTick \/ Frame \/ SyncView
    \/ \E o \in 0..History : ScrollTo(o) \/ FindMatch(o)
    \/ \E n \in {-1, 1} : ScrollLines(n) \/ PeerScrolls(n)
    \/ SelectAll \/ ClearSelection \/ Copy \/ Drain
    \/ \E t \in {"plain", "lines"}, p, g, d \in BOOLEAN : PasteChecked(t, p, g, d)
    \/ \E d \in BOOLEAN : PasteReviewed(d)
    \/ SendChunk
    \/ \E k \in {"char", "stop"} : HandleKey(k)
    \/ Commit \/ Detach \/ Attach \/ ClearScrollback \/ Exit
    \/ \E mm \in Protocols, b, a \in BOOLEAN : SetModes(mm, b, a)
    \/ \E e \in BOOLEAN : Output(e)

VSpec == VInit /\ [][VNext]_inputVars

-----------------------------------------------------------------------------
(***************************************************************************)
(* A button the program was told is down is one the user holds and whose   *)
(* release the item remembers to report, whatever modifiers it comes with  *)
(* and wherever the view is then.  Never reported are only the releases    *)
(* during a link click, beyond the encoding's limit, in a protocol without *)
(* releases, and after the item let go of its session.                     *)
(***************************************************************************)
ButtonsPair == told.down \ told.lost \subseteq held \cap mouse.reported

\* Once the events are drained, the menus offer to copy only what is selected.
SelectionTrue == hasSel /\ ~news /\ ~mouse.selecting => sel = "some"

\* What is typed or pasted while the frame is up to date shows on the live screen.
TypingIsSeen == ~unseen

=============================================================================
