--------------------------- MODULE DesktopScreen ---------------------------
(***************************************************************************)
(* What a running remote desktop pane shows and sends: the picture, from   *)
(* the driver's image through the shared Frame (rdp-protocol/frame.rs) to  *)
(* the tiles the item draws (cpp/framebuffer_item.cpp); the size, from the *)
(* pane to the server (vnc/client.rs, or display control in rdp/helper);   *)
(* the keys and buttons (bridge/rdp_view.rs, vnc/keysym.rs, vnc/drive.rs). *)
(*                                                                         *)
(* A desktop is one row of cells, a cell holds the number of the drawing   *)
(* it shows (0 is black), a rectangle is a run of cells.                   *)
(***************************************************************************)
EXTENDS Naturals, Sequences, TLC
LOCAL INSTANCE SequencesExt
LOCAL INSTANCE FiniteSetsExt
LOCAL INSTANCE Functions

CONSTANTS
    None,
    Sizes,     \* the sizes of a desktop, in cells
    MaxDirty,  \* MAX_DIRTY: changed rectangles kept apart
    Budgets    \* bound: drawings, sizes asked for, moves of the tab, and keys and buttons pressed

VARIABLES
    vnc,     \* which of the two drivers
    canvas,  \* the driver's image: DecodedImage, Canvas
    said,    \* what the driver said and the reader has not received
    frame,   \* the Frame shared with the app
    item,    \* the pane's item: what it drew, and what it was told
    inbox,   \* the pane's messages the driver has not taken
    sizes,   \* the driver's side of a change of size
    server,  \* what the server was asked: its sizes, and the keysyms and buttons down
    keyb,    \* the keyboard and the mouse in front of the pane
    left     \* what is left of the budgets

screenVars == <<vnc, canvas, said, frame, item, inbox, sizes, server, keyb, left>>

Black(size) == [size |-> size, pixels |-> [c \in 1 .. size |-> 0]]
Cells(rect) == rect.x .. (rect.x + rect.width - 1)
Rects(size) == {r \in [x : 1 .. size, width : 1 .. size] : r.x + r.width - 1 <= size}
All(size) == [x |-> 1, width |-> size]

(***************************************************************************)
(* The frame                                                               *)
(***************************************************************************)
NewFrame == [size |-> 0, pixels |-> <<>>, dirty |-> <<>>, generation |-> 0]
Resized(f, size) ==
    [Black(size) EXCEPT !.size = size] @@ [dirty |-> <<All(size)>>, generation |-> f.generation + 1]
Touches(r, s) == r.x <= s.x + s.width /\ s.x <= r.x + r.width
Union(r, s) ==
    LET from == Min({r.x, s.x})
        to == Max({r.x + r.width, s.x + s.width})
    IN [x |-> from, width |-> to - from]
\* Merged with one it touches, else kept apart; at the limit all become one.
Mark(dirty, rect) ==
    LET near == {i \in 1 .. Len(dirty) : Touches(dirty[i], rect)}
    IN IF near # {} THEN [dirty EXCEPT ![Min(near)] = Union(@, rect)]
       ELSE IF Len(dirty) < MaxDirty THEN Append(dirty, rect)
       ELSE <<FoldLeft(Union, rect, dirty)>>
\* Clipped to the frame: a rectangle may come from before a change of size.
CopyRect(f, m) ==
    IF m.rect.x > f.size THEN f
    ELSE [f EXCEPT !.pixels = [c \in 1 .. f.size |-> IF c \in Cells(m.rect) THEN m.pixels[c] ELSE @[c]],
                   !.dirty = Mark(@, m.rect)]

(***************************************************************************)
(* The driver's image                                                      *)
(***************************************************************************)
PixelsOf(image, rect) == [say |-> "pixels", rect |-> rect, pixels |-> Restrict(image.pixels, Cells(rect))]
Size(size) == [say |-> "size", size |-> size]
\* show_all: the size, then its pixels; VNC says the size and asks for the rest.
ShowAll(image) == IF vnc THEN <<Size(image.size)>> ELSE <<Size(image.size), PixelsOf(image, All(image.size))>>

Draws ==
    /\ left.draws > 0 /\ left' = [left EXCEPT !.draws = @ - 1]
    /\ \E rect \in Rects(canvas.size) :
         LET image == [canvas EXCEPT !.pixels =
                         [c \in DOMAIN @ |-> IF c \in Cells(rect) THEN left.draws ELSE @[c]]]
         IN canvas' = image /\ said' = Append(said, PixelsOf(image, rect))
    /\ UNCHANGED <<vnc, frame, item, inbox, sizes, server, keyb>>

(***************************************************************************)
(* The reader and the item                                                 *)
(***************************************************************************)
NewItem == [drawn |-> 0, tiles |-> Black(0), shown |-> 0, told |-> <<>>, dirty |-> FALSE,
            drain |-> FALSE, repaint |-> TRUE, keysyms |-> <<>>, focus |-> TRUE]
Receive ==
    /\ said # <<>> /\ said' = Tail(said)
    /\ frame' = IF Head(said).say = "size" THEN Resized(frame, Head(said).size) ELSE CopyRect(frame, Head(said))
    /\ item' = [item EXCEPT !.dirty = TRUE, !.drain = TRUE]
    /\ UNCHANGED <<vnc, canvas, inbox, sizes, server, keyb, left>>
Drain ==
    /\ item.drain
    /\ item' = [item EXCEPT !.drain = FALSE, !.repaint = @ \/ item.dirty, !.dirty = FALSE]
    /\ UNCHANGED <<vnc, canvas, said, frame, inbox, sizes, server, keyb, left>>

\* writePixels: clipped to the tiles.
Written(tiles, rects) ==
    [tiles EXCEPT !.pixels = [c \in DOMAIN @ |->
        IF \E i \in 1 .. Len(rects) : c \in Cells(rects[i]) THEN frame.pixels[c] ELSE @[c]]]
\* fill_framebuffer: all of it after a change of size, else what is dirty.
FillFramebuffer(i) ==
    IF i.drawn # frame.generation
    THEN [i EXCEPT !.drawn = frame.generation, !.told = Append(@, frame.size),
                   !.tiles = Written(Black(frame.size), <<All(frame.size)>>)]
    ELSE [i EXCEPT !.tiles = Written(@, frame.dirty)]
\* updatePaintNode, the GUI thread held meanwhile.
UpdatePaintNode ==
    /\ item.repaint
    /\ IF frame.size = 0 THEN item' = [item EXCEPT !.repaint = FALSE] /\ UNCHANGED frame
       ELSE /\ item' = FillFramebuffer([item EXCEPT !.repaint = FALSE])
            /\ frame' = [frame EXCEPT !.dirty = <<>>]
    /\ UNCHANGED <<vnc, canvas, said, inbox, sizes, server, keyb, left>>
\* The queued copy of the size for input and layout.
DesktopSizeChanges ==
    /\ item.told # <<>>
    /\ item' = [item EXCEPT !.told = Tail(@), !.shown = Head(item.told),
                            !.repaint = @ \/ item.shown # Head(item.told)]
    /\ UNCHANGED <<vnc, canvas, said, frame, inbox, sizes, server, keyb, left>>
\* Laid out with the GUI thread's size, or not at all.
OnScreen == IF item.shown = item.tiles.size THEN item.tiles ELSE Black(0)

\* A tab moved: a new item on the same frame (Qt draws a new item once).
MoveItem ==
    /\ left.moves > 0 /\ left' = [left EXCEPT !.moves = @ - 1]
    /\ item' = [NewItem EXCEPT !.drain = TRUE, !.dirty = item.dirty]
    /\ UNCHANGED <<vnc, canvas, said, frame, inbox, sizes, server, keyb>>

(***************************************************************************)
(* The size                                                                *)
(***************************************************************************)
NewSizes == [wanted |-> None, resizable |-> FALSE, ready |-> FALSE, pending |-> None]
\* resizeDesktop, in dynamic scaling: nothing for the size already shown.
ResizeDesktop(size) ==
    /\ left.sizes > 0 /\ left' = [left EXCEPT !.sizes = @ - 1]
    /\ sizes' = [sizes EXCEPT !.wanted = size]
    /\ inbox' = IF size = frame.size THEN inbox ELSE Append(inbox, [do |-> "resize", size |-> size])
    /\ UNCHANGED <<vnc, canvas, said, frame, item, server, keyb>>

\* VNC: kept until the server is known to take SetDesktopSize.
TakesResize(size) ==
    IF ~vnc \/ sizes.resizable THEN server' = [server EXCEPT !.asked = Append(@, size)] /\ UNCHANGED sizes
    ELSE sizes' = [sizes EXCEPT !.pending = size] /\ UNCHANGED server
\* The reader: an extended desktop size says so; the first one notifies.
LearnsResizable ==
    /\ vnc /\ ~sizes.resizable
    /\ sizes' = [sizes EXCEPT !.resizable = TRUE, !.ready = TRUE]
    /\ UNCHANGED <<vnc, canvas, said, frame, item, inbox, server, keyb, left>>
\* The notification is waited for only while a size is pending.
SendsPending ==
    /\ sizes.ready /\ sizes.pending # None
    /\ server' = [server EXCEPT !.asked = Append(@, sizes.pending)]
    /\ sizes' = [sizes EXCEPT !.ready = FALSE, !.pending = None]
    /\ UNCHANGED <<vnc, canvas, said, frame, item, inbox, keyb, left>>
\* The server changes its size; a server that kept it is connected to again at
\* that size by the RDP helper (RESIZE_WAIT, or no display control).
ServerResizes ==
    /\ server.asked # <<>>
    /\ server' = [server EXCEPT !.asked = Tail(@)]
    /\ LET size == Head(server.asked)
           image == Black(size)
       IN IF vnc /\ size = canvas.size THEN UNCHANGED <<canvas, said>>
          ELSE canvas' = image /\ said' = said \o ShowAll(image)
    /\ UNCHANGED <<vnc, frame, item, inbox, sizes, keyb, left>>

(***************************************************************************)
(* Keys and buttons                                                        *)
(***************************************************************************)
\* The keyboard: a letter key has one Qt key and types two characters; a
\* symbol key has one Qt key for each.
Key(k, shift) == IF k = "symbol" /\ shift THEN "symbol+" ELSE k
Keysym(k, shift) == IF k \in {"letter", "symbol"} /\ shift THEN k \o "+" ELSE k
NewKeyb == [down |-> {}, button |-> FALSE]
Shift == "shift" \in keyb.down

Send(message) == inbox' = Append(inbox, message)
\* handle_key with Pressed: the keysym of a press is remembered for its release.
Press(k) ==
    /\ left.keys > 0 /\ left' = [left EXCEPT !.keys = @ - 1]
    /\ item.focus /\ k \notin keyb.down
    /\ keyb' = [keyb EXCEPT !.down = @ \cup {k}]
    /\ LET keysym == IF vnc THEN Keysym(k, Shift) ELSE k
       IN /\ Send([do |-> "key", keysym |-> keysym, pressed |-> TRUE])
          /\ item' = IF vnc THEN [item EXCEPT !.keysyms = Append(@, [key |-> Key(k, Shift), native |-> k, keysym |-> keysym])]
                     ELSE item
    /\ UNCHANGED <<vnc, canvas, said, frame, sizes, server>>
ReleasedAs(k, shift) ==
    LET kept == {i \in 1 .. Len(item.keysyms) : item.keysyms[i].key = Key(k, shift) /\ item.keysyms[i].native = k}
    IN IF kept = {} THEN Keysym(k, shift) ELSE item.keysyms[Max(kept)].keysym
Release(k) ==
    /\ k \in keyb.down /\ UNCHANGED left
    /\ keyb' = [keyb EXCEPT !.down = @ \ {k}]
    /\ IF item.focus
       THEN /\ Send([do |-> "key", keysym |-> IF vnc THEN ReleasedAs(k, Shift) ELSE k, pressed |-> FALSE])
            /\ item' = [item EXCEPT !.keysyms = SelectSeq(@, LAMBDA e : ~(e.key = Key(k, Shift) /\ e.native = k))]
       ELSE UNCHANGED <<inbox, item>>
    /\ UNCHANGED <<vnc, canvas, said, frame, sizes, server>>
\* handle_pointer: a click moves and presses, and takes the focus; the release
\* comes to the item that was pressed.
PressButton ==
    /\ left.keys > 0 /\ left' = [left EXCEPT !.keys = @ - 1]
    /\ ~keyb.button /\ keyb' = [keyb EXCEPT !.button = TRUE]
    /\ item' = [item EXCEPT !.focus = TRUE]
    /\ Send([do |-> "button", pressed |-> TRUE])
    /\ UNCHANGED <<vnc, canvas, said, frame, sizes, server>>
ReleaseButton ==
    /\ keyb.button /\ keyb' = [keyb EXCEPT !.button = FALSE]
    /\ Send([do |-> "button", pressed |-> FALSE])
    /\ UNCHANGED <<vnc, canvas, said, frame, item, sizes, server, left>>
CtrlAltDel ==
    /\ left.keys > 0 /\ left' = [left EXCEPT !.keys = @ - 1]
    /\ Send([do |-> "ctrlAltDel"])
    /\ UNCHANGED <<vnc, canvas, said, frame, item, sizes, server, keyb>>
FocusOut ==
    /\ item.focus
    /\ item' = [item EXCEPT !.focus = FALSE, !.keysyms = <<>>]
    /\ Send([do |-> "releaseAll"])
    /\ UNCHANGED <<vnc, canvas, said, frame, sizes, server, keyb, left>>

\* inputs_of, input_events: the driver knows what is down by its own messages.
ReleaseAll == [server EXCEPT !.down = {}, !.button = FALSE]
Input(m) ==
    CASE m.do = "key" -> [server EXCEPT !.down = IF m.pressed THEN @ \cup {m.keysym} ELSE @ \ {m.keysym}]
      [] m.do = "button" -> [server EXCEPT !.button = m.pressed]
      [] m.do = "ctrlAltDel" -> [server EXCEPT !.down = @ \ {"ctrl", "alt", "del"}]
      [] m.do = "releaseAll" -> ReleaseAll
TakesInput ==
    /\ inbox # <<>> /\ inbox' = Tail(inbox)
    /\ LET m == Head(inbox)
       IN IF m.do = "resize" THEN TakesResize(m.size) ELSE server' = Input(m) /\ UNCHANGED sizes
    /\ UNCHANGED <<vnc, canvas, said, frame, item, keyb, left>>

(***************************************************************************)
(* The specification                                                       *)
(***************************************************************************)
FirstSize == Min(Sizes)
SInit ==
    /\ vnc \in BOOLEAN
    /\ canvas = Black(FirstSize) /\ said = ShowAll(canvas)
    /\ frame = NewFrame /\ item = NewItem /\ inbox = <<>>
    /\ sizes = NewSizes /\ server = [asked |-> <<>>, down |-> {}, button |-> FALSE]
    /\ keyb = NewKeyb /\ left \in Budgets
SNext ==
    \/ Draws \/ Receive \/ Drain \/ UpdatePaintNode \/ DesktopSizeChanges \/ MoveItem
    \/ \E size \in Sizes : ResizeDesktop(size)
    \/ LearnsResizable \/ SendsPending \/ ServerResizes \/ TakesInput
    \/ \E k \in {"letter", "symbol", "shift"} : Press(k) \/ Release(k)
    \/ PressButton \/ ReleaseButton \/ CtrlAltDel \/ FocusOut

SSpec == SInit /\ [][SNext]_screenVars

(***************************************************************************)
(* Properties                                                              *)
(***************************************************************************)
Painted == said = <<>> /\ ~item.drain /\ ~item.repaint /\ item.told = <<>>
\* Only the changed rectangles are copied, twice; still, once everything has
\* been heard and drawn, the pane shows the driver's image cell by cell, at
\* its size, whatever sizes, moves of the tab and limits came between.
PictureCatchesUp == Painted => OnScreen = canvas

\* "Nothing stays pressed on the server while the pane can't see the keys come
\* up.": once the driver has taken the pane's messages, a pane without the
\* focus has nothing down there, not even a button that is still held.
NothingStaysDown == inbox = <<>> /\ ~item.focus => server.down = {} /\ ~server.button

=============================================================================
