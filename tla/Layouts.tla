------------------------------ MODULE Layouts ------------------------------
(***************************************************************************)
(* One tab of the window: its split tree (opensesh-core/src/workspace/     *)
(* layout.rs), the pane rows, the focused and the maximized pane that the  *)
(* tab keeps beside it (qml/shell/TabWorkspace.qml), and the trip a tab    *)
(* makes through a workspace file (workspace/mod.rs, bridge/workspaces.rs).*)
(*                                                                         *)
(* A tree is a function from the paths of its nodes (1: first child, 2:    *)
(* second child) to a pane or to a split.  Ratios are in twentieths, so    *)
(* that MIN_RATIO is 1 and MAX_RATIO is 19; a step that is not a whole     *)
(* number of twentieths is rounded down to one.                            *)
(***************************************************************************)
EXTENDS Integers, Sequences, FiniteSets, SequencesExt

CONSTANTS
    Ids,       \* pane ids the registry can hand out
    Seeds,     \* the trees a tab starts from: one pane, or a saved workspace's
    MaxPanes,  \* bound: panes in a tab
    MaxSplit,  \* bound: panes up to which the user splits
    Ratios,    \* the shares a divider is dragged to, in twentieths
    NotFinite, \* a ratio that is no number
    Step       \* resizeStep, in twentieths of the tab

VARIABLES
    tree,    \* Layout::root
    rows,    \* paneModel: the tab's panes, in the order they were opened
    focused, \* focusedPane
    zoomed   \* zoomedPane, 0 for none

tabVars == <<tree, rows, focused, zoomed>>

Axes == {"horizontal", "vertical"}
Directions == {"left", "right", "up", "down"}
AxisOf(d) == IF d \in {"left", "right"} THEN "horizontal" ELSE "vertical"
Forward(d) == d \in {"right", "down"}
Opposite(d) == CASE d = "left" -> "right" [] d = "right" -> "left"
                 [] d = "up" -> "down" [] d = "down" -> "up"

(***************************************************************************)
(* Trees                                                                   *)
(***************************************************************************)
Leaf(pane) == [kind |-> "pane", pane |-> pane]
Fork(axis, ratio) == [kind |-> "split", axis |-> axis, ratio |-> ratio]
IsSplit(t, p) == p \in DOMAIN t /\ t[p].kind = "split"
Leaves(t) == {p \in DOMAIN t : t[p].kind = "pane"}
Panes(t) == {t[p].pane : p \in Leaves(t)}
PathOf(t, pane) == CHOOSE p \in Leaves(t) : t[p].pane = pane

\* p comes before q in reading order (neither is a prefix of the other).
Before(p, q) ==
    \E i \in 1 .. Len(p) :
        /\ i <= Len(q)
        /\ p[i] < q[i]
        /\ \A j \in 1 .. i - 1 : p[j] = q[j]
PanesInOrder(t) ==
    LET paths == SetToSortSeq(Leaves(t), Before)
    IN [i \in 1 .. Len(paths) |-> t[paths[i]].pane]

Clamp(ratio) == IF ratio < 1 THEN 1 ELSE IF ratio > 19 THEN 19 ELSE ratio
ClampRatio(ratio) == IF ratio = NotFinite THEN 10 ELSE Clamp(ratio)

\* from_node: ratios are clamped; a tree with a pane twice is refused.
FromNode(t) ==
    [p \in DOMAIN t |-> IF t[p].kind = "split"
                        THEN [t[p] EXCEPT !.ratio = ClampRatio(@)]
                        ELSE t[p]]
NoPaneTwice(t) == Cardinality(Panes(t)) = Cardinality(Leaves(t))

CanSplit(t, target, new) == target \in Panes(t) /\ new \notin Panes(t)
Split(t, target, axis, new, after) ==
    LET p == PathOf(t, target)
        one == p \o <<1>>
        two == p \o <<2>>
    IN [q \in DOMAIN t \cup {one, two} |->
           CASE q = p   -> Fork(axis, 10)
             [] q = one -> Leaf(IF after THEN target ELSE new)
             [] q = two -> Leaf(IF after THEN new ELSE target)
             [] OTHER   -> t[q]]

\* The sibling takes its parent's place.
CanClose(t, target) == target \in Panes(t) /\ PathOf(t, target) # <<>>
SiblingOf(p) == Front(p) \o <<3 - Last(p)>>
Close(t, target) ==
    LET p == PathOf(t, target)
        up == Front(p)
        sibling == SiblingOf(p)
        moved == {SubSeq(q, Len(sibling) + 1, Len(q)) :
                     q \in {q \in DOMAIN t : IsPrefix(sibling, q)}}
    IN [q \in {q \in DOMAIN t : ~IsPrefix(up, q)} \cup {up \o r : r \in moved} |->
           IF IsPrefix(up, q)
           THEN t[sibling \o SubSeq(q, Len(up) + 1, Len(q))]
           ELSE t[q]]
\* The focus goes to the sibling's pane next to the one that went away.
CloseFocus(t, target) ==
    LET p == PathOf(t, target)
        sibling == SiblingOf(p)
        side == Last(p)
    IN t[CHOOSE q \in Leaves(t) :
            /\ IsPrefix(sibling, q)
            /\ \A i \in Len(sibling) + 1 .. Len(q) : q[i] = side].pane
SetRatio(t, path, ratio) == [t EXCEPT ![path].ratio = ClampRatio(ratio)]
Swap(t, a, b) ==
    [p \in DOMAIN t |->
        CASE t[p] = Leaf(a) -> Leaf(b)
          [] t[p] = Leaf(b) -> Leaf(a)
          [] OTHER          -> t[p]]
Equalize(t) ==
    [p \in DOMAIN t |-> IF t[p].kind = "split" THEN [t[p] EXCEPT !.ratio = 10] ELSE t[p]]
MapPanes(t, f) ==
    [p \in DOMAIN t |-> IF t[p].kind = "pane" THEN Leaf(f[t[p].pane]) ELSE t[p]]

(***************************************************************************)
(* Geometry: Side is large enough that every edge is a whole number.       *)
(***************************************************************************)
Side == 20 ^ (MaxPanes - 1)
Unit == [x |-> 0, y |-> 0, w |-> Side, h |-> Side]
Half(r, axis, ratio, child) ==
    LET first == ((IF axis = "horizontal" THEN r.w ELSE r.h) * ratio) \div 20
    IN CASE axis = "horizontal" /\ child = 1 -> [r EXCEPT !.w = first]
         [] axis = "horizontal" /\ child = 2 -> [r EXCEPT !.x = @ + first, !.w = @ - first]
         [] axis = "vertical" /\ child = 1   -> [r EXCEPT !.h = first]
         [] axis = "vertical" /\ child = 2   -> [r EXCEPT !.y = @ + first, !.h = @ - first]
Area(t, path) ==
    LET at[i \in 0 .. Len(path)] ==
            IF i = 0 THEN Unit
            ELSE LET node == t[SubSeq(path, 1, i - 1)]
                 IN Half(at[i - 1], node.axis, node.ratio, path[i])
    IN at[Len(path)]
Rects(t) == [pane \in Panes(t) |-> Area(t, PathOf(t, pane))]
Abs(n) == IF n < 0 THEN -n ELSE n
Lesser(a, b) == IF a < b THEN a ELSE b
Greater(a, b) == IF a > b THEN a ELSE b
Overlap(a0, a1, b0, b1) == Greater(Lesser(a1, b1) - Greater(a0, b0), 0)
Touches(o, r, d) ==
    CASE d = "left"  -> r.x + r.w = o.x
      [] d = "right" -> o.x + o.w = r.x
      [] d = "up"    -> r.y + r.h = o.y
      [] d = "down"  -> o.y + o.h = r.y
Shared(o, r, d) ==
    IF AxisOf(d) = "horizontal"
    THEN Overlap(o.y, o.y + o.h, r.y, r.y + r.h)
    ELSE Overlap(o.x, o.x + o.w, r.x, r.x + r.w)
\* Twice the distance between the centers.
Distance(o, r) == Abs(2 * r.x + r.w - 2 * o.x - o.w) + Abs(2 * r.y + r.h - 2 * o.y - o.h)

NeighborCorner(t, from, d) ==
    LET rect == Rects(t)
        near == {c \in Panes(t) \ {from} : Touches(rect[from], rect[c], d)}
    IN IF near = {} THEN 0
       ELSE CHOOSE c \in near : \A o \in near \ {c} : Before(PathOf(t, c), PathOf(t, o))
\* The most overlap wins, then the closest, then the first in reading order.
Neighbor(t, from, d) ==
    LET rect == Rects(t)
        near == {c \in Panes(t) \ {from} :
                    Touches(rect[from], rect[c], d) /\ Shared(rect[from], rect[c], d) > 0}
        Beats(a, b) ==
            LET sa == Shared(rect[from], rect[a], d)
                sb == Shared(rect[from], rect[b], d)
                da == Distance(rect[from], rect[a])
                db == Distance(rect[from], rect[b])
            IN sa > sb \/ (sa = sb /\ (da < db
                   \/ (da = db /\ Before(PathOf(t, a), PathOf(t, b)))))
    IN IF near = {} THEN 0
       ELSE CHOOSE c \in near : \A o \in near \ {c} : Beats(c, o)
\* resize: the innermost split of the axis that has the pane on the other side.
ResizeAt(t, pane, d) ==
    LET p == PathOf(t, pane)
    IN {SubSeq(p, 1, i - 1) : i \in {i \in 1 .. Len(p) :
           /\ t[SubSeq(p, 1, i - 1)].axis = AxisOf(d)
           /\ p[i] = IF Forward(d) THEN 1 ELSE 2}}
CanResize(t, pane, d) == ResizeAt(t, pane, d) # {}
Resize(t, pane, d, step) ==
    LET path == CHOOSE p \in ResizeAt(t, pane, d) :
                    \A q \in ResizeAt(t, pane, d) : Len(q) <= Len(p)
        area == Area(t, path)
        size == IF AxisOf(d) = "horizontal" THEN area.w ELSE area.h
        delta == (Abs(step) * Side) \div size
        sign == (IF Forward(d) THEN 1 ELSE -1) * (IF step < 0 THEN -1 ELSE 1)
    IN SetRatio(t, path, t[path].ratio + sign * delta)
(***************************************************************************)
(* Through a workspace file: pane ids become indexes of the pane list and, *)
(* when it is opened, new ids.                                             *)
(***************************************************************************)
IdsIn(list) == {list[i].id : i \in 1 .. Len(list)}
IndexOf(list) == [id \in IdsIn(list) |-> CHOOSE i \in 1 .. Len(list) : list[i].id = id]

\* validate: the layout's panes are exactly the listed ones; out of range
\* indexes of the focused and the maximized pane are dropped.  Indexes are
\* one-based here; 0 is "none".
Validate(tab) ==
    LET n == Len(tab.panes)
        layout == FromNode(tab.layout)
    IN IF ~NoPaneTwice(layout) \/ Panes(layout) # 1 .. n THEN [ok |-> FALSE]
       ELSE [ok |-> TRUE, layout |-> layout, panes |-> tab.panes,
             focused |-> IF tab.focused \in 1 .. n THEN tab.focused ELSE 1,
             zoomed |-> IF tab.zoomed \in 1 .. n THEN tab.zoomed ELSE 0]
\* workspace_from_qml, one tab.
FromQml(tab) ==
    LET index == IndexOf(tab.panes)
        layout == FromNode(tab.layout)
    IN IF ~NoPaneTwice(layout) \/ ~(Panes(layout) \subseteq DOMAIN index) THEN [ok |-> FALSE]
       ELSE Validate(
              [layout |-> MapPanes(layout, index),
               panes |-> [i \in 1 .. Len(tab.panes) |-> tab.panes[i].runs],
               focused |-> IF tab.focused \in DOMAIN index THEN index[tab.focused] ELSE 1,
               zoomed |-> IF tab.zoomed \in DOMAIN index THEN index[tab.zoomed] ELSE 0])

\* workspace_to_qml, one tab; Allocated[i] is the id the i-th pane gets.
ToQml(tab, allocated) ==
    [layout |-> MapPanes(tab.layout, allocated),
     panes |-> [i \in 1 .. Len(tab.panes) |-> [id |-> allocated[i], runs |-> tab.panes[i]]],
     focused |-> allocated[tab.focused],
     zoomed |-> IF tab.zoomed = 0 THEN 0 ELSE allocated[tab.zoomed]]

\* from_toml_str for one window: the tabs that can be restored stay, and an
\* index past the end shows the first tab; a window without tabs goes.
FromToml(tabs, current) ==
    LET kept == SelectSeq([i \in 1 .. Len(tabs) |-> Validate(tabs[i])], LAMBDA t : t.ok)
    IN [tabs |-> kept, current |-> IF current > Len(kept) THEN 1 ELSE current]

\* remap, as freshTab uses it for a duplicated or reopened tab.
Remap(t, mapping) ==
    LET mapped == MapPanes(t, [id \in Panes(t) |-> IF id \in DOMAIN mapping THEN mapping[id]
                                                   ELSE id])
    IN IF NoPaneTwice(mapped) THEN mapped ELSE <<>>
(***************************************************************************)
(* The tab                                                                 *)
(***************************************************************************)
Row(id) == [id |-> id, runs |-> <<"pane", id>>]
Tab == [layout |-> tree, panes |-> rows, focused |-> focused, zoomed |-> zoomed]

\* registry::allocate_id never repeats an id; an id that no pane has any more
\* stands for a new one here.
AllocateId == CHOOSE id \in Ids \ Panes(tree) : \A o \in Ids \ Panes(tree) : id <= o

LInit ==
    /\ tree \in Seeds
    /\ rows = [i \in 1 .. Cardinality(Leaves(tree)) |-> Row(PanesInOrder(tree)[i])]
    /\ focused = PanesInOrder(tree)[1]
    /\ zoomed = 0

SplitPane(target, axis) ==
    /\ Len(rows) < MaxSplit
    /\ CanSplit(tree, target, AllocateId)
    /\ tree' = Split(tree, target, axis, AllocateId, TRUE)
    /\ rows' = Append(rows, Row(AllocateId))
    /\ zoomed' = 0
    /\ focused' = AllocateId

ClosePane(id) ==
    /\ CanClose(tree, id)
    /\ tree' = Close(tree, id)
    /\ rows' = SelectSeq(rows, LAMBDA r : r.id # id)
    /\ zoomed' = IF zoomed = id THEN 0 ELSE zoomed
    /\ focused' = IF focused = id THEN CloseFocus(tree, id) ELSE focused
FocusPane(id) ==
    /\ id \in Panes(tree)
    /\ zoomed' = IF zoomed # id THEN 0 ELSE zoomed
    /\ focused' = id
    /\ UNCHANGED <<tree, rows>>

MoveFocus(d) ==
    /\ Neighbor(tree, focused, d) # 0
    /\ FocusPane(Neighbor(tree, focused, d))

ResizePane(d) ==
    /\ \/ /\ CanResize(tree, focused, d)
          /\ tree' = Resize(tree, focused, d, Step)
       \/ /\ ~CanResize(tree, focused, d)
          /\ CanResize(tree, focused, Opposite(d))
          /\ tree' = Resize(tree, focused, Opposite(d), -Step)
    /\ UNCHANGED <<rows, focused, zoomed>>

SwapPane(d) ==
    /\ Neighbor(tree, focused, d) # 0
    /\ tree' = Swap(tree, focused, Neighbor(tree, focused, d))
    /\ UNCHANGED <<rows, focused, zoomed>>

ToggleZoom(id) ==
    /\ Len(rows) >= 2
    /\ id \in Panes(tree)
    /\ zoomed' = IF zoomed = id THEN 0 ELSE id
    /\ focused' = id
    /\ UNCHANGED <<tree, rows>>

EqualizePanes ==
    /\ tree' = Equalize(tree)
    /\ UNCHANGED <<rows, focused, zoomed>>

DragDivider(path, ratio) ==
    /\ IsSplit(tree, path)
    /\ tree' = SetRatio(tree, path, ratio)
    /\ UNCHANGED <<rows, focused, zoomed>>

LNext ==
    \/ \E id \in Ids, axis \in Axes : SplitPane(id, axis)
    \/ \E id \in Ids : ClosePane(id) \/ FocusPane(id) \/ ToggleZoom(id)
    \/ \E d \in Directions : MoveFocus(d) \/ ResizePane(d) \/ SwapPane(d)
    \/ EqualizePanes
    \/ \E path \in DOMAIN tree, ratio \in Ratios : DragDivider(path, ratio)

LSpec == LInit /\ [][LNext]_tabVars

(***************************************************************************)
(* Properties                                                              *)
(***************************************************************************)
IsTree(t) ==
    /\ <<>> \in DOMAIN t
    /\ \A p \in DOMAIN t : p # <<>> => IsSplit(t, Front(p))
    /\ \A p \in DOMAIN t : t[p].kind = "split" =>
           /\ p \o <<1>> \in DOMAIN t
           /\ p \o <<2>> \in DOMAIN t
           /\ t[p].ratio \in 1 .. 19
    /\ NoPaneTwice(t)

\* layout.rs says every operation keeps the tree valid: splits have two
\* children, ratios are in range and a pane appears once.  The tab relies on
\* more: the tree's panes are the tab's rows, the focus is one of them, and a
\* maximized pane is the focused one.
LayoutValid ==
    /\ IsTree(tree)
    /\ Panes(tree) = IdsIn(rows)
    /\ Len(rows) = Cardinality(Panes(tree))
    /\ focused \in Panes(tree)
    /\ zoomed \in {0, focused}

\* The panes' areas cover the tab and no two overlap, so nothing is hidden.
\* A pane that does not reach the tab's edge has a neighbour on that side, so
\* moving the focus never gets stuck inside (Layout::neighbor).
Edge(r, d) == CASE d = "left" -> r.x = 0 [] d = "right" -> r.x + r.w = Side
                [] d = "up" -> r.y = 0 [] d = "down" -> r.y + r.h = Side
GeometrySound ==
    LET rect == Rects(tree)
    IN /\ \A a, b \in Panes(tree) : a # b =>
              Overlap(rect[a].x, rect[a].x + rect[a].w, rect[b].x, rect[b].x + rect[b].w) = 0
              \/ Overlap(rect[a].y, rect[a].y + rect[a].h, rect[b].y, rect[b].y + rect[b].h) = 0
       /\ FoldFunction(LAMBDA r, sum : r.w * r.h + sum, 0, rect) = Side * Side
       /\ \A a \in Panes(tree), d \in Directions :
              LET b == Neighbor(tree, a, d)
              IN IF Edge(rect[a], d) THEN b = 0
                 ELSE b # 0 /\ Touches(rect[a], rect[b], d) /\ Shared(rect[a], rect[b], d) > 0
       /\ \A a \in Panes(tree), d \in Directions : CanResize(tree, a, d) =>
              LET after == Rects(Resize(tree, a, d, Step))
              IN after[a].w >= rect[a].w /\ after[a].h >= rect[a].h

\* A tab saved to a workspace file and opened again (round_trip) has the same
\* splits, the same thing running in each place, the same focused and
\* maximized place, and none of its old pane ids.  A file someone edited is
\* either refused or a tab whose tree and indexes are sound, and a duplicated
\* tab keeps its shape.
Fresh(i) == Cardinality(Ids) + i
Opened(file) == ToQml(file, [i \in 1 .. Len(file.panes) |-> Fresh(i)])
RunsAt(tab, path) == tab.panes[IndexOf(tab.panes)[tab.layout[path].pane]].runs
SameSplits(s, t) ==
    /\ DOMAIN s = DOMAIN t
    /\ \A p \in DOMAIN s : s[p].kind = "split" => t[p] = s[p]
Edits(file) ==
    {[file EXCEPT !.layout[p] = Leaf(i)] : p \in Leaves(tree), i \in 0 .. Len(rows)}
    \cup {[file EXCEPT !.focused = i, !.zoomed = i] : i \in {0, Len(rows) + 1}}
RoundTripKeeps ==
    LET file == FromQml(Tab)
        opened == Opened(file)
    IN /\ file.ok
       /\ SameSplits(tree, opened.layout)
       /\ \A p \in Leaves(tree) : RunsAt(opened, p) = RunsAt(Tab, p)
       /\ PathOf(opened.layout, opened.focused) = PathOf(tree, focused)
       /\ IF zoomed = 0 THEN opened.zoomed = 0
          ELSE PathOf(opened.layout, opened.zoomed) = PathOf(tree, zoomed)
       /\ Panes(opened.layout) \cap Ids = {}
       /\ \A edit \in Edits(file) :
              LET kept == Validate(edit)
                  window == FromToml(<<file, edit>>, 2)
              IN /\ window.current <= Len(window.tabs)
                 /\ kept.ok => /\ IsTree(kept.layout)
                               /\ Panes(kept.layout) = 1 .. Len(kept.panes)
                               /\ kept.focused \in Panes(kept.layout)
                               /\ kept.zoomed \in Panes(kept.layout) \cup {0}
       /\ \A mapping \in [Panes(tree) -> {Fresh(1), Fresh(2)}] :
              LET copy == Remap(tree, mapping)
              IN copy # <<>> => NoPaneTwice(copy) /\ SameSplits(tree, copy)
=============================================================================
