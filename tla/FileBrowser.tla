----------------------------- MODULE FileBrowser -----------------------------
(***************************************************************************)
(* One file pane (bridge/sftp_browser.rs, app/src/sftp.rs).  The GUI       *)
(* thread starts tasks on the SSH runtime: opening the files, listing a    *)
(* folder, an operation, the space left.  Their results come back in any   *)
(* order, after the user has gone elsewhere or the terminal the pane       *)
(* follows has reconnected.  A file system is the number of the attempt    *)
(* that opened it; None is no file system.                                 *)
(***************************************************************************)
EXTENDS Naturals, FiniteSets, Sequences

CONSTANTS
    Sources,   \* what a pane may be of: "local", "terminal", "host", "none"
    Paths,     \* folders
    None,
    MaxAsks    \* bound: what the user and the terminal do

VARIABLES
    source,    \* mode, hostId, target, terminalSession
    serial,    \* connectionSerial: 0 when the terminal has no connection
    status, busy,
    fs,        \* the open file system
    panes,     \* PANES[paneId]: what Transfers copies from and to
    attempt, generation,
    listing,   \* the folder being listed
    path,      \* the folder shown
    rows,      \* where the entries shown came from: [fs, path, generation]
    space,     \* whose space is shown: [fs, generation]
    requests,  \* the questions of connections: the attempts that ask
    started,
    tasks,     \* the tasks of the runtime
    asks,      \* user actions so far
    settled    \* history: the newest generation whose listing was delivered

fileVars == <<source, serial, status, busy, fs, panes, attempt, generation, listing,
              path, rows, space, requests, started, tasks, asks, settled>>

OpenTask(n) == [kind |-> "open", n |-> n, fs |-> None, path |-> None]
ListTask(n, f, p) == [kind |-> "list", n |-> n, fs |-> f, path |-> p]
SpaceTask(n, f, p) == [kind |-> "space", n |-> n, fs |-> f, path |-> p]
Operation(n, f) == [kind |-> "operation", n |-> n, fs |-> f, path |-> None]

BInit ==
    /\ source \in Sources
    /\ serial \in IF source = "terminal" THEN {0, 1} ELSE {0}
    /\ status = "idle"
    /\ busy = FALSE
    /\ fs = None /\ panes = None
    /\ attempt = 0 /\ generation = 0
    /\ listing = None /\ path = None
    /\ rows = [fs |-> None, path |-> None, generation |-> 0]
    /\ space = [fs |-> None, generation |-> 0]
    /\ requests = <<>>
    /\ started = FALSE
    /\ tasks = {}
    /\ asks = 0
    /\ settled = 0

Ask == asks < MaxAsks /\ asks' = asks + 1

\* list: the folder asked for is remembered, and the answer to an older
\* request will be ignored.
List(p, f, started_tasks) ==
    /\ generation' = generation + 1
    /\ listing' = p
    /\ busy' = TRUE
    /\ tasks' = started_tasks \cup {ListTask(generation + 1, f, p)}

(***************************************************************************)
(* open: what start, reconnect and a new connection of the terminal do     *)
(***************************************************************************)
Remote == source \in {"terminal", "host"}
\* Nothing to open, or the terminal is not connected.
OpenNothing ==
    /\ source = "none" \/ (source = "terminal" /\ serial' = 0)
    /\ status' = IF source = "none" THEN "idle" ELSE "disconnected"
    /\ fs' = None /\ panes' = None
    /\ UNCHANGED <<busy, generation, listing, tasks>>
OpenLocal ==
    /\ source = "local"
    /\ status' = "ready"
    /\ fs' = attempt + 1 /\ panes' = attempt + 1
    /\ \E p \in Paths : List(p, attempt + 1, tasks)
OpenRemote ==
    /\ Remote
    /\ source = "terminal" => serial' > 0
    /\ status' = "connecting"
    /\ fs' = None /\ panes' = None
    /\ tasks' = tasks \cup {OpenTask(attempt + 1)}
    /\ UNCHANGED <<busy, generation, listing>>
\* The questions of the attempt before count as cancelled.  The generation stays:
\* a listing of the file system before may still come and be shown.
Open ==
    /\ attempt' = attempt + 1
    /\ requests' = <<>>
    /\ OpenNothing \/ OpenLocal \/ OpenRemote
    /\ UNCHANGED <<source, path, rows, space, settled>>

Start == Ask /\ started' = TRUE /\ UNCHANGED serial /\ Open
Reconnect == Ask /\ started /\ UNCHANGED <<started, serial>> /\ Open

\* set_connection_serial: the terminal connected again, or dropped.
SetConnectionSerial ==
    /\ Ask
    /\ source = "terminal"
    /\ serial' = IF serial = 0 THEN attempt + 2 ELSE 0
    /\ UNCHANGED started
    /\ \/ started /\ serial' > 0 /\ Open
       \/ /\ started /\ serial' = 0
          /\ fs' = None /\ panes' = None
          /\ status' = "disconnected"
          /\ UNCHANGED <<source, busy, attempt, generation, listing, path, rows, space, requests, tasks, settled>>
       \/ /\ ~started
          /\ UNCHANGED <<source, status, busy, fs, panes, attempt, generation, listing, path, rows, space,
                         requests, tasks, settled>>

\* open_files ends.  An attempt that is not the last is ignored.
OpenDone(t, ok) ==
    /\ t \in tasks /\ t.kind = "open"
    /\ \/ /\ t.n # attempt
          /\ tasks' = tasks \ {t}
          /\ UNCHANGED <<status, busy, fs, panes, generation, listing>>
       \/ /\ t.n = attempt /\ ok
          /\ status' = "ready"
          /\ fs' = t.n /\ panes' = t.n
          /\ \E p \in Paths : List(p, t.n, tasks \ {t})
       \/ /\ t.n = attempt /\ ~ok
          /\ status' = "error"
          /\ tasks' = tasks \ {t}
          /\ UNCHANGED <<busy, fs, panes, generation, listing>>
    /\ UNCHANGED <<source, serial, attempt, path, rows, space, requests, started, asks, settled>>

(***************************************************************************)
(* Questions of a connection                                               *)
(***************************************************************************)
PushRequest(t) ==
    /\ t \in tasks /\ t.kind = "open"
    /\ source = "host"
    /\ t.n \notin {requests[i] : i \in DOMAIN requests}
    /\ requests' = Append(requests, t.n)
    /\ UNCHANGED <<source, serial, status, busy, fs, panes, attempt, generation, listing, path, rows, space,
                   started, tasks, asks, settled>>
AnswerPrompt ==
    /\ Ask
    /\ requests # <<>>
    /\ requests' = Tail(requests)
    /\ UNCHANGED <<source, serial, status, busy, fs, panes, attempt, generation, listing, path, rows, space,
                   started, tasks, settled>>

(***************************************************************************)
(* Folders                                                                 *)
(***************************************************************************)
\* navigate, up, open_row: nothing without a file system.
Navigate(p) ==
    /\ Ask
    /\ fs # None
    /\ List(p, fs, tasks)
    /\ UNCHANGED <<source, serial, status, fs, panes, attempt, path, rows, space, requests, started, settled>>

\* refresh: the folder being listed, or the one shown.
Refreshed == IF listing # None THEN listing ELSE IF path # None THEN path ELSE CHOOSE p \in Paths : TRUE
Refresh ==
    /\ Ask
    /\ fs # None
    /\ List(Refreshed, fs, tasks)
    /\ UNCHANGED <<source, serial, status, fs, panes, attempt, path, rows, space, requests, started, settled>>

\* The listing that was asked for last ends: "ok", "lost" the connection, or
\* "failed".  apply_view shows the entries, query_space asks for the space.
ListDone(t, how) ==
    /\ t \in tasks /\ t.kind = "list"
    /\ \/ /\ t.n # generation
          /\ tasks' = tasks \ {t}
          /\ UNCHANGED <<status, busy, listing, path, rows, settled>>
       \/ /\ t.n = generation
          /\ listing' = None
          /\ busy' = FALSE
          /\ rows' = IF how = "ok" THEN [fs |-> t.fs, path |-> t.path, generation |-> t.n] ELSE rows
          /\ path' = IF how = "ok" THEN t.path ELSE path
          /\ status' = IF how = "lost" THEN "disconnected" ELSE "ready"
          /\ settled' = IF how = "ok" THEN t.n ELSE settled
          /\ tasks' = (tasks \ {t})
               \cup IF how = "ok" /\ fs # None /\ Remote THEN {SpaceTask(t.n, fs, t.path)} ELSE {}
    /\ UNCHANGED <<source, serial, fs, panes, attempt, generation, space, requests, started, asks>>

SpaceDone(t) ==
    /\ t \in tasks /\ t.kind = "space"
    /\ tasks' = tasks \ {t}
    /\ space' = IF t.n = generation THEN [fs |-> t.fs, generation |-> t.n] ELSE space
    /\ UNCHANGED <<source, serial, status, busy, fs, panes, attempt, generation, listing, path, rows,
                   requests, started, asks, settled>>

\* mkdir, create_file, rename, remove, chmod, symlink, move_into.
Operate ==
    /\ Ask
    /\ fs # None
    /\ busy' = TRUE
    /\ tasks' = tasks \cup {Operation(asks, fs)}
    /\ UNCHANGED <<source, serial, status, fs, panes, attempt, generation, listing, path, rows, space,
                   requests, started, settled>>
\* It ends, well or not, and the folder is listed again; or the connection
\* is lost.
OperateDone(t, lost) ==
    /\ t \in tasks /\ t.kind = "operation"
    /\ \/ /\ lost
          /\ status' = "disconnected"
          /\ busy' = FALSE
          /\ tasks' = tasks \ {t}
          /\ UNCHANGED <<generation, listing>>
       \/ /\ ~lost /\ fs # None
          /\ List(Refreshed, fs, tasks \ {t})
          /\ UNCHANGED status
       \/ /\ ~lost /\ fs = None
          /\ busy' = FALSE
          /\ tasks' = tasks \ {t}
          /\ UNCHANGED <<status, generation, listing>>
    /\ UNCHANGED <<source, serial, fs, panes, attempt, path, rows, space, requests, started, asks, settled>>

BNext ==
    \/ Start \/ Reconnect \/ SetConnectionSerial
    \/ AnswerPrompt \/ Refresh \/ Operate
    \/ \E p \in Paths : Navigate(p)
    \/ \E t \in tasks :
          \/ \E ok \in BOOLEAN : OpenDone(t, ok) \/ OperateDone(t, ok)
          \/ \E how \in {"ok", "lost", "failed"} : ListDone(t, how)
          \/ SpaceDone(t) \/ PushRequest(t)

BSpec == BInit /\ [][BNext]_fileVars

(***************************************************************************)
(* Properties                                                              *)
(***************************************************************************)
\* What the pane shows hangs together whatever order the results come in:
\* the rows are of the folder named above them and of the newest listing that
\* came back, the space shown is not newer.  While a file system is open, its
\* first listing supersedes every one of those before it, so that rows and space
\* of the newest listing are its own (until then, and while the pane connects,
\* they may be of the one before).  A spinner means that something is under way;
\* and Transfers reaches the pane's own file system, never one it has left.
PaneConsistent ==
    /\ rows.path = path
    /\ rows.generation = settled
    /\ space.generation <= settled
    /\ fs # None =>
          /\ rows.generation = generation => rows.fs = fs
          /\ space.generation = generation => space.fs = fs
          /\ \A t \in tasks : t.kind = "list" /\ t.n = generation => t.fs = fs
    /\ busy => \E t \in tasks : t.kind = "operation" \/ (t.kind = "list" /\ t.n = generation)
    /\ listing # None => \E t \in tasks : t.kind = "list" /\ t.n = generation
    /\ panes = fs
    /\ fs # None => fs = attempt

=============================================================================
