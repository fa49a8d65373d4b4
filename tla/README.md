# OpenSesh in TLA+

A verification project for OpenSesh (`src/`), a terminal, SSH, SFTP and remote
desktop client written in Rust with a QML interface. The modules model the parts
of the program where its own logic is hard to test: what happens to the user's
files, secrets, sessions, transfers and tunnels when threads, other instances,
other programs, servers, failures and crashes get in between two steps, and what
its parsers and encoders make of unusual input. TLC checks them on small
instances; TLAPS proves the core results for every size.

## 1. Inventory

### The parts and how they interact

OpenSesh is one GUI process (`crates/opensesh-app`) over libraries for settings
(`opensesh-core`), the vault (`opensesh-vault`), SSH, SFTP, tunnels
(`opensesh-ssh`), the terminal (`opensesh-term`), S3, RDP, VNC, Telnet and
serial lines, and importers. QML singletons (`bridge/*.rs`) keep state on the
GUI thread and hand work to background threads and async tasks, which post
closures back. A terminal pane is an item on the GUI thread over an engine
thread over a backend (a local PTY, an SSH task, mosh, serial, telnet); the
engine sees any backend only through the bounded channel of `backend.rs`. A
remote desktop pane talks to a driver (a helper process for RDP, a task for
VNC). What is saved goes through one background writer per process.

| Part | State it keeps | Operations | Hard behaviour |
|---|---|---|---|
| Background writer (`core/writer.rs`) | pending version per file | write, flush, remove, exit | debounce, replaced versions, dropped callbacks, failures |
| Merge on save (`core/sync.rs`) | baselines, folder lock | write_merging, merge3 | other instances and programs on the same file, stale baselines |
| Conflict copies, folder moves (`core/sync.rs`, `bridge/settings_sync.rs`) | conflicts found, the dialog's choices | scan, resolve, move | scans and arrivals while a dialog is open |
| Atomic replacement (`core/fsutil.rs`) | file, temporary file, backups | atomic_write | failures and power loss between any two steps |
| Hosts, snippets, tunnels singletons (`bridge/*.rs`, `saves.rs`) | list, SaveTracker | modify, save, reload | reload threads overlapping saves and each other |
| Groups and hosts (`core/hosts`) | a forest | edit, move, delete, import | files written by hand, long sequences of edits |
| Quick connect (`core/hosts/target.rs`) | a typed text and its canonical form | parse, record, run | text that another program reads as an option |
| Settings, key bindings (`core/config.rs`, `bridge/settings.rs`) | settings, OwnWrites, protection | set, write_done, file_changed | echoes of own saves, limits, newer files |
| Profiles, themes (`core/terminal`, `core/theme.rs`) | library of files | save, remove, import, export | one SaveTracker for many files, conversions |
| Vault (`vault/vault.rs`) | file in memory, keyring entry, vault.bin | create, unlock, change, passwords, remember, reset | two stores that cannot change together |
| Keychain and its service (`vault/manager.rs`, `app/keychain.rs`) | keychain.toml, the vault's entries, back-off, jobs | save, delete, reload, garbage, import, fetch | two files that cannot change together, answers by two paths |
| Transfer queue and list (`ssh/sftp/transfer.rs`, `bridge/transfers.rs`) | jobs, file tasks, permits | add, pause, resume, cancel, answer, retry, limit | tasks in parallel, questions, half-written files, late events |
| SFTP browser, remote edits (`bridge/sftp_browser.rs`, `transfers.rs`) | folder, rows, edited copies | list, operate, edit, upload | late answers, changes by others |
| Tunnels (`app/tunnels.rs`, `ssh/tunnel/mod.rs`) | entries, runs, forwards | on, off, change, answer, sessions | runs that overlap, lost connections, late reports |
| SSH connection and backend (`ssh/connect.rs`, `backend.rs`) | known hosts, the task's state | connect, authenticate, reconnect, close | questions, hops, losses, resizes at any moment |
| Local PTY, mosh, serial, telnet | threads, tasks, options | start, write, resize, close | a program that does not read, a full channel, loops of answers |
| Terminal engine and view (`term/session.rs`, `bridge/terminal_view.rs`) | grid, flags, batches, frames | parse, resize, paste, attach, draw | wake-ups lost between three threads |
| Terminal input and encodings (`term/input`, `osc.rs`, `core/paste.rs`) | buttons, selection, parsers | press, wheel, paste, escape | modes that change between two events |
| Recordings, monitor | lines, readings | record, play, parse | output cut anywhere |
| Remote desktops (`rdp/`, `opensesh-vnc`, `bridge/rdp_view.rs`) | questions, picture, keys down | connect, draw, resize, press | a driver that dies, stale questions |
| Workspaces and layouts (`core/workspace`) | split tree, files | split, drag, close, restore, save, remove | limits of ratios, saves against removals |
| Snippets and macros (`app/snippets.rs`) | runs, recorder, file | run, stop, record, save | waits against output |

`PROJECT.json` lists every component with its state of modelling, and under
`hazards` each place in the code that a test would hardly reach.

### What makes each part correct

- **Saves**: an edit that has settled is on disk; a save changes nobody else's
  records; every save settles; readers see the old or the new file, whole;
  backups stay in order; a removal is not undone by a save still waiting.
- **Reloads**: what is shown equals what is on disk once everything is quiet;
  what is skipped happens later.
- **Vault and keychain**: the key of a vault is never lost, the password the
  user was told opens it, saved secrets stay, an unreadable file is not touched,
  a wait after wrong passwords holds, every job is answered.
- **Sessions**: a backend keeps its contract and ends when its pane is closed;
  both ends agree about the size; secrets go only where they were checked; what
  is printed is shown.
- **Transfers and files**: done means complete; bytes and permits add up; ended
  means nothing runs on; nothing waits for ever but for the user; a pane shows
  one file system; a change by others is not overwritten unasked.
- **Tunnels**: what is shown is true; what is off leaves nothing behind; what is
  on comes up again.
- **Conversions**: what is written reads back; what is typed goes where it says;
  what is sent means what was pressed.

## 2. Modules

One module per component, over its own variables; the `MC` modules put the
small instances together.

| Module | Models | Part of |
|---|---|---|
| `SettingsSync` | writer, baselines, folder lock and merge of several instances on one file | `MCShared` |
| `HostsReload` | `SettingsSync` plus SaveTracker, the watcher and reload threads | `MCSessions` |
| `SettingsSyncProofs` | proofs about `SettingsSync`, `HostsReload` and `Keychain` | |
| `ConfigReload` | `SettingsSync` plus OwnWrites, protection and the watcher, and its proofs | runs by itself |
| `Tunnels`, `TunnelsProofs` | tunnels, their runs and forwards | `MCShared` |
| `TerminalSession`, `TerminalView` | the engine thread; the registry entry and the item on top of it | `MCSessions` |
| `BackendContract` | what the engine relies on from any backend | `MCSessions` |
| `LocalPty`, `SshBackend`, `Mosh` | backends that implement the contract | `MCSessions` |
| `Serial`, `Telnet` | the other two backends | `MCSessions` |
| `SshConnect` | hops, host keys, authentication | `MCSessions` |
| `SessionProofs` | proofs about `TerminalView`, the five backends and `SshConnect` | |
| `Vault` | the vault's file, key holder and keyring, with its proofs | `MCStores` |
| `Keychain` | keychain.toml against the vault's entries | `MCStores` |
| `KeychainService` | back-off, the worker's jobs, known_hosts, bundles | `MCStores` |
| `AtomicWrite` | `atomic_write`, step by step, with power failures, and its proofs | `MCStores` |
| `MergeRecords` | `merge_records`, `merge_tables`, `merge_value` with order and fields | `MCStores` |
| `SyncConflicts` | conflict copies, the dialog, moving the folder | `MCStores` |
| `SettingsFile` | config.toml and keybindings.toml as documents | `MCStores` |
| `Layouts` | the split tree | `MCShell` |
| `Workspaces` | the files of workspaces, and its proofs | `MCShell` |
| `HostTree`, `QuickConnect` | groups and hosts; typed targets | `MCShell` |
| `Profiles`, `Themes`, `Snippets` | profiles; colors; snippets and macros | `MCShell` |
| `FileBrowser`, `RemoteEdit`, `TransferList` | SFTP in the panes | `MCPanes` |
| `Desktop`, `DesktopScreen` | remote desktops: connection; picture, size and keys | `MCPanes` |
| `Monitor`, `Recording` | readings; recordings and their player | `MCPanes` |
| `InputCodec`, `TerminalInput` | encodings; mouse, wheel, paste and selection | `MCPanes` |
| `Transfers`, `TransfersProofs` | the transfer queue | runs by itself |

**How the MC modules are built.** `MCShared`, `MCSessions`, `MCStores` and
`MCShell` extend the modules whose properties the theorems name; every other
module is an `INSTANCE` whose variables are mapped to the slots `s1`, `s2`…,
which the parts share, and whose constants get their values there. The same holds
of the proof modules: `SettingsSyncProofs` extends `HostsReload`, `SessionProofs`
extends `TerminalView`, and what else they are about is an instance over variables
of theirs. The variable `part` says
which component a behaviour is of: it is chosen in the initial state and never
changes, so a run is the union of the components' own state spaces and no
component is slowed down by the others'. A property of an MC module is the
conjunction of a component's properties, under `part = …`. No `.cfg` replaces a
definition. Inside a module, a `lane` plays the same role for independent halves
of one component, and a `Budget` or `Scene` of the initial state says how many
events of each kind a behaviour may have, so that one instance has long
sequences of a few kinds instead of short ones of all.

An operator whose comment begins with "Mutant:" is a plausible mistake in the
definition that follows it; nothing uses it except the check that a property
notices the mistake.

### SettingsSync

One variable per store: `disk`, the folder's `lock`, and per instance `mem` (the
singleton's list), `base` (`Baselines`), `chan` (the mpsc channel), `pend` (the
writer's `pending` map) and `wr` (how far `write_merging` is). A document maps
record ids to values. `Edit` is `FileWriter::write`; `Receive`, `Debounced`,
`WriteAsGiven`, `LockAndRead`, `Rename`, `Remember`, `WriteFails` and
`DirSyncFailed` are the steps of the writer's thread, split where another
instance can come in between; `FlushAndReload` is the reload of
`tests/two_instances.rs`. Records have one editor each (`Owner`): two editors of
one record conflict by design ("this instance's version is kept"), which
`MergeRecords` covers. `OmitsEmpty` tells hosts.toml, which leaves an empty list
out, from the files that write one. Two history variables say what the properties
except: `first`, what the file held at the start (without a file there is no
baseline, and saves are written as given), and `stale`, that a write of the
instance replaced the file and yet was reported as failed, so that its baseline
lags behind until it reads the file again. The lock is taken to work: where the
file system has no locks, `FolderLock::acquire` gives none and the write goes on
without it, and nothing here is claimed.

### HostsReload, ConfigReload and Profiles

The first two extend `SettingsSync` with the GUI thread's queue of closures
(`gui`), the watcher's pending event (`dirty`) and a party without the folder's
lock (`External`). `HostsReload` has reload threads in `Slots` (bound), whose
three steps (read, remember the baseline, post) interleave with everything; an
`OnApply` while saves are pending is skipped and wanted later. `ConfigReload` has
`OwnWrites` with its bound `MaxPending` and applies reloads at once unless they
are echoes. Three history variables mark what the code does not handle: `overlap`,
that two reload threads ran at once; `raced`, that a change to config.toml, here
or by somebody else, came before an earlier one had settled; and `restored`, that
somebody else put back the text that was last written from here. `Profiles` has
the same actors over several files (profiles, highlights and themes) that share
one SaveTracker, with removals, and files that are not TOML, newer, or hold keys
only a newer version knows.

### Other stores

`AtomicWrite`: the folder is a record of files, each with the version it holds
and whether its data was synced. `durable` is the set of folder states a crash
may leave: every state since the last fsync of the folder, with unsynced data
possibly torn. Each action is one system call of `atomic_write`, and each can
fail as the code handles it. There may be no file at first. `returned` is a history
variable, the version of the last call that was Ok. Temporary names are those of
one call: what an earlier process left under its own is not in the model.

`MergeRecords`: the loops of `merge_records`, one record per step, from every
pair of lists of the instance. Nested tables and lists inside a record are one
level of fields.

`SyncConflicts`: a file's content maps what it holds to versions; `scans` are
threads that read the folder at one moment and post later, `dialog` keeps what
`ConflictDialog.qml` keeps (an index and choices), `job` is the background task
that writes the resolution and removes the copy, and may fail or be cut between
the two. The second lane moves the settings folder, one file after the other; the
copy of a file may break off.

`SettingsFile`: a TOML value is its type and content; `Read` is what the code's
reader takes of each key, the setters are the singleton's, `Write` what is
written back over unknown keys. The initial files have every value of the
instance for every kind of key.

`Workspaces`: one channel, one pending map and one writer thread, with removals,
renames that read the file first, listings on threads, and the flush at exit.
`Layouts`: a tree maps paths to panes and splits; ratios are in twentieths.

### Vault and keychain

`Vault` splits every operation at the points where it changes one of the two
stores. An operation in progress is `op`; `Restart` may cut it anywhere. `told`
and `expected` are history variables: the holders and the secrets a user may
expect after what the program reported; `late` says that a save failed after its
rename, or a removal failed, so that memory and disk differ. `Keychain` does the
same one level up: `toml` and `vault` are the two stores, `op` the worker's job,
which always ends with `Tidy` (`collect_garbage`), and `expected` what each place
may hold. `KeychainService` has what surrounds them: the back-off with its file
and two clocks (the system's, which may be set, and real time), the worker's
queue against the singleton and the connections that fetch secrets, known_hosts
written by the worker and two connections, each in two steps, bundles imported with failures in between, and the
matching of host patterns against a reference definition.

### Terminals

`TerminalSession` is the engine's loop, one action per stage of it, over the
backend's channel, the handles' commands and the atomics they share; the screen
is a version number, and `damageBase` the version the damage is relative to.
`TerminalView` extends it with the entry's batch, the posted `drain`, the item
and the render thread's snapshot in two steps (check the flag, fill). A hidden
item gets no frames. `BackendContract` is the abstract specification of a
backend. `LocalPty` has the four threads of a local shell, which may ignore a
hangup, leave its input unread or leave a job behind, in any combination; `SshBackend` the task that
connects, runs the channel, waits and retries, and the work beside it;
`Mosh` the inner SSH session, the client on a PTY and the thread that forwards;
`Serial` two threads on one device; `Telnet` the option negotiation with a server
that answers by the same rule. `SshConnect` is the inside of connecting: hops,
host keys against two known_hosts files, questions, methods in order.
`TerminalInput` has the item's handlers, between any two of which the program may
change its modes; `InputCodec` the encodings as operators over codes, checked
against decoders written from the protocol, and two parsers that keep state.

### Files, tunnels and desktops

`Transfers`: a job's `pc` is its place in `Queue::run`; a file's `at` is its
place in `FileJob::copy`, or how it ended. A file is `Size` chunks, its
destination a sequence of marks that tell the source's chunks from others, and a
second destination stands for the new name of a renamed file. `changed` is the
watch channel's unseen value, which ends the wait for a permit. What is asked for
is part of the initial state, so one run has every policy. `TransferList` has the
snapshots of jobs that two threads send after unlocking. `FileBrowser` numbers
file systems by the attempt that opened them, so a late answer is recognisable;
`RemoteEdit` numbers contents and stamps (a change by others may leave the stamp
as it was).

`Tunnels`: `entry` is what the GUI shows, `sup` the supervisor of each run
(`keep_connected`, or `tied`), `fwds` the forward tasks, `server` what the SSH
server listens for on each connection. The kind of a tunnel is part of the
initial state. Three assumptions on timing are made, each stated where it is
used: an attempt to connect begins at least a second after the loss, by when a
pending request on the old connection has failed; a new terminal session takes
longer to connect than a task needs to bind a port or to see that it is to stop;
a wait that begins after a stop ends at once.

`Desktop` has the pane, the connection's shared state, the pipe and the driver,
with questions, certificates, passwords and tabs that move; `DesktopScreen` one
row of cells from the driver's image through the shared frame to the tiles drawn,
the size in both directions, and keys and buttons.

## 3. What the runs check

`PROJECT.json` says for each run what it shows. The seven passing ones:

| Run | Properties | Distinct states |
|---|---|---|
| shared | SettledIsSaved, TunnelsTrue, OthersUntouched, EveryEditSettles (fair), ComesUp (fair) | 360,000 |
| sessions | BackendAgrees, SecretsChecked, ViewSound, HostsTrue, KeepsContract (refinement), ClosedEnds (fair), ViewCatchesUp (fair), HostsFollow (fair) | 500,000 |
| stores | KeyKept, HolderTold, SecretsKept, ReplacesAtomically, MergeRight, ServiceSound, FolderKeepsAll, SettingsKept, SecretsStay, UnreadableKept | 2,330,000 |
| shell | LayoutSound, LastWordWins, HostTreeSound, QuickConnectSound, ProfilesSettle, ThemesSound, SnippetsSound | 550,000 |
| panes | SftpShown, DesktopSound, MonitorSound, RecordingSound, InputSound | 2,460,000 |
| config | OwnWritesExact, SettingsFollow | 1,350,000 |
| transfers | JobsSound, PermitsExact, NeverStuck | 2,670,000 |

**shared.** Two instances, three records, two values, two saves each, with and
without a file at first; a tunnel of each of six kinds, two runs of it, two
connections. `TunnelsTrue`: the row of a tunnel says what its tasks do
(`ShownIsTrue`), and one that is off leaves no listener, forward or route
(`NothingLeft`). `ComesUp`: it carries connections again after a loss, or says
that it failed.

**sessions.** `BackendAgrees`: a local shell's output arrives before its end, an
SSH server and a mosh client have the pane's size once the pane's commands are
handled, nothing a serial device sent comes after the end, telnet's two ends agree
about every option when nothing is on the way, and a pane that says it retries
does. `SecretsChecked`: no connection goes on with a key the user did not accept
or know, a remembered key is not asked about twice, the keychain's password goes
out at most once per authentication, only what a server accepted is remembered.
`ViewSound`: no partial frame is drawn on top of another picture than the one its
damage is relative to, the end is told after the last output and title, sizes
settle. `ClosedEnds`: what is behind a closed pane ends, also if the shell reads
nothing or ignores the hangup, unless it waits for what has no time limit in the
code: a write to a local terminal that nothing reads and the hangup does not close,
an answer of an SSH server whose connection is up, a write to a serial device that
is there and does not take it. `ViewCatchesUp`: what is printed is shown again
and again, so no wake-up is lost between engine, GUI and render thread.
`KeepsContract` is the refinement: `LocalPty`, `SshBackend` and `Mosh`, through
the mapping in `MCSessions` (`INSTANCE BackendContract WITH …`), take only steps
`BackendContract` allows: output and exit in order, one exit, nothing after it,
nothing after the channel is gone. One step is excepted: a PTY reader that waited
for room in the channel for longer than the teardown's time limit (`Overran`) sends
what it had read after Exited.
The same run has the list of hosts, with two saves, one change by somebody else
and two reload threads. `HostsTrue`: the tracker knows exactly which saves are in flight although
callbacks of replaced saves are dropped, a skipped reload has a save that will
start it, and what is shown is what the file holds once all is quiet;
`HostsFollow`: the hosts shown are the disk's in the end.

**stores.** Vault: two passwords, two contents, three vaults. Replacement: four
saves with three backups and one crash. Merge: all lists of up to three records,
and all of up to two with every value of two fields; changes survive, one-sided
ones are kept, conflicts told, the order kept (a record of the other side stays
behind the one it followed there). `ServiceSound`: waits after wrong
passwords hold over restarts and clock changes, jobs are answered, accepted keys
stay in known_hosts unless a write that had read the file before them goes over
them, the line removed is the one asked for, an import repeated or cut short adds
nothing twice, host patterns match as defined. `FolderKeepsAll`: a conflict copy is
removed only after everything chosen from it is in its file; moving the folder
overwrites nothing, and the pointer is written only when every file is there, whole
unless an earlier copy that broke off had left a part of it. `SettingsKept`: what was saved reads
back, and keys of newer versions or wrong types stay as they are. `SecretsStay`:
every place of the keychain has the secret a user may expect, however the two
files' writes fail.

**shell.** `LayoutSound`: after any sequence of splits, drags, closings and
restores the tree is valid, panes tile the area without overlap, and saving and
restoring gives the same tree. `LastWordWins`: each workspace file ends as it was
last asked to be. `HostTreeSound`: groups are a forest from any file, the rows
and counts are those of the library, both ways of connecting take the same route;
a deleted host leaves no recent entry and nothing to find it by, and a secret only
where the keychain was still to save it, was asked to save it later, or could not
forget it. `QuickConnectSound`: no typed or saved word
reaches a program as an option. `ProfilesSettle`, `SnippetsSound`: memory and
files agree once saves and reloads are done; waits of a snippet see all the
output there was since the step before; a macro replays what was recorded.
`ThemesSound`: adjusted colors keep their contrast, themes travel between
formats.

**panes.** `SftpShown`: rows and folder of a browser are of one request, whatever
order answers come in, and rows and space are of the open file system from its
first listing on; "saved" of an edited remote file is true, and a change by others
that an upload's check can see is not overwritten; questions shown are those that
jobs wait on, one each, except that a cancelled job keeps the one it was at.
`DesktopSound`: RDP credentials go out after the certificate is accepted, only
passwords that worked are remembered, the picture is the server's once all is
drawn, nothing stays pressed without the focus. `MonitorSound`: the readings
reported are those of the whole output, wherever it was cut, inside a line too; the
item shows the oldest question that was not answered, the connection as it is and
the last reading, which is of an earlier connection only when that one's task was
late. `RecordingSound`: a recording reads back, and a player's screen is the output
due at its position. `InputSound`: key, mouse and paste encodings decode to what was
pressed; of a button the program was told is down the release is reported, but for
those `ButtonsPair` names (section 4); a selection is what the menus say.

**config.** One setting of two values, no file at first, three saves over a bound
of two remembered writes, and two changes by somebody else, who may also break the
file or remove it. `OwnWritesExact`: OwnWrites knows exactly the saves on their
way, up to its bound. `SettingsFollow`: once all is quiet, the settings in use are
those of the file. **transfers.** One job of two files of two chunks, six
policies, two storages, two controls (a retry counts as one), one failure. `JobsSound`: a job
that is done copied every file whole and counted each byte once; one that is over
has no task left.

`CHECK_DEADLOCK FALSE` is set in all of them: edits, operations and failures are
bounded, and with nothing left to do the program waits for its user, which is no
error. `NeverStuck`, `ClosedEnds`, `ComesUp` and `EveryEditSettles` say where
waiting would be one.

**Bounds.** They are chosen so that every action happens with every other in
between: two saves are needed for a pending version to be replaced, three for
OwnWrites to forget one; four saves with three backups drop the oldest; three
vaults let a reset and a new vault come after one that was cut short; two chunks
make a file that is there in part; two files make two questions, and two controls
a pause during a change of the limit; two runs let the tasks of a stopped one
report while the next is current, and two connections a loss and a reconnect; two
chunks of output make a frame during a synchronized update and one after it;
queues of three let a writer wait for a full channel. Of output and what the user
does with a pane (or sends through it) at most three happen together, two behind a
local shell; two reload threads are alike, so that the first one starts first, and
so are the contents of workspaces (symmetry). The scenes and budgets of
an MC module name the rest, each with the events it allows. Between them the runs
evaluate every action; only two branches inside an action are never taken, and no
run can reach them: a scroll tick of a detached item, and a detach by an item
that is not the attached one.

**Fairness.** Threads, async tasks, posted closures and the render frames of a
visible item, which the operating system, the async runtime and Qt keep running,
get weak fairness. Strong fairness is used for a `select!` branch that stays ready
(tokio picks at random). Users get none, except in `ComesUp`, which is about a
user who answers the connection's questions and a terminal that reconnects its
session. Failures, external edits, crashes and lost connections never get any, and
neither do the other ends: nothing obliges an SSH server to open a channel, make
room in its window or run the installation of a key, or a serial device that is
there to take what is written to it. A write to a device that is gone fails, and so
do requests over a connection that is lost. mosh-client is taken to read its input
and to heed the hangup.
`NeverStuck` needs no fairness: it says that some step of the queue's own is
possible whenever a job is not over and does not wait for the user.

**Algorithms against a reference.** `merge_records`, host patterns, key and mouse
encodings, the UTF-8 repair of recordings, monitor output, TOML readers, colors
and the geometry of layouts are operators that follow the code, compared over all
inputs of the instance with a definition that says what the result means (a
decoder, a set of characters, a tiling) and not how it is computed.

## 4. Where the code and its documentation part

Five `violation` runs each check one sentence of the repository's own
documentation or comments and find a behaviour of the code that breaks it
(`findings` in `PROJECT.json` quotes them):

- `last_host_deleted` (`OthersUntouched`): the list an instance empties is left
  out of hosts.toml, the merge takes it for a conflict and drops the host the
  other instance added. In `shared` a third host keeps the list from being empty.
- `undo_ignored` (`UndoApplied`): an edit of config.toml by somebody else that is
  then undone, so that the file has again what was last written from here, is
  taken for an echo (`is_echo` compares with the last text written,
  `bridge/settings.rs:967`), and the edit stays in use. ADR 0007 promises that it
  is applied. `SettingsFollow` excepts it (`restored`).
- `paused_rename_overwrites` (`ChoiceRespected`): a file copied under a new name
  that is paused goes on at its own name, over the file the user kept.
  `DoneIsComplete` excepts such files (`Mislaid`).
- `pause_counts_as_playing` (`PauseIsNotPlayed`): a recording jumps ahead by the
  length of a pause when it plays on.
- `wrong_conflict_resolved` (`ResolvesWhatWasShown`): a scan that ends while the
  conflict dialog is open makes its choices resolve another file.

**Known deviations.** The models show the following too. The passing runs state
their properties with these cases excepted, by a history variable, a constant or
a condition of the property.

- *Settings files.* When the fsync of the folder fails after the rename,
  `write_merging` does not remember the baseline. The next save merges against a
  stale one, and undoing the change that was written is lost: it looks like
  somebody else's (`stale`). Two instances that start before the file exists write
  as given, without the lock, one over the other (`first`). The same failure of
  `atomic_write` is reported after the backups were rotated
  (`FailureKeepsBackups` is about saves that did not replace the file). A copy of
  the old file that fails halfway (`copy_aside`, `fsutil.rs:152`) leaves what it
  wrote behind (`NoLeftovers` is about finished copies).
- *Hosts.* Two reload threads may post in the other order, and the older text
  stays (`overlap`). A reload thread may move the merge's baseline while a save is
  between fetching its own and remembering the new one; the baseline then differs
  from the file in a record nobody is told about, and the merge of a later save
  takes an edit of that record back on disk while the list shows it (`overlap`
  too: without this exception `QuietAgrees` fails with three saves, and so it was
  found when it was to be proved). A reload thread moves the baseline even when its
  result is skipped because a save is pending; that save's merge then takes a
  record somebody else added for one removed here. A reload read before a save
  and applied after it takes the change from the list until the next reload. A
  save queued before hosts.toml became unreadable replaces it. A group's port 0
  is inherited by its hosts.
- *Settings.* An edit by hand that a save in flight replaces stays in use, as the
  reload of the saved file is an echo (`raced`). `raced` excepts everything that is
  changed while a write, a read or a report is under way, so also a read of an older
  text of our own that is reported late.
- *Profiles and workspaces.* A reload can undo a change of a profile that is not
  saved yet. `Rename` of a workspace reads the file while a save of it waits, and
  brings its old contents back. `write_merging` is abstracted there: what other
  instances change in the same workspace file is left out. A write that fails after
  its rename is told as failed although the file is replaced.
- *Deleted hosts.* The secret of a deleted host stays in the keychain when it was
  not saved yet at the deletion (`delete_hosts` asks only for the hosts the last
  snapshot lists), when a connection that outlives the host saves it afterwards,
  and when the job fails or the keychain is not running, which is only logged
  (`kept` in `HostTree`).
- *Settings folder.* `copy_settings` leaves a file alone that is there, also the
  part of one that an earlier copy left when it broke off; a retry then points at
  it as if it were whole. What is saved between the reading and the writing of
  `resolve_conflict`'s job is written over (`NothingLost` compares with what the job
  read).
- *Quick connect.* The canonical text of a target with unusual names does not
  always parse back to it; `GoesWhereSaid` is about plain ones.
- *Vault.* `remove_password` keeps the old header when its write fails after the
  rename, and `reset` takes the key out of the keyring before a removal that may
  fail; in both cases a later step can leave a file no key opens (`late`).
  `remembered` may be FALSE while the keyring has the key.
- *Keychain and its service.* An entry with one value of the wrong type is
  skipped, and its secret collected as garbage (`expected` allows it for that
  place). The status shown may lag behind the vault's. A clock that is set back
  extends the wait after wrong passwords (docs/threat-model.md:60 says
  otherwise). known_hosts is read, changed and written without a lock, by the
  worker and by each connection: of two additions that overlap, or of an addition
  and a removal, one is lost (`raced`), and a removal whose line moved after its
  check may remove another (`moved`).
- *Local shells.* A shell that neither reads its input nor heeds the hangup, or a
  job that keeps its terminal open and does not read, leaves the control thread in
  `write_all` for ever, as a closed pane cannot interrupt it (`WriteStuck`). What a
  reader had read when the teardown's three seconds passed comes after Exited
  (`Overran`).
- *Serial ports.* The flush has no time limit: a device that holds the line keeps
  the writer, and so the port, of a closed pane (`ClosedIsOver` excepts it).
- *SSH, telnet, monitor.* A closed pane's SSH task waits without a limit, as long
  as the connection lives, for the channel to open, for room in the server's window
  and for `copy_id::install`, which is joined before the connection is closed
  (`ServerAwaited`). Starting waypipe is part of opening the channel. `failures` is
  not reset when a reconnect succeeds (`backend.rs:308`), so the attempts are
  counted over the whole session. With a
  telnet server that repeats its requests before it reads the answers the
  negotiation can go on for ever; `Agreed` speaks of the moments when nothing is
  on the way. A monitor's reading, and the host info, may be of the connection
  before, when that one's task reports once more after its end. A question of an
  attempt that failed stays shown, before those of the next attempt, and its answer
  goes nowhere.
- *Transfers.* A cancel answers the question that waits, but the next file's task
  asks its own; the old question stays shown beside it, and its answer goes to the
  other file's. A pause and a resume take a cancel back that the job has not seen
  yet. A file written from its start, paused and then cancelled stays
  half-written. A retry resumes or copies over files the user had skipped. A
  move removes the sources of skipped files too (`DoneIsComplete` excepts skipped
  files). A snapshot that arrives late shows a finished or cleared job as
  running.
- *SFTP panes.* After a lost connection a pane may say it is ready without a file
  system, and a listing of the file system before, when it is late, is shown (and
  makes the pane ready) until the first of the new one. An upload through sudo
  overwrites a change nobody here saw (`NoBlindOverwrite` excepts it). So does any
  upload with a change made between its check and its last look at the server, which
  it also takes for its own; and with one that leaves the size and the second of the
  modification as they were.
- *Tunnels.* A connection lost while a remote forward is registered fails the
  tunnel for good, and a changed tunnel may find its port still taken by its old
  run (`ComesUp` accepts a tunnel that says it failed). A tied remote forward
  told to stop may register once more on the next session and report it
  (`Overtaken`). A question that arrives after its run failed is shown although
  nobody waits for the answer. Two remote forwards on the same port of different
  addresses share a route.
- *Remote desktops.* A pane made again when its tab moves may show the wrong
  state or encryption, or miss a certificate question (`past` in `Desktop`). A
  resize asked for while another is under way may be lost, and a VNC key may stay
  down as long as the pane keeps the focus.
- *Terminal input.* Without bracketed paste, some texts that look like one line
  still run. Some releases of a button the program was told is down are never
  reported: one during a link click, which takes every release for itself; one
  beyond the limit of the legacy encoding; one after the program changed to a mouse
  mode without releases; one after the item let go of its session (`lost` in
  `TerminalInput`, and `Reports`). Stopping a paced paste leaves a bracketed paste open, and the flag
  that offers to stop it may be off while it goes on. The button last reported is
  remembered after all buttons are up. A macro may record a typed secret
  (ADR 0030 admits it).

## 5. What is proved

`SettingsSyncProofs`, for any number of instances, records, values and saves:

- `TypeCorrect`: `Spec => []TypeOK`.
- `SettledSaved`: `Spec => []SettledIsSaved`, and `OthersKept`:
  `Spec => OthersUntouched`, both assuming `NeverEmpty`: an empty list is written,
  or a record that nobody removes keeps it from being empty. Section 4
  (`last_host_deleted`) says why it is needed. Writes may fail before and after
  the rename.

The inductive invariant `IInv` says, of a file that was there at the start
(`Honest`), that the lock is held exactly from the read to the end of the write
(`LockInv`); that a write works with the current baseline (`ReadableInv`); that an
instance's copy of a foreign record is its baseline's everywhere on its way
(`ForeignInv`), so the merge takes the disk's; that the disk has of an own record
what was last brought there, unless the instance is `stale` (`OwnInv`); that what
is about to be renamed is the disk with the own records replaced (`OutInv`); and
that the newest version on its way is the one in memory (`LatestInv`).
`SettledIsSaved` alone is not inductive: it says nothing while a save is on its
way.

`SettingsSyncProofs` also has the reloads of `HostsReload`, for any number of
instances, records, reload threads, saves and changes by others:
`HostsFollowTheirFile`, `HSpec => []HostsTrue`. Its inductive invariant `HInv`
numbers the saves on their way (`TrackerOK`: the channel, the writer and the
callbacks that wait hold them in order, so that the tracker's comparison of two
numbers is right), says that the newest of them is the list in memory
(`LatestOK`), and follows what was read: until the file is to be read again, the
baseline is the file (`BaseOK`) and the newest text not yet applied is the file,
or the list is (`ShownOK`). `TrackerExact` and `WantedHasATrigger` hold without
exception; `QuietAgrees` with `overlap` excepted (section 4).

`TransfersProofs`, for any number of jobs, files, chunks and permits and any
order of pauses, cancels, answers, retries, failures and changes of the limit:

- `PermitsBalance`: `Spec => []PermitsExact`. No permit is lost or made up.
- `JobsAreSound`: `Spec => []JobsSound`, assuming `TailsTell`: a file found at a
  destination whose last chunk is the source's is a first part of the source.
  `tails_match` compares only the last bytes, so the code assumes it too; without
  it a resumed copy is a mixture, and no theorem holds.
- `OverIsLeftAlone`, an action property: once a job is over, no step changes what
  is at the destinations of its files.

`IInv` says where a file can be when its job's loop is at a given place
(`Placed`), that the policy lock is held by the one file that asks or was
answered (`JobOK`, `Asked`), that a file decides once (`DecidedOnce`), where
offsets are kept and what they promise of the destination (`OffsetsFit`,
`CopiesPart`), and that the counter of a job is the cardinality of a set of
chunks (`BytesOK`), which needs no sum over the files.

`TunnelsProofs`, for any number of tunnels of any kind through a host, of runs,
forwards and connections: `TunnelsSettleTrue`, `TunnelsSpec => []TunnelsTrue`.
`ShownIsTrue` and `NothingLeft` speak only of settled tasks. The inductive
invariant `TunnelsInv` follows the tasks in between: a row fits its runs
(`RowsFit`), a supervisor that was replaced was told to stop and what the row says
of the current one's connection is so (`KeepersFit`), a forward listens, waits and
ends only as its supervisor and row allow (`ForwardsFit`, in parts for every
forward, for those of independent and for those of tied tunnels), an independent
run has one forward and of a tied one's at most one is about to listen
(`AllAlone`), every supervisor has the forward it counts on (`HasForward`) and
every open connection a user (`OpenUsed`). A step changes one run of one tunnel;
`RunStep` says once what such a step must keep, and each action's proof is about
that run only. A restart halts one run and starts another: it is proved as two
such steps, which is why the invariant's parts are operators of values and not of
variables.

`ConfigReload`, in its own module:

- `OwnWritesAreExact`: `CSpec => []OwnWritesExact`, for any number of apps,
  settings, saves and changes by others and any bound of OwnWrites. `WritesInv`
  numbers the saves on their way (they are `InOrder` through channel, pending job,
  write and callbacks), and says that what OwnWrites remembers are those numbers
  in turn, all of them up to the bound (`AllRemembered`), the newest always.
- `SettingsAreFollowed`: `CSpec => []SettingsFollow`, assuming `OneApp`: with two
  apps on one file each merges the other's change, and the text an app calls its
  own last one is not what it wrote. A second start on one machine is handed to
  the app that runs (ADR 0021), and another machine on a synced folder is one of
  the changes by others.
  `FollowInv` says what is in use while news of the file is coming (`ToldInUse`),
  that what will be taken for an echo is in use already (`EchoInUse`), what the
  app has been told of the file (`FileKnown`), and that the settings are the
  newest document on its way (`NewestInUse`). It holds until changes race or the
  last text is put back.

`SettingsSyncProofs` also has the `Keychain`, for any places, secrets, references
and edits by hand: `SecretsAreThere`, `Spec => []SecretsStay`, and the action
property `UnreadIsKept`. The only assumption is that the two bounds are natural
numbers. The invariant `KeysInv` adds to the property what keeps two files
together that are never written at once: no two places share a reference, the file
and the memory differ only where the user took a reference out or the program
could not read one (`RefsFit`); what a job is about to remove from the vault
neither of them names, and what it has put there neither names yet (`JobFits`);
and a commit of what is in memory would also leave every place a secret that the
user may expect (`Expected`).

`Workspaces`, in its own module, for any names, contents and number of requests:
`LastWordIsKept`, `WSpec => []LastWordWins`. The newest request about a file is in
the channel; without one there it is in the pending map; else it is being written;
else it is on disk, or was told as failed (`Kept`). The exit's flush comes last
(`FlushedLast`).

`SessionProofs` has the terminal and what is behind it. The terminal, for any
sizes, titles and number of steps of program, user, engine and window:

- `ViewIsSound`: `VSpec => []ViewSound`. `ViewInv` follows each of the three
  claims through engine, entry, posted closures and item: what a frame's damage is
  relative to (`FrameInv`), sizes on their way in both directions (`TermSizes`),
  the order of output, title and end (`EndInv`, `NoticeInv`, `TitleInv`).

The backends, for any bound of their channels and any number of commands, losses
and attempts:

- `PtyKeepsContract`, `SshKeepsContract`, `MoshKeepsContract`: the specification
  of each implements `BackendContract` under the refinement mapping of its
  `Contract` instance. The initial states map to the contract's, and each step to
  one of its steps or to none. The invariants needed say who may still send: for
  the PTY that the reader is over, or overran the time limit, before the control
  thread sends Exited (`SenderInv`; what such a reader sends is excepted, as in the
  run), for SSH that Exited is the last event (`ExitedIsLast`), for mosh
  that the task sends only while the inner PTY does not (`OneSource`).
- `PtyOutputFirst` (`[]AllOutputFirst`) from `WakeInv`: the reader ends only when
  it was cut short or the shell is dead and its output read.
- `SshSizeFollows` and `MoshClientSize` from `SizeInv` and `ClientInv`: the size
  handled last and the last resize still queued give the pane's size.
- `SshPaneTruth` (`[]PaneTruth`) from `GoneInv`.
- `SerialDataFirst` (`[]DeviceBeforeExit`) from `SerialInv`: only the reader sends
  what the device sent, and it ends with Exited; the writer may still send notes.
- `TelnetAgrees` (`[]Agreed`), whether or not the server waits for answers. With
  one that waits, client and server agree about an option of a side, or exactly one
  message about it is on its way: the server's question, or the client's answer
  (`OptionFits`). One that does not wait says of an option last what it has itself
  (`SaysLast`), and when all it said was heard, the two agree or the client's
  refusal is on its way (`FreeFits`). The two may still exchange messages for ever
  (section 4): nothing says that it becomes quiet.

The login over SSH, for any hops, keys, known_hosts files, methods and answers:
`LoginIsChecked`, which has both halves of `SecretsChecked`. `LoginInv`: what was
remembered or accepted once was accepted, past the check the key at hand is not
revoked and known or accepted, and the saved password was counted.

`AtomicWrite`, in its own module, for any number of backups, saves, failures and
crashes: `FileOldOrNew` (the file is whole, is there once it was, and is no older
than the last save that returned Ok), `BackupsStayOrdered`,
`FailureLeavesNothing` (`NoLeftovers` and `FailureKeepsBackups`) and
`BackupsAreComplete`. `AtomicInv` asks the order of every folder state a crash
may leave (`FoldersFit`), and says per step of the call which version is under
which name; `CompleteInv` adds where a rotation has got to.

`Vault`, in its own module, for any number of vaults, passwords and secrets,
without assumptions on what fails: `KeyIsKept`, `HolderIsTold` and
`SecretsAreKept` from `IInv`, and the action property `UnreadableIsKept`. `IInv`
relates memory to disk (`MemoryIsDisk`), the operation in progress to both
(`StateFits`), the keyring to the file that is there or about to be (`KeyHeld`),
and the user's expectations to the disk (`ExpectationMet`). The first three say
nothing once a save or a removal has failed late (`late`, which is never reset).

**What the proofs changed.** `QuietAgrees` of `HostsReload` was not provable for
more saves than the run has, and a run with three showed the deviation that
section 4 describes; the property excepts it now. The proof of `NoLeftovers` asked
what names a temporary file has, and whether a copy that failed is under one of
them; `AtomicWrite` and the known deviations say so now, and its initial states
include a folder without the file. In `Tunnels` the set of used connections and
the sequence of forwards are written so that they can be reasoned about; the
reachable states are the same. `SettingsFollow` of `ConfigReload` was not
inductive for a reason: an edit that is undone is taken for an echo, which became
the run `undo_ignored` and the history variable `restored`. `SettledUpTo` there
follows the loop of `OwnWrites::settled` instead of filtering the list; in
`TerminalSession` the output and the end of a batch are defined by positions; ids
in `Workspaces` are unique as a set. All say the same, and can be reasoned about
without an induction. The assumptions on constants of `TerminalView`,
`ConfigReload` and `Workspaces` are stated now (bounds are natural numbers; what
stands for no title, no size or no file is not one). Each inductive invariant was checked by TLC on an instance of
its run before it was proved.

**Only model-checked.**

- Everything under fairness (`EveryEditSettles`, `ComesUp`, `HostsFollow`,
  `ClosedEnds`, `ViewCatchesUp`) and `NeverStuck`, which is about ENABLED.
- Properties of algorithms over data of any length, which would take one too:
  `MergeRight`, `LayoutSound`, `HostTreeSound`, `QuickConnectSound`,
  `ThemesSound`, `RecordingSound`, `MonitorSound`, the encodings in `InputSound`.
- The other modules, which no theorem is about yet: `ServiceSound`,
  `FolderKeepsAll`, `SettingsKept`, `ProfilesSettle`, `SnippetsSound`,
  `SftpShown`, `DesktopSound`.

## 6. Plan

Proofs to come, in this order: the jobs of `KeychainService` (every job is
answered, accepted keys stay), `FolderKeepsAll` of `SyncConflicts`, `RemoteEdit`'s
part of `SftpShown`. Models to come: the routes of remote forwards that share a
connection, the S3 multipart writer, the single instance and its socket.

## 7. Not modelled

`PROJECT.json` gives the reason for each component; in short:

- cryptography and the byte format of vault.bin, key formats and agents: what
  they compute is not state that interleaves;
- the SOCKS proxy, SFTP and S3 file systems, containers: one request and its
  answer, with the server's behaviour outside the repository; `Transfers` and
  `FileBrowser` model them from how they are used;
- importers, updates, crash reports, logging, command line: read once, write
  once;
- terminal search, links and text processing, pixels, RDP and VNC wire formats:
  large data and little control;
- the QML interface beyond what the singletons' handlers rely on, the C++ glue,
  build tools and experiments.
