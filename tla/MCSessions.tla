---------------------------- MODULE MCSessions ----------------------------
(***************************************************************************)
(* Small instances of what runs in threads and tasks of its own and        *)
(* reports to the GUI thread: the terminal with its engine and its view    *)
(* and the hosts that follow their file (the variables of TerminalView and *)
(* HostsReload themselves), and what is behind a pane: a local shell, the  *)
(* SSH terminal and its connection, mosh, serial and telnet. `part` says   *)
(* which one a behaviour runs; the variables of what is behind a pane are  *)
(* the slots s1, s2...                                                     *)
(***************************************************************************)
EXTENDS TerminalView, HostsReload, TLC

CONSTANTS Parts

VARIABLES part,
    s1, s2, s3, s4, s5, s6, s7, s8, s9, s10, s11, s12, s13, s14, s15, s16, s17, s18,
    s19, s20, s21, s22

\* HostsReload: a host the instance edits and one that somebody else edits.
MineAndTheirs == ("mine" :> "here") @@ ("theirs" :> "somebody")
BothThere == {("mine" :> 1) @@ ("theirs" :> 1)}

\* TerminalView: the scenes separate what has to do with redrawing from what has
\* to do with sizes, pastes and the end.  Outside a synchronized update,
\* "syncOff" is plain text.
MCScenes ==
    {[ops |-> {"attach", "detach", "visible"},
      kinds |-> {"syncOn", "syncOff"}, ends |-> FALSE],
     [ops |-> {"focus", "visible", "lost"}, kinds |-> {"syncOff"}, ends |-> FALSE],
     [ops |-> {"change", "resize", "close"}, kinds |-> {"syncOn"}, ends |-> FALSE],
     [ops |-> {"close"}, kinds |-> {"t1", "t2"}, ends |-> TRUE],
     [ops |-> {"paste"}, kinds |-> {"syncOff"}, ends |-> FALSE]}

\* SshConnect: two host keys of one type and two of another, one revoked.  A
\* scene of host keys over two hops, and a scene of authentication.
OldKey == [type |-> "ed", id |-> 1]
NewKey == [type |-> "ed", id |-> 2]
RsaKey == [type |-> "rsa", id |-> 3]
BadKey == [type |-> "rsa", id |-> 4]
Line(h, k) == [host |-> h, key |-> k]

P == INSTANCE LocalPty WITH
    events <- s1, receiver <- s2, shell <- s3, kind <- s4, printed <- s5, tty <- s6,
    handle <- s7, stopping <- s8, process <- s9, woken <- s10, inbox <- s11,
    control <- s12, exit <- s13, readerDone <- s14, deadline <- s15, closing <- s16,
    reader <- s17, waiter <- s18, exitedSent <- s19, writes <- s20,
    QueueMax <- 1, MaxOut <- 2, MaxWrites <- 1
S == INSTANCE SshBackend WITH
    events <- s1, receiver <- s2, automatic <- s3, pc <- s4, commands <- s5, size <- s6,
    failures <- s7, retry <- s8, result <- s9, conn <- s10, net <- s11, exited <- s12,
    startup <- s13, install <- s14, beside <- s15, serverSize <- s16, status <- s17,
    live <- s18, exitedSent <- s19, asked <- s20, netSent <- s21, opsDone <- s22,
    Sizes <- {1, 2}, FirstSize <- 1, QueueMax <- 1, MaxAttempts <- 1, MaxNet <- 2,
    MaxOps <- 2, MaxFailures <- 1
M == INSTANCE Mosh WITH
    events <- s1, receiver <- s2, pc <- s3, commands <- s4, size <- s5, inner <- s6,
    innerPhase <- s7, innerHeard <- s8, ptySize <- s9, forward <- s10, stopped <- s11,
    status <- s12, exitedSent <- s13, asked <- s14, opsDone <- s15,
    QueueMax <- 1, Sizes <- {1, 2}, FirstSize <- 1, MaxOps <- 2
Y == INSTANCE Serial WITH
    events <- s1, receiver <- s2, pc <- s3, writer <- s4, device <- s5, got <- s6,
    commands <- s7, stop <- s8, breaks <- s9, hex <- s10, showing <- s11, line <- s12,
    echoes <- s13, exitedSent <- s14, reads <- s15, opsDone <- s16,
    QueueMax <- 1, MaxReads <- 2, MaxOps <- 2
T == INSTANCE Telnet WITH
    pc <- s1, commands <- s2, size <- s3, ours <- s4, theirs <- s5, toServer <- s6,
    toClient <- s7, sOwn <- s8, sPeer <- s9, sWaits <- s10, sSize <- s11, asked <- s12,
    requests <- s13, resizes <- s14,
    Patient <- TRUE, Requests <- 2, Resizes <- 2
K == INSTANCE SshConnect WITH
    own <- s1, user <- s2, once <- s3, right <- s4, savedPw <- s5, step <- s6,
    hop <- s7, key <- s8, remaining <- s9, done <- s10, pwUsed <- s11, tries <- s12,
    nth <- s13, sending <- s14, remembered <- s15, accepted <- s16, saved <- s17,
    savedSent <- s18, connects <- s19,
    Hops <- {1, 2}, Keys <- {OldKey, NewKey, RsaKey, BadKey}, Revoked <- {BadKey},
    UserLines <- {{Line(1, OldKey)}, {Line(2, NewKey), Line(1, RsaKey)}},
    Typed <- {"a"}, Offers <- {}, KeyFiles <- <<>>, MaxTries <- 1, MaxConnects <- 2
A == INSTANCE SshConnect WITH
    own <- s1, user <- s2, once <- s3, right <- s4, savedPw <- s5, step <- s6,
    hop <- s7, key <- s8, remaining <- s9, done <- s10, pwUsed <- s11, tries <- s12,
    nth <- s13, sending <- s14, remembered <- s15, accepted <- s16, saved <- s17,
    savedSent <- s18, connects <- s19,
    Hops <- {1}, Keys <- {OldKey}, Revoked <- {}, UserLines <- {{Line(1, OldKey)}},
    Typed <- {"a", "b"}, KeyFiles <- <<FALSE, TRUE>>, MaxTries <- 2, MaxConnects <- 1,
    Offers <- {{}, {"password"}, {"keyboard", "password"},
               {"publickey", "keyboard", "password"}}

\* The slots that a part leaves unused.
Blank20 == s21 = "-" /\ s22 = "-"
Blank19 == s20 = "-" /\ Blank20
Blank16 == s17 = "-" /\ s18 = "-" /\ s19 = "-" /\ Blank19
Blank15 == s16 = "-" /\ Blank16
Blank14 == s15 = "-" /\ Blank15
Blank0 == s1 = "-" /\ s2 = "-" /\ s3 = "-" /\ s4 = "-" /\ s5 = "-" /\ s6 = "-"
    /\ s7 = "-" /\ s8 = "-" /\ s9 = "-" /\ s10 = "-" /\ s11 = "-" /\ s12 = "-"
    /\ s13 = "-" /\ s14 = "-" /\ Blank14
Keep20 == UNCHANGED <<s21, s22>>
Keep19 == UNCHANGED <<s20, s21, s22>>
Keep16 == UNCHANGED <<s17, s18, s19, s20, s21, s22>>
Keep15 == UNCHANGED <<s16, s17, s18, s19, s20, s21, s22>>
Keep14 == UNCHANGED <<s15, s16, s17, s18, s19, s20, s21, s22>>
Keep0 == UNCHANGED <<s1, s2, s3, s4, s5, s6, s7, s8, s9, s10, s11, s12, s13, s14, s15,
    s16, s17, s18, s19, s20, s21, s22>>

\* A step of one part; `rest` are the variables of the others.
In(p, act, rest) == part = p /\ act /\ rest /\ UNCHANGED part

\* The variables of the modules extended, in the behaviours of the other parts.
ViewAside == VInit /\ scene = CHOOSE s \in Scenes : TRUE
HostsAside == HInit
Still == UNCHANGED <<terminalVars, allVars>>

MCInit ==
    /\ part \in Parts
    /\ \/ part = "view" /\ VInit /\ Blank0 /\ HostsAside
       \/ part = "hosts" /\ HInit /\ Blank0 /\ ViewAside
       \/ part = "pty" /\ P!LInit /\ Blank20 /\ ViewAside /\ HostsAside
       \/ part = "ssh" /\ S!SInit /\ ViewAside /\ HostsAside
       \/ part = "mosh" /\ M!OInit /\ Blank15 /\ ViewAside /\ HostsAside
       \/ part = "serial" /\ Y!YInit /\ Blank16 /\ ViewAside /\ HostsAside
       \/ part = "telnet" /\ T!TInit /\ Blank14 /\ ViewAside /\ HostsAside
       \/ part = "keys" /\ K!KInit /\ Blank19 /\ ViewAside /\ HostsAside
       \/ part = "auth" /\ A!KInit /\ Blank19 /\ ViewAside /\ HostsAside

\* Bounds on what the two sides do together: output and the user's steps, chunks
\* printed and writes, messages of the server and the pane's commands.
ViewBound == printed + ops <= 3
PtyBound == s5 + s20 <= 2
SshBound == s21 + s22 <= 3

\* Of two reload threads at rest, which are alike, the first one starts.
Starts(t) == thr["here"][t].st = "none" /\ thr'["here"][t].st # "none"
LeastThread == Starts(2) => thr["here"][1].st # "none"

MCNext ==
    \/ In("view", VNext /\ ViewBound', Keep0 /\ UNCHANGED allVars)
    \/ In("hosts", HNext /\ LeastThread, Keep0 /\ UNCHANGED terminalVars)
    \/ In("pty", P!LNext /\ PtyBound', Keep20 /\ Still)
    \/ In("ssh", S!SNext /\ SshBound', Still)
    \/ In("mosh", M!ONext, Keep15 /\ Still)
    \/ In("serial", Y!YNext, Keep16 /\ Still)
    \/ In("telnet", T!TNext, Keep14 /\ Still)
    \/ In("keys", K!KNext, Keep19 /\ Still)
    \/ In("auth", A!KNext, Keep19 /\ Still)

Vars == <<part, s1, s2, s3, s4, s5, s6, s7, s8, s9, s10, s11, s12, s13, s14, s15, s16,
          s17, s18, s19, s20, s21, s22, terminalVars, allVars>>

-----------------------------------------------------------------------------
\* What is scheduled fairly, as each module states it for itself: threads and
\* tasks run, the engine takes events, posted drains and closures are delivered,
\* an item asking for a frame gets one.  Only one part's are ever enabled.
Role1 ==
    \/ In("view", EngineSteps /\ UNCHANGED viewVars, Keep0 /\ UNCHANGED allVars)
    \/ In("pty", P!ControlSteps, Keep20 /\ Still)
    \/ In("ssh", S!TaskSteps, Still)
    \/ In("mosh", M!TaskSteps, Keep15 /\ Still)
    \/ In("serial", Y!ReaderSteps, Keep16 /\ Still)
    \/ In("telnet", T!Receive, Keep14 /\ Still)
    \/ In("hosts", WriterWorks("here"), Keep0 /\ UNCHANGED terminalVars)
Role2 ==
    \/ In("view", HoldPasses /\ TimePasses /\ UNCHANGED viewVars, Keep0 /\ UNCHANGED allVars)
    \/ In("pty", P!ReaderStops \/ P!Read \/ P!SendOutput, Keep20 /\ Still)
    \/ In("ssh", S!BesideDue, Still)
    \/ In("mosh", M!ForwardTakes \/ M!ForwardSends, Keep15 /\ Still)
    \/ In("serial", Y!WriterSteps, Keep16 /\ Still)
    \/ In("telnet", T!Command \/ T!ConnectingCommand, Keep14 /\ Still)
    \/ In("hosts", WriterFinishes("here"), Keep0 /\ UNCHANGED terminalVars)
Role3 ==
    \/ In("view", IntervalPasses /\ TimePasses /\ UNCHANGED viewVars, Keep0 /\ UNCHANGED allVars)
    \/ In("pty", P!Hears, Keep20 /\ Still)
    \/ In("ssh", S!Hears, Still)
    \/ In("mosh", M!Hears, Keep15 /\ Still)
    \/ In("serial", Y!Hears, Keep16 /\ Still)
    \/ In("telnet", T!ServerTakes, Keep14 /\ Still)
    \/ In("hosts", WatcherFires("here"), Keep0 /\ UNCHANGED terminalVars)
Role4 ==
    \/ In("view", Record, Keep0 /\ UNCHANGED allVars)
    \/ In("pty", P!Reap \/ P!ReportExit, Keep20 /\ Still)
    \/ In("mosh", M!PtyCloses, Keep15 /\ Still)
    \/ In("hosts", Gui("here"), Keep0 /\ UNCHANGED terminalVars)
Role5 ==
    \/ In("view", Drain, Keep0 /\ UNCHANGED allVars)
    \/ In("pty", P!ShutdownHangsUp \/ P!ShutdownSends, Keep20 /\ Still)
    \/ In("hosts", ReloadThread("here", 1), Keep0 /\ UNCHANGED terminalVars)
Role6 ==
    \/ In("view", SnapshotCheck, Keep0 /\ UNCHANGED allVars)
    \/ In("hosts", ReloadThread("here", 2), Keep0 /\ UNCHANGED terminalVars)
Role7 == In("view", SnapshotFill, Keep0 /\ UNCHANGED allVars)
Role8 == In("view", \E lost \in BOOLEAN : Render(lost), Keep0 /\ UNCHANGED allVars)

FairMCSpec ==
    /\ MCInit /\ [][MCNext]_Vars
    /\ WF_Vars(Role1) /\ WF_Vars(Role2) /\ WF_Vars(Role3) /\ WF_Vars(Role4)
    /\ WF_Vars(Role5) /\ WF_Vars(Role6) /\ WF_Vars(Role7) /\ WF_Vars(Role8)

-----------------------------------------------------------------------------
\* The first two slots of these parts are the channel to the engine and whether
\* the engine still receives.
Terminals == {"pty", "ssh", "mosh"}
Contract == INSTANCE BackendContract WITH
    QueueMax <- 1,
    queue <- IF part \in Terminals THEN s1 ELSE <<>>,
    heard <- IF part \in Terminals THEN s2 ELSE TRUE,
    phase <- CASE part = "pty" -> P!ChannelPhase [] part = "ssh" -> S!ChannelPhase
               [] part = "mosh" -> M!ChannelPhase [] OTHER -> "open"

\* The local PTY, the SSH task and the mosh session keep the contract of
\* backend.rs: all output before the one Exited, nothing after it, then the
\* channel closes.  Only a local shell's reader that waited for room in the
\* channel beyond the teardown's time limit is late.
KeepsContract ==
    Contract!CInit /\ [][(part = "pty" /\ P!Overran) \/ Contract!CNext]_(Contract!contractVars)

\* A closed pane ends its backend: no thread or task is left waiting for a thread,
\* a message, a timer or room in a channel.  What has no time limit in the code is
\* excepted by name: a write to a local terminal that nothing reads and the hangup
\* does not close, an answer of a server whose connection is up, and a write to a
\* serial device that is there and does not take it.
ClosedEnds ==
    []<>(/\ part = "pty" => P!ClosedIsOver
         /\ part = "ssh" => S!ClosedIsOver
         /\ part = "mosh" => M!ClosedIsOver
         /\ part = "serial" => Y!ClosedIsOver)

\* What is behind a pane agrees with it: the other end has the pane's size (and,
\* in telnet, agrees about the options) once the commands are handled; a shell
\* that ended by itself was read to the end and a serial device's bytes come
\* before the end; an SSH pane shows the state its task is in.
BackendAgrees ==
    /\ part = "pty" => P!AllOutputFirst
    /\ part = "ssh" => S!SizeFollows /\ S!PaneTruth
    /\ part = "mosh" => M!ClientSize
    /\ part = "serial" => Y!DeviceBeforeExit
    /\ part = "telnet" => T!Agreed

\* No server is talked to whose key is revoked or neither known nor accepted, a
\* key the user had remembered is not asked about again, a saved password is
\* sent at most once per authentication, and only secrets that worked are
\* remembered.
SecretsChecked ==
    /\ part = "keys" => K!NoUnknownKey /\ K!NoSecondQuestion
    /\ part = "auth" => A!SavedOnce /\ A!RememberedWorks

\* Whatever the program prints and the user changes is on the screen in the end,
\* if the terminal is visible.
ViewCatchesUp == []<>(part = "view" => ScreenCurrent)

\* The hosts shown follow the disk in the end.
HostsFollow == <>[](part = "hosts" => Follows("here"))
=============================================================================
