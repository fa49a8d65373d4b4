------------------------------ MODULE MCPanes ------------------------------
(***************************************************************************)
(* Small instances of what a pane shows of the other side: the file        *)
(* browser, remote edits and the transfer list, remote desktops, the       *)
(* monitor, recordings, and the input and output of a terminal. `part`     *)
(* says which one a behaviour runs; its variables are the slots s1, s2..., *)
(* which the other parts use for theirs.                                   *)
(***************************************************************************)
EXTENDS Integers, Sequences

CONSTANTS Parts, None, Partial, Unsupported

VARIABLES part,
    s1, s2, s3, s4, s5, s6, s7, s8, s9, s10, s11, s12, s13, s14, s15, s16, s17, s18, s19

\* Desktop: RDP and VNC, and one through a jump host with a saved password.
Plan(v, j, s, h) == [vnc |-> v, jump |-> j, saved |-> s, host |-> h]

\* DesktopScreen: drawing; drawing while the size and the tab change; keys.
Screen(d, s, m, k) == [draws |-> d, sizes |-> s, moves |-> m, keys |-> k]
ScreenBudgets == {Screen(3, 0, 0, 0), Screen(1, 1, 1, 0), Screen(0, 0, 0, 2)}

\* Monitor: the sections a reading may have, on Linux, the BSDs and macOS, with
\* counters at the limit, missing values and the same device mounted twice.
Counts == {0, 3, 7}
CpuReadings ==
    {[cpu |-> <<a, 0, b, c, d>> \o e] : a, b, c, d \in Counts, e \in {<<>>, <<7, 7, 7, 5>>}}
BsdReadings ==
    {[cp_time |-> <<a, 0, b, 0, c>>, physmem |-> [total |-> a, free |-> b, inactive |-> c],
      boottime |-> [now |-> a, boot |-> b]] : a, b, c \in Counts}
MacReadings ==
    {[pscpu |-> <<a, b>>, ncpu |-> c,
      vmstat |-> [total |-> a, free |-> b, speculative |-> c]] : a, b, c \in Counts}
Net(n, b) == [name |-> n, bytes |-> b]
LinuxReadings ==
    {[meminfo |-> m, cpu |-> <<1, 2>>, netdev |-> <<Net("lo", 7), Net("eth", 7), Net("tun", 3)>>,
      route |-> r] :
        m \in {[total |-> 3, available |-> 7], [total |-> 7, free |-> 3, buffers |-> 3,
               cached |-> 7], [free |-> 3]},
        r \in {{}, {"eth"}, {"tun"}, {"none"}}}
Row(f, m, z) == [fs |-> f, mount |-> m, size |-> z]
Rows ==
    {Row(f, m, 1) : f \in {"dev1", "dev2", "tmpfs", "zroot"}, m \in {"/", "/a", "/run"}}
    \cup {Row("dev2", "/b", 0), Row("rootfs", "/", 0)}
DiskReadings == {[df |-> <<a, b, c>>] : a, b, c \in Rows}
AddressReadings ==
    {[addr |-> <<[ip |-> 1, scope |-> s], [ip |-> 1, scope |-> t]>>, uname |-> "u"] :
        s, t \in {"loopback", "link", "global"}}
Readings ==
    CpuReadings \cup BsdReadings \cup MacReadings \cup LinuxReadings \cup DiskReadings
    \cup AddressReadings

\* Recording: files as the recorder writes them and ones cut short or written
\* by others; programs that print characters of two, three and four bytes.
Header(size) == [code |-> "header", time |-> 2, data |-> size]
Output(time, text) == [code |-> "o", time |-> time, data |-> text]
Resize(time, size) == [code |-> "r", time |-> time, data |-> size]
Marker(time, text) == [code |-> "m", time |-> time, data |-> text]
Line(code) == [code |-> code, time |-> None, data |-> None]
RecordedFiles ==
    {<<Header(1), Output(0, "x"), Line("blank"), Output(1, "y"), Output(5, "z")>>,
     <<Header(1), Output(2, "x"), Resize(4, "size"), Output(1, "y"), Marker(9, "m"),
       Output(4, "z")>>,
     <<Header(1)>>, <<>>, <<Header(1), Output(0, "x"), Line("not json")>>,
     <<Header(1), Resize(0, "no size")>>, <<Header(1), Output(-1, "x")>>, <<Header(0)>>}
RecordedPrograms == {<<"a", "4", "c", "c", "c">>, <<"3", "c", "a", "c">>, <<"4", "2", "c">>}

\* InputCodec: pasted texts over alphabets of line ends and controls, of wide
\* and look-alike letters, of comments, and of invisible characters.
UpTo(n, alphabet) == UNION {[1..k -> alphabet] : k \in 1..n}
PastedTexts ==
    UpTo(4, {13, 10, 97, 27, 9}) \cup UpTo(4, {97, 1089, 65313, 32, 45})
    \cup UpTo(4, {35, 32, 10, 9002, 9003}) \cup UpTo(3, {97, 8203, 8238, 155})

\* TerminalInput: mouse buttons, a change of modes under way, scrolling, pastes.
Handled(m, s, p, k, o, v) ==
    [mouse |-> m, scroll |-> s, paste |-> p, key |-> k, modes |-> o, moves |-> v]
InputBudgets ==
    {Handled(4, 0, 0, 0, 1, 0), Handled(2, 0, 0, 0, 2, 1), Handled(0, 2, 0, 2, 1, 0),
     Handled(0, 0, 2, 1, 1, 1)}

B == INSTANCE FileBrowser WITH
    source <- s1, serial <- s2, status <- s3, busy <- s4, fs <- s5, panes <- s6,
    attempt <- s7, generation <- s8, listing <- s9, path <- s10, rows <- s11,
    space <- s12, requests <- s13, started <- s14, tasks <- s15, asks <- s16,
    settled <- s17,
    Sources <- {"local", "terminal", "host", "none"}, Paths <- {"p", "q"}, MaxAsks <- 4
E == INSTANCE RemoteEdit WITH
    server <- s1, copy <- s2, edit <- s3, connected <- s4, jobs <- s5, burst <- s6,
    posted <- s7, dialog <- s8, used <- s9, failures <- s10, foreign <- s11,
    discarded <- s12, blind <- s13,
    MaxChanges <- 4, MaxFailures <- 1
Q == INSTANCE TransferList WITH
    queue <- s1, held <- s2, ticked <- s3, events <- s4, list <- s5, conflicts <- s6,
    told <- s7, ends <- s8, steps <- s9,
    Jobs <- {1}, MaxSteps <- 5
D == INSTANCE Desktop WITH
    plan <- s1, pane <- s2, link <- s3, pipe <- s4, driver <- s5, trust <- s6,
    past <- s7,
    Plans <- {Plan(FALSE, FALSE, None, TRUE), Plan(TRUE, FALSE, None, TRUE),
              Plan(FALSE, TRUE, "good", FALSE)},
    Certs <- {"a", "b"}, MaxConnects <- 2, MaxActs <- 2, MaxFaults <- 1
S == INSTANCE DesktopScreen WITH
    vnc <- s1, canvas <- s2, said <- s3, frame <- s4, item <- s5, inbox <- s6,
    sizes <- s7, server <- s8, keyb <- s9, left <- s10,
    Sizes <- {3, 4}, MaxDirty <- 1, Budgets <- ScreenBudgets
M == INSTANCE Monitor WITH
    lane <- s1, input <- s2, wire <- s3, prints <- s4, pending <- s5, previous <- s6,
    reports <- s7, over <- s8, ssh <- s9, news <- s10, item <- s11, serials <- s12,
    shown <- s13, gen <- s14, watchers <- s15, readers <- s16, asked <- s17,
    answered <- s18, events <- s19,
    MaxCount <- 9, Inputs <- Readings, MaxPending <- 5, MaxPrints <- 3, MaxEvents <- 5
R == INSTANCE Recording WITH
    lane <- s1, now <- s2, rec <- s3, file <- s4, ps <- s5, pl <- s6, sent <- s7,
    told <- s8,
    IdleLimit <- 2, MinSpeed <- 1, MaxSpeed <- 2, Speeds <- {0, 1, 9}, Files <- RecordedFiles,
    Programs <- RecordedPrograms, MaxTicks <- 3, MaxUses <- 3
C == INSTANCE InputCodec WITH
    lane <- s1, given <- s2, osc <- s3, passed <- s4, side <- s5, engine <- s6,
    lastSet <- s7,
    Columns <- {0, 94, 95, 96, 222, 223, 2014, 2015}, Texts <- PastedTexts,
    Limit <- 4, ClipLimit <- 6, MaxOsc <- 8
I == INSTANCE TerminalInput WITH
    left <- s1, modes <- s2, held <- s3, mouse <- s4, told <- s5, sel <- s6,
    hasSel <- s7, news <- s8, view <- s9, peer <- s10, queue <- s11, open <- s12,
    review <- s13, attached <- s14, running <- s15, unseen <- s16,
    History <- 2, Lines <- 2, Budgets <- InputBudgets

\* The slots that a part leaves unused.
Blank17 == s18 = "-" /\ s19 = "-"
Blank16 == s17 = "-" /\ Blank17
Blank13 == s14 = "-" /\ s15 = "-" /\ s16 = "-" /\ Blank16
Blank10 == s11 = "-" /\ s12 = "-" /\ s13 = "-" /\ Blank13
Blank9 == s10 = "-" /\ Blank10
Blank8 == s9 = "-" /\ Blank9
Blank7 == s8 = "-" /\ Blank8
Keep17 == UNCHANGED <<s18, s19>>
Keep16 == UNCHANGED <<s17, s18, s19>>
Keep13 == UNCHANGED <<s14, s15, s16, s17, s18, s19>>
Keep10 == UNCHANGED <<s11, s12, s13, s14, s15, s16, s17, s18, s19>>
Keep9 == UNCHANGED <<s10, s11, s12, s13, s14, s15, s16, s17, s18, s19>>
Keep8 == UNCHANGED <<s9, s10, s11, s12, s13, s14, s15, s16, s17, s18, s19>>
Keep7 == UNCHANGED <<s8, s9, s10, s11, s12, s13, s14, s15, s16, s17, s18, s19>>

\* A step of one part; `rest` are the variables of the others.
In(p, act, rest) == part = p /\ act /\ rest /\ UNCHANGED part

MCInit ==
    /\ part \in Parts
    /\ \/ part = "browser" /\ B!BInit /\ Blank17
       \/ part = "edit" /\ E!EInit /\ Blank13
       \/ part = "list" /\ Q!QInit /\ Blank9
       \/ part = "desktop" /\ D!DInit /\ Blank7
       \/ part = "screen" /\ S!SInit /\ Blank10
       \/ part = "monitor" /\ M!MonInit
       \/ part = "recording" /\ R!RecInit /\ Blank8
       \/ part = "codec" /\ C!IInit /\ Blank7
       \/ part = "input" /\ I!VInit /\ Blank16

MCNext ==
    \/ In("browser", B!BNext, Keep17)
    \/ In("edit", E!ENext, Keep13)
    \/ In("list", Q!QNext, Keep9)
    \/ In("desktop", D!DNext, Keep7)
    \/ In("screen", S!SNext, Keep10)
    \/ In("monitor", M!MonNext, TRUE)
    \/ In("recording", R!RecNext, Keep8)
    \/ In("codec", C!INext, Keep7)
    \/ In("input", I!VNext, Keep16)

Vars == <<part, s1, s2, s3, s4, s5, s6, s7, s8, s9, s10, s11, s12, s13, s14, s15, s16,
          s17, s18, s19>>

-----------------------------------------------------------------------------
\* SFTP in the panes: rows and folder are of one request, and with the space they
\* are of the open file system from its first listing on; an edited remote file is
\* shown as saved only when the server has the copy's content, and a change by
\* others that an upload's check can see is never overwritten without asking; the
\* transfer list asks the questions of jobs that still wait for an answer, each
\* once, a cancelled job's excepted.
SftpShown ==
    /\ part = "browser" => B!PaneConsistent
    /\ part = "edit" => E!SavedIsTrue /\ E!NoBlindOverwrite
    /\ part = "list" => Q!QuestionsMatch

\* Remote desktops: no password goes to a server whose certificate was not
\* accepted, only what worked is remembered, the pane shows the state of its
\* own connection, its picture catches up, and no key or button stays down.
DesktopSound ==
    /\ part = "desktop" => D!SecretsAfterYes /\ D!RememberedWorked /\ D!PaneAgrees
    /\ part = "screen" => S!PictureCatchesUp /\ S!NothingStaysDown

\* Monitor: a reading makes sense whatever the server prints, the watcher's
\* reports are those of the whole output wherever it was cut, and a pane shows its
\* connection, its oldest question and what was reported last, which is of an
\* earlier connection only when that one's task was late.
MonitorSound == part = "monitor" => M!ReadingSound /\ M!WatchReports /\ M!PaneShows

\* Recordings: what was recorded reads back whole, whatever the writes cut, and
\* the player's screen is what the recording printed up to its position.
RecordingSound == part = "recording" => R!RecordedReadsBack /\ R!ScreenMatches

\* While it is paused, a player does not get ahead.
PauseIsNotPlayed == part = "recording" => R!PauseIsNotPlayed

\* Input and output of a terminal: keys and mouse reports mean what was pressed,
\* a paste types no line by itself, the parsers agree with the engine; the program
\* is told of the release of what it was told is pressed, but for the releases that
\* ButtonsPair names; the menus know the selection, and typing shows the prompt.
InputSound ==
    /\ part = "codec" =>
          C!KeysReach /\ C!ReportsDecode /\ C!PasteSafe /\ C!ParsersSound
    /\ part = "input" => I!ButtonsPair /\ I!SelectionTrue /\ I!TypingIsSeen
=============================================================================
