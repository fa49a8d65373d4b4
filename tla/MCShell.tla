------------------------------ MODULE MCShell ------------------------------
(***************************************************************************)
(* Small instances of the parts of the program around its terminals:       *)
(* layouts, workspaces, the tree of hosts, quick connect, terminal         *)
(* profiles, themes and snippets. `part` says which one a behaviour runs.  *)
(* Workspaces has its own variables, which the other parts leave as they   *)
(* are; theirs are the slots s1, s2...                                     *)
(***************************************************************************)
EXTENDS Workspaces, Integers, TLC

CONSTANTS Parts, None, Unset, Absent, Broken, NotFinite

VARIABLES part,
    s1, s2, s3, s4, s5, s6, s7, s8, s9, s10, s11, s12, s13, s14, s15, s16, s17, s18

\* Layouts: a tab with one pane, and a workspace's with two rows of two.
OnePane == [p \in {<<>>} |-> [kind |-> "pane", pane |-> 1]]
Fork(axis) == [kind |-> "split", axis |-> axis, ratio |-> 10]
FourPanes ==
    (<<>> :> Fork("horizontal")) @@ (<<1>> :> Fork("vertical")) @@ (<<2>> :> Fork("vertical"))
    @@ [p \in {1, 2} \X {1, 2} |-> [kind |-> "pane", pane |-> 2 * p[1] + p[2] - 2]]

\* Workspaces: the ids that either of two names may get.
TwoIds == [n \in {1, 2} |-> <<"a", "a2">>]

\* Workspaces: what windows hold is only compared.
Symmetry == Permutations(Contents)

\* HostTree: a sound file with a linked ssh_config, one whose parents loop and
\* which repeats an id, and one whose groups have no parent that exists.
Group(i, p, q) == [id |-> i, parent |-> p, port |-> q]
Host(i, g, q, j, f) == [id |-> i, group |-> g, port |-> q, jump |-> j, favorite |-> f]
In1(i, g) == Host(i, g, Unset, Unset, FALSE)
HostFiles ==
    {[groups |-> <<Group("g1", Unset, 1), Group("g2", "g1", Unset)>>,
      hosts |-> <<In1("h1", "g2"), Host("h2", Unset, Unset, "h1", TRUE)>>, linked |-> TRUE],
     [groups |-> <<Group("g1", "g2", 1), Group("g2", "g3", Unset), Group("g3", "g2", 0)>>,
      hosts |-> <<In1("h1", "g1"), In1("h1", "g2"), Host("bad", "g9", 0, Unset, FALSE)>>,
      linked |-> FALSE],
     [groups |-> <<Group("g1", "g1", 0), Group("bad", "g9", 1), Group("g1", Unset, 1)>>,
      hosts |-> <<In1("l1", "g1")>>, linked |-> TRUE]}

\* QuickConnect: the pieces of what is typed, as tokens.
TypedPrograms == {<<>>, <<<<"ssh">>>>, <<<<"mosh">>>>, <<<<"telnet">>>>}
TypedUsers ==
    {None, <<"deploy">>, <<"-", "x">>, <<"a", "%2540", "b">>, <<"a", ";", "b">>, <<"a", "/">>}
TypedHosts ==
    {<<"web">>, <<"-", "x">>, <<"::1">>, <<"[", "::1", "]">>, <<"ssh">>, <<"vnc://", "web">>,
     <<>>, <<"@">>}
TypedPorts == {<<>>, <<":", "22">>, <<":", "2222">>, <<":", "5">>, <<":", "0">>}
TypedOptions ==
    {<<>>, <<<<"-J">>, <<"deploy", "@", "gw">>>>, <<<<"-J", "saved">>>>, <<<<"-J">>, <<"bad">>>>,
     <<<<"-J">>, <<"-", "x">>>>, <<<<"-p">>, <<"5">>>>, <<<<"-p", "2222">>, <<"-l", "root">>>>,
     <<<<"-l">>, <<"a", "\\'">>>>, <<<<"-l">>, <<"-", "x">>>>, <<<<"2222">>>>, <<<<"-", "A">>>>,
     <<<<"-p">>>>}
TypedOthers ==
    {<<<<"serial:", "ttyUSB0">>>>, <<<<"serial:", "-">>>>, <<<<"serial:", "COM3", "?", "baud=0">>>>,
     <<<<"serial:", "ttyUSB0", "?", "baud=9600", "&", "parity=odd">>>>,
     <<<<"s3://", "key", "@", "minio", ":", "2222", "/", "bucket", "?", "region=eu", "&",
         "path_style=false">>>>,
     <<<<"s3://", "minio", "/", "a", "%3F">>>>, <<<<"s3://", "::1">>, <<"-p">>, <<"22">>>>,
     <<<<"docker://", "root", "@", "web">>>>, <<<<"docker://", "-">>>>,
     <<<<"docker://", "-", "x", "@", "web">>>>, <<<<"docker://", "web", "?", "baud=9600">>>>,
     <<<<"kube://", "shop", "/", "api", "?", "container=app", "&", "context=prod">>>>,
     <<<<"kube://", "-", "/", "api">>>>, <<<<"kube://", "api">>>>,
     <<<<"web">>, <<"db">>, <<"x">>>>, <<<<"'">>>>, <<>>}

\* Themes: files of each kind; what they leave out comes from the background.
Slots == {"fg", "bg", "cursor", "cursorText", "selBg", "selFg", "matchBg", "matchFg",
          "focusBg", "focusFg", "normal", "bright"}
GivenSlots ==
    {{}, {"normal"}, {"cursor", "selBg", "matchBg"}, {"selFg", "bright", "focusBg"},
     {"matchFg", "focusFg", "cursorText", "normal"}, Slots}
ColorSets ==
    {[s \in Slots |-> CASE s = "fg" -> f [] s = "bg" -> 15 - b
                        [] s \in given \ {"fg", "bg"} -> 6 [] OTHER -> Unset] :
        f \in {Unset, 2, 9}, b \in {0, 13}, given \in GivenSlots}
ThemeFiles ==
    [ext : {"toml", "none", "json", "conf", "yaml", "itermcolors"},
     flavor : {"opensesh", "alacritty", "iterm2", "windows", "kitty", "base16"},
     colors : ColorSets]

\* Snippets: tables somebody else wrote, what the editor holds, and budgets
\* that separate the run, the recorder and the two ways the file changes.
Table(text, steps) ==
    [name |-> "n", shortcut |-> "k", text |-> text, steps |-> steps, extra |-> TRUE]
WrittenSnippets ==
    {Table(<<"a", "{{", "secret", ":", "n", "}}", "LF">>, <<>>),
     Table(<<"b">>, <<[send |-> <<"{{", "n", "}}", "CR", "LF">>], [wait_for |-> <<"a">>],
                      [delay_ms |-> 3], [wait_for |-> <<"a", "b">>, timeout_ms |-> 20],
                      [send |-> <<"a">>]>>),
     Table(<<>>, <<[delay_ms |-> 0]>>),
     Table(<<>>, <<[wait_for |-> <<"a">>, timeout_ms |-> -1]>>)}
Edited(name, macro, text, steps) ==
    [name |-> name, shortcut |-> "k", macro |-> macro, text |-> text, steps |-> steps]
Wait(text) == [kind |-> "wait", pattern |-> text, timeout |-> 0]
Delay(ms) == [kind |-> "delay", ms |-> ms]
Send(text) == [kind |-> "send", text |-> text]
EditedSnippets ==
    {Edited("m", FALSE, <<"a", "{{", "}}">>, <<>>), Edited("", FALSE, <<"a">>, <<>>),
     Edited("m", TRUE, <<"a">>, <<Wait(<<"b">>), Delay(0)>>),
     Edited("m", TRUE, <<>>, <<Wait(<<"b">>), Delay(12000)>>), Edited("m", TRUE, <<>>, <<>>),
     Edited("m", TRUE, <<>>, <<Send([i \in 1..8 |-> "a"])>>)}
Budget(r, p, c, k, e, f, ch) ==
    [runs |-> r, prints |-> p, closes |-> c, keys |-> k, edits |-> e, failures |-> f,
     changes |-> ch]
SnippetBudgets ==
    {Budget(1, 4, 1, 0, 0, 0, 0), Budget(0, 0, 0, 3, 0, 0, 0), Budget(1, 0, 0, 1, 0, 0, 0),
     Budget(1, 0, 0, 0, 1, 0, 0), Budget(0, 0, 0, 0, 1, 1, 1), Budget(0, 0, 0, 0, 2, 0, 0)}

L == INSTANCE Layouts WITH
    tree <- s1, rows <- s2, focused <- s3, zoomed <- s4,
    Ids <- {1, 2, 3, 4}, Seeds <- {OnePane, FourPanes}, MaxPanes <- 4, MaxSplit <- 2,
    Ratios <- {NotFinite, -4, 30}, Step <- 9
T == INSTANCE HostTree WITH
    lib <- s1, locked <- s2, config <- s3, recents <- s4, detected <- s5, keychain <- s6,
    view <- s7, edits <- s8, deleted <- s9,
    GroupIds <- {"g1", "g2", "g3"}, HostIds <- {"h1", "h2"}, LinkedIds <- {"l1"},
    BadId <- "bad", Ports <- {0, 1}, DefaultPort <- 22, RawFiles <- HostFiles,
    MaxRecent <- 2, Asking <- {"h1"}, MaxJobs <- 2, MaxEdits <- 2
Q == INSTANCE QuickConnect WITH
    typed <- s1, used <- s2, command <- s3, recent <- s4,
    Programs <- TypedPrograms, Users <- TypedUsers, Hosts <- TypedHosts, Ports <- TypedPorts,
    Options <- TypedOptions, Others <- TypedOthers,
    SavedJumps <- (<<"saved">> :> <<"gw", ":", "2222">>) @@ (<<"bad">> :> <<"-", "y">>)
P == INSTANCE Profiles WITH
    disk <- s1, base <- s2, lib <- s3, queued <- s4, finished <- s5, wanted <- s6,
    chan <- s7, waiting <- s8, passing <- s9, gui <- s10, readers <- s11, dirty <- s12,
    budget <- s13, unsaved <- s14, gone <- s15, failed <- s16,
    Budgets <- {[edits |-> 2, changes |-> 0, failures |-> 1],
                [edits |-> 1, changes |-> 1, failures |-> 0]},
    MaxReaders <- 1
H == INSTANCE Themes WITH
    subject <- s1, inputs <- s2, app <- s3, file <- s4, theme <- s5, first <- s6,
    cell <- s7,
    Accents <- {0, 4, 7, 8, 12, 15}, RawFiles <- ThemeFiles
S == INSTANCE Snippets WITH
    left <- s1, session <- s2, printed <- s3, job <- s4, task <- s5, ended <- s6,
    record <- s7, macro <- s8, mem <- s9, disk <- s10, base <- s11, saves <- s12,
    write <- s13, inbox <- s14, reader <- s15, dirty <- s16, lost <- s17, made <- s18,
    Panes <- {1}, Editors <- EditedSnippets, RawTables <- WrittenSnippets,
    Keys <- {"a", "CR", "LF", "{{"}, Gaps <- {3, 17, 30001}, WaitBuffer <- 2, MaxText <- 7,
    MaxIds <- 2, Budgets <- SnippetBudgets

\* The slots that a part leaves unused.
Blank16 == s17 = "-" /\ s18 = "-"
Blank10 == s11 = "-" /\ s12 = "-" /\ s13 = "-" /\ s14 = "-" /\ s15 = "-" /\ s16 = "-"
    /\ Blank16
Blank9 == s10 = "-" /\ Blank10
Blank7 == s8 = "-" /\ s9 = "-" /\ Blank9
Blank4 == s5 = "-" /\ s6 = "-" /\ s7 = "-" /\ Blank7
Blank0 == s1 = "-" /\ s2 = "-" /\ s3 = "-" /\ s4 = "-" /\ Blank4
Keep16 == UNCHANGED <<s17, s18>>
Keep9 == UNCHANGED <<s10, s11, s12, s13, s14, s15, s16, s17, s18>>
Keep7 == UNCHANGED <<s8, s9, s10, s11, s12, s13, s14, s15, s16, s17, s18>>
Keep4 == UNCHANGED <<s5, s6, s7, s8, s9, s10, s11, s12, s13, s14, s15, s16, s17, s18>>
Keep0 ==
    UNCHANGED <<s1, s2, s3, s4, s5, s6, s7, s8, s9, s10, s11, s12, s13, s14, s15, s16, s17, s18>>

\* A step of one part; `rest` are the variables of the others.
In(p, act, rest) == part = p /\ act /\ rest /\ UNCHANGED part

MCInit ==
    /\ part \in Parts
    /\ WInit
    /\ \/ part = "layout" /\ L!LInit /\ Blank4
       \/ part = "workspaces" /\ Blank0
       \/ part = "tree" /\ T!TInit /\ Blank9
       \/ part = "quick" /\ Q!CInit /\ Blank4
       \/ part = "profiles" /\ P!PInit /\ Blank16
       \/ part = "themes" /\ H!HInit /\ Blank7
       \/ part = "snippets" /\ S!SInit

MCNext ==
    \/ In("layout", L!LNext, Keep4 /\ UNCHANGED wsVars)
    \/ In("workspaces", WNext, Keep0)
    \/ In("tree", T!TNext, Keep9 /\ UNCHANGED wsVars)
    \/ In("quick", Q!CNext, Keep4 /\ UNCHANGED wsVars)
    \/ In("profiles", P!PNext, Keep16 /\ UNCHANGED wsVars)
    \/ In("themes", H!HNext, Keep7 /\ UNCHANGED wsVars)
    \/ In("snippets", S!SNext, UNCHANGED wsVars)

Vars == <<part, s1, s2, s3, s4, s5, s6, s7, s8, s9, s10, s11, s12, s13, s14, s15, s16,
          s17, s18, wsVars>>

-----------------------------------------------------------------------------
\* Layouts: however a tab is split, dragged, closed and restored, its tree is
\* valid, the panes fill it without overlapping, moving the focus there and back
\* makes sense, and saving and reading the layout keeps it.
LayoutSound ==
    part = "layout" => L!LayoutValid /\ L!GeometrySound /\ L!RoundTripKeeps

\* HostTree: from any hosts.toml somebody wrote, the groups are a forest with
\* every host in it, the sidebar shows that tree with the right counts and
\* inherited ports, and no list remembers a host that was deleted, nor the
\* keychain, but for a secret that was still to be saved or could not be removed.
HostTreeSound == part = "tree" => T!TreeSound /\ T!ShownTrue /\ T!DeletedForgotten

\* QuickConnect: no word that names a place or a user is read as an option, and
\* a plain text goes where it says, also from the recent connections.
QuickConnectSound == part = "quick" => Q!NothingReadAsOption /\ Q!GoesWhereSaid

\* Profiles: when all is quiet the library, the files and what the user saved
\* agree, and a deleted profile stays deleted.
ProfilesSettle == part = "profiles" => P!LibrarySettles /\ P!DeletedStays

\* Themes: text is readable at the contrast asked for when any color is, and a
\* theme keeps its colors through every format it is exported to.
ThemesSound == part = "themes" => H!Readable /\ H!ThemeTravels

\* Snippets: a wait sees all that was printed since it began, a recorded macro
\* replays what was typed, and snippets.toml and the list agree when all is quiet.
SnippetsSound ==
    part = "snippets" =>
        S!WaitsSeeAll /\ S!MacroReplays /\ S!SnippetsReadBack /\ S!SnippetsSettle
=============================================================================
