----------------------------- MODULE MCStores -----------------------------
(***************************************************************************)
(* Small instances of what OpenSesh keeps on disk: the replacement of a    *)
(* file, the merge of two versions, the vault (the variables and           *)
(* properties of Vault itself), the keychain, the service in front of it,  *)
(* the settings folder with its conflict copies, and the settings file.    *)
(* `part` says which one a behaviour runs; the variables of all but the    *)
(* vault are the slots s1, s2...                                           *)
(***************************************************************************)
EXTENDS Vault, Integers, Sequences, Functions, TLC

CONSTANTS Parts, None, Absent, Broken, Git, NoValue, Lost

VARIABLES part,
    s1, s2, s3, s4, s5, s6, s7, s8, s9, s10, s11, s12, s13

\* MergeRecords: lists of up to three records that are as in the base or
\* changed, in any order, and of up to two with every value of two fields; the
\* base is any list in the order of the ids.
Records == {"r1", "r2", "r3"}
Keys == {"f", "g"}
Unchanged == [f \in Keys |-> 1]
Orders(ids) ==
    {order \in UNION {[1 .. n -> ids] : n \in 0 .. Cardinality(ids)} : IsInjective(order)}
Lists(ids, contents) ==
    UNION {{[n \in DOMAIN order |-> [id |-> order[n], fields |-> fields[n]]] :
              fields \in [DOMAIN order -> contents]} : order \in Orders(ids)}
Bases == {[n \in 1 .. k |-> [id |-> <<"r1", "r2">>[n], fields |-> Unchanged]] : k \in 0 .. 2}
LongLists ==
    [bases |-> Bases, sides |-> Lists(Records, {Unchanged, [f \in Keys |-> Absent]})]
WideLists ==
    [bases |-> Bases, sides |-> Lists({"r1", "r2"}, [Keys -> {1, 2, Absent}])]

\* KeychainService: a bundle imported into an empty keychain, one whose id is
\* another key's, and one that has the same keys under other ids.
SentKey(i, p, s) == [kind |-> "key", id |-> i, print |-> p, secret |-> s]
SentIdentity(i, n, y) == [kind |-> "identity", id |-> i, name |-> n, key |-> y]
HeldKey(i, p) == [id |-> i, print |-> p]
HeldIdentity(i, n, y) == [id |-> i, name |-> n, key |-> y]
Sent ==
    <<SentKey("k1", 1, TRUE), SentKey("k2", 2, FALSE), SentIdentity("i1", "x", "k1"),
      SentIdentity("i2", "y", "k2"), SentIdentity("i3", "x", "k1")>>
ImportedBundles ==
    {[sent |-> Sent, keys |-> <<>>, identities |-> <<>>],
     [sent |-> Sent, keys |-> <<HeldKey("k1", 3)>>,
      identities |-> <<HeldIdentity("i1", "z", "k1")>>],
     [sent |-> Sent, keys |-> <<HeldKey("q", 1), HeldKey("k2", 2)>>,
      identities |-> <<HeldIdentity("i2", "x", "q"), HeldIdentity("r", "y", None)>>]}

\* One or two patterns of a known_hosts line against short names.
UpTo(set, n) == UNION {[1..i -> set] : i \in 0..n}
Pattern(negated, text) == [negated |-> negated, text |-> text]
HostPatterns ==
    {[patterns |-> <<Pattern(n, t)>>, name |-> x] :
        n \in BOOLEAN, t \in UpTo({"a", "b", "*", "?"}, 3), x \in UpTo({"a", "b"}, 3)}
    \cup {[patterns |-> <<Pattern(n, t), Pattern(o, u)>>, name |-> x] :
        n, o \in BOOLEAN, t, u \in UpTo({"a", "*"}, 2), x \in UpTo({"a", "b"}, 2)}

\* SyncConflicts: what a file holds of two records; two copies that arrive and a
\* step that fails; a copy, a save and two uses of the dialog.
Side(x, y) == ("a" :> x) @@ ("b" :> y)
Budget(a, s, o, f) == [arrivals |-> a, saves |-> s, opens |-> o, faults |-> f]
FolderBudgets == {Budget(2, 0, 1, 1), Budget(1, 1, 2, 0)}

\* SettingsFile: what somebody may type for each key, around every limit and of
\* the wrong type.
Value(t, n, s, l) == [t |-> t, n |-> n, s |-> s, l |-> l]
Integer(n) == Value("integer", n, "", <<>>)
Float(n) == Value("float", n, "", <<>>)
Text(s) == Value("string", 0, s, <<>>)
Bool(n) == Value("boolean", n, "", <<>>)
Array(l) == Value("array", 0, "", l)
TypedValues ==
    ("language" :> {Text("es"), Text("klingon")})
    @@ ("theme" :> {Text("dark"), Text("bad"), Bool(1)})
    @@ ("motion" :> {Bool(0), Text("yes")})
    @@ ("scale" :> {Float(5), Float(4), Float(31), Integer(2)})
    @@ ("font" :> {Text(" x"), Integer(1)})
    @@ ("profile" :> {Text(" x"), Text("../x")})
    @@ ("lock" :> {Integer(-1), Integer(1440), Integer(1441), Float(10)})
    @@ ("order" :> {Array(<<>>), Array(<<"password", "password">>), Array(<<"rsh">>), Text("password")})
    @@ ("keepalive" :> {Integer(0), Integer(3600), Integer(3601)})
    @@ ("interval" :> {Integer(0), Integer(60), Integer(61)})
    @@ ("metrics" :> {Array(<<>>), Array(<<"memory">>), Array(<<"cpu", "cpu">>), Integer(1)})
    @@ ("parallel" :> {Integer(0), Integer(16), Integer(17)})

A == INSTANCE AtomicWrite WITH
    dir <- s1, durable <- s2, pc <- s3, k <- s4, ver <- s5, crashes <- s6, clean <- s7,
    before <- s8, result <- s9, returned <- s10,
    Backups <- 3, MaxWrites <- 4, MaxCrashes <- 1
M == INSTANCE MergeRecords WITH
    base <- s1, ours <- s2, theirs <- s3, out <- s4, conflicts <- s5, i <- s6, j <- s7,
    Ids <- Records, Fields <- Keys, Values <- {1, 2}, Inputs <- {LongLists, WideLists}
K == INSTANCE Keychain WITH
    toml <- s1, vault <- s2, status <- s3, file <- s4, lockedFile <- s5, op <- s6,
    nextRef <- s7, edits <- s8, expected <- s9,
    Slots <- {"password", "passphrase"}, Values <- {1, 2}, MaxRefs <- 3, MaxEdits <- 1
S == INSTANCE KeychainService WITH
    lane <- s1, w <- s2, j <- s3, k <- s4, b <- s5, m <- s6,
    FreeAttempts <- 2, FirstDelay <- 2, MaxDelay <- 3, MaxTime <- 5, MaxTries <- 4, MaxJobs <- 3,
    MaxWrites <- 2, Bundles <- ImportedBundles, MaxImports <- 3, MaxFaults <- 1,
    Patterns <- HostPatterns
C == INSTANCE SyncConflicts WITH
    lane <- s1, disk <- s2, copies <- s3, scans <- s4, watch <- s5, found <- s6,
    dialog <- s7, job <- s8, budget <- s9, history <- s10, fold <- s11,
    Files <- <<"hosts", "known_hosts">>, WholeFiles <- {"known_hosts"}, Ids <- {"a", "b"},
    Mine <- Side(1, Absent), Contents <- {Side(2, 2), Side(Absent, Absent)},
    CopyNames <- {1, 2}, Budgets <- FolderBudgets
F == INSTANCE SettingsFile WITH
    file <- s1, config <- s2, warned <- s3, prot <- s4, told <- s5, outside <- s6,
    pending <- s7, theirs <- s8, keysFile <- s9, bindings <- s10, keysTheirs <- s11,
    subject <- s12, sets <- s13,
    Given <- TypedValues, MaxSets <- 2

\* The slots that a part leaves unused.
Blank11 == s12 = "-" /\ s13 = "-"
Blank10 == s11 = "-" /\ Blank11
Blank9 == s10 = "-" /\ Blank10
Blank7 == s8 = "-" /\ s9 = "-" /\ Blank9
Blank6 == s7 = "-" /\ Blank7
Blank0 == s1 = "-" /\ s2 = "-" /\ s3 = "-" /\ s4 = "-" /\ s5 = "-" /\ s6 = "-" /\ Blank6
Keep11 == UNCHANGED <<s12, s13>>
Keep10 == UNCHANGED <<s11, s12, s13>>
Keep9 == UNCHANGED <<s10, s11, s12, s13>>
Keep7 == UNCHANGED <<s8, s9, s10, s11, s12, s13>>
Keep6 == UNCHANGED <<s7, s8, s9, s10, s11, s12, s13>>
Keep0 == UNCHANGED <<s1, s2, s3, s4, s5, s6, s7, s8, s9, s10, s11, s12, s13>>

\* A step of one part; `rest` are the variables of the others.
In(p, act, rest) == part = p /\ act /\ rest /\ UNCHANGED part

\* The variables of the modules extended, in the behaviours of the other parts.
VaultAside == Init
Still == UNCHANGED <<vars>>

MCInit ==
    /\ part \in Parts
    /\ \/ part = "vault" /\ Init /\ Blank0
       \/ part = "replace" /\ A!AInit /\ Blank10 /\ VaultAside
       \/ part = "merge" /\ M!Init /\ Blank7 /\ VaultAside
       \/ part = "keychain" /\ K!Init /\ Blank9 /\ VaultAside
       \/ part = "service" /\ S!ServiceInit /\ Blank6 /\ VaultAside
       \/ part = "folder" /\ C!SyncInit /\ Blank11 /\ VaultAside
       \/ part = "settings" /\ F!UInit /\ VaultAside

MCNext ==
    \/ In("vault", Next, Keep0)
    \/ In("replace", A!ANext, Keep10 /\ Still)
    \/ In("merge", M!Next, Keep7 /\ Still)
    \/ In("keychain", K!Next, Keep9 /\ Still)
    \/ In("service", S!ServiceNext, Keep6 /\ Still)
    \/ In("folder", C!SyncNext, Keep11 /\ Still)
    \/ In("settings", F!UNext, Still)

Vars == <<part, s1, s2, s3, s4, s5, s6, s7, s8, s9, s10, s11, s12, s13, vars>>

-----------------------------------------------------------------------------
\* AtomicWrite: at any moment, a crash included, the file is whole and old or
\* new; the backups stay complete and in order, a save that did not replace the
\* file leaves them alone, and a call leaves no temporary file.
ReplacesAtomically ==
    part = "replace" =>
        /\ A!OldOrNew /\ A!BackupsOrdered /\ A!BackupsComplete
        /\ A!NoLeftovers /\ A!FailureKeepsBackups

\* MergeRecords: no added or changed record is lost or doubled, a change of one
\* side survives, a conflict is told exactly when a change is overruled, and the
\* order of both sides is kept.
MergeRight ==
    part = "merge" =>
        M!ChangesSurvive /\ M!OneSidedKept /\ M!ConflictsTold /\ M!OrderKept

\* Keychain: each place holds a secret the user may expect, over failures,
\* restarts, garbage collection and edits by hand; while keychain.toml cannot be
\* read, no step writes over it or drops a secret, short of a reset.
SecretsStay ==
    /\ [](part = "keychain" => K!SecretsStay)
    /\ [][part = "keychain" => K!UnreadKept]_Vars

\* KeychainService: a wait after wrong passwords is never shortened by a retry,
\* a restart or the clock, every job is answered, a host key that was accepted
\* last stays in known_hosts unless a write that had read the file before it was
\* there went over it, the line that goes is the one asked for, importing a bundle
\* twice is importing it once, and patterns match what OpenSSH's would.
ServiceSound ==
    part = "service" =>
        /\ S!WaitsHold /\ S!JobsAnswered /\ S!KnownHostsKept /\ S!ImportOnce
        /\ S!PatternsRight

\* SyncConflicts: no version of a file is removed that its resolution did not
\* take in as it was read, and a folder moves with all it held, a file whole
\* unless a copy that broke off before had left a part of it.
FolderKeepsAll == part = "folder" => C!NothingLost /\ C!MoveKeeps

\* The conflict that is resolved is the one the dialog showed.
ResolvesWhatWasShown == part = "folder" => C!ResolvesWhatWasShown

\* SettingsFile: what is saved reads back as it was set, and a file that is not
\* ours to write (newer, broken, unknown keys) stays as it is.
SettingsKept == part = "settings" => F!SavedReadsBack /\ F!NotOursStays
=============================================================================
