--------------------------- MODULE KeychainService ---------------------------
(***************************************************************************)
(* The keychain's worker and what surrounds the stores of Keychain.tla and *)
(* Vault.tla.  Five lanes, each in its own record:                         *)
(*                                                                         *)
(*   wait     the waits after wrong master passwords                       *)
(*            (opensesh-vault/src/backoff.rs, Vault::try_password);        *)
(*   jobs     the worker's queue, the QML singleton that submits jobs and  *)
(*            shows outcomes, and the connections that ask for secrets     *)
(*            (app/src/keychain.rs, bridge/keychain.rs, app/src/ssh.rs);   *)
(*   known    OpenSesh's known_hosts, written by the worker and by the     *)
(*            connections (opensesh-vault/src/known_hosts.rs);             *)
(*   bundle   a bundle's keychain imported, with failures between its      *)
(*            writes (opensesh-vault/src/transfer.rs);                     *)
(*   match    a known_hosts line's patterns against a host name.           *)
(***************************************************************************)
EXTENDS Integers, Sequences, FiniteSets, SequencesExt

CONSTANTS None,
          FreeAttempts, FirstDelay, MaxDelay,
          MaxTime,      \* bound: seconds
          MaxTries,     \* bound: wrong passwords
          MaxJobs,      \* bound: jobs submitted or requested
          MaxWrites,    \* bound: writes of known_hosts by connections
          Bundles,      \* the bundles imported
          MaxImports,   \* bound: imports of it
          MaxFaults,    \* bound: writes that fail
          Patterns      \* [patterns, name] for the match lane

VARIABLES lane, w, j, k, b, m

serviceVars == <<lane, w, j, k, b, m>>

-----------------------------------------------------------------------------
(* wait.  `real` is time as it passes, `now` what the clock says.           *)

\* Backoff::delay_after
Doubled == [n \in 0..16 |-> FirstDelay * 2^n]
delay_after(failures) ==
    IF failures < FreeAttempts THEN 0
    ELSE LET n == IF failures - FreeAttempts > 16 THEN 16 ELSE failures - FreeAttempts
         IN  IF Doubled[n] > MaxDelay THEN MaxDelay ELSE Doubled[n]

NoFailures == [failures |-> 0, last |-> 0]

\* Backoff::save, which may fail (and is only logged).
Saved(s, ok) == IF ok THEN [s EXCEPT !.file = s.mem] ELSE [s EXCEPT !.unsaved = TRUE]

\* The part of Backoff::wait that changes the state: a last failure in the
\* future.
NoticeClock(s, ok) ==
    IF delay_after(s.mem.failures) > 0 /\ s.mem.last > s.now
    THEN Saved([s EXCEPT !.mem.last = s.now], ok)
    ELSE s

\* Backoff::wait's answer.
Wait(s) ==
    LET left == delay_after(s.mem.failures) - (s.now - s.mem.last)
    IN  IF delay_after(s.mem.failures) = 0 \/ left < 0 THEN 0 ELSE left

WaitInit ==
    [now |-> MaxTime, real |-> 0, mem |-> NoFailures, file |-> NoFailures, unsaved |-> FALSE,
     back |-> FALSE, tries |-> 0,
     wrong |-> 0, at |-> 0, from |-> -1,  \* history: wrong ones in a row, the last one, the
                                          \* first refusal after it or a clock change
     early |-> FALSE, late |-> FALSE]

In(l) == lane = l
Only(l) ==
    /\ l # "wait" => w' = w
    /\ l # "jobs" => j' = j
    /\ l # "known" => k' = k
    /\ l # "bundle" => b' = b
    /\ UNCHANGED <<lane, m>>

\* Backoff::failed and Backoff::succeeded
Failed(s, ok) ==
    Saved([s EXCEPT !.mem = [failures |-> s.mem.failures + 1, last |-> s.now],
                    !.wrong = @ + 1, !.at = s.real, !.from = -1], ok)
Succeeded(s) == [s EXCEPT !.mem = NoFailures, !.file = NoFailures, !.wrong = 0, !.at = s.real]

\* try_password: of unlock, change_password and remove_password.
TryPassword(right, ok) ==
    /\ In("wait") /\ Only("wait") /\ w.tries < MaxTries
    /\ LET s == NoticeClock([w EXCEPT !.tries = @ + 1], ok)
           checked == [s EXCEPT !.early = @ \/ s.real - s.at < delay_after(s.wrong)]
       IN  w' = IF Wait(s) > 0
                THEN [s EXCEPT !.from = IF @ = -1 THEN s.real ELSE @,
                               !.late = @ \/ (s.from # -1 /\ s.real - s.from >= delay_after(s.wrong))]
                ELSE IF right THEN Succeeded(checked) ELSE Failed(checked, ok)

\* Worker::snapshot asks for the wait after every job.
SnapshotWait(ok) == In("wait") /\ Only("wait") /\ w' = NoticeClock(w, ok)

Tick ==
    /\ In("wait") /\ Only("wait") /\ w.real < MaxTime
    /\ w' = [w EXCEPT !.real = @ + 1, !.now = @ + 1]

\* The system's clock is set back, once.
ClockBack(by) ==
    /\ In("wait") /\ Only("wait") /\ ~w.back /\ by <= w.now
    /\ w' = [w EXCEPT !.now = @ - by, !.back = TRUE, !.from = -1]

\* The app starts again: Backoff::load.
RestartApp == In("wait") /\ Only("wait") /\ w' = [w EXCEPT !.mem = w.file]

-----------------------------------------------------------------------------
(* jobs.  One saved host (its password: 1 or 2, 0 for none) with an         *)
(* identity whose password is 9.                                            *)

Job(kind, v, token) == [kind |-> kind, v |-> v, token |-> token]
Touches(job) == job.kind \in {"set", "clear", "forget"}

\* initialize: the first job asks the keyring for the vault's key.
JobsInit(status, keyring, host) ==
    [queue |-> <<Job("unlockWithKeyring", 0, 1)>>, running |-> None, step |-> "idle", made |-> 0,
     status |-> status, keyring |-> keyring, host |-> host,
     holder |-> "password",              \* of the vault's key; or "keyring"
     library |-> host # 0,               \* LIBRARY: has_host_secrets
     posts |-> <<>>,                     \* outcomes queued for the GUI thread
     next |-> 1, inFlight |-> 1, busy |-> TRUE, shown |-> "missing",
     told |-> host,                         \* history: what the user was told is saved
     fetch |-> None]                     \* a connection's fetch: what it must get

\* Worker::open_vault
OpenVault(s) ==
    IF s.status = "locked" /\ s.keyring THEN [s EXCEPT !.status = "unlocked"] ELSE s

\* Keychain::ensure_vault: a missing vault is created for the keyring.
EnsureVault(s) ==
    IF s.status = "missing" /\ s.keyring
    THEN [s EXCEPT !.status = "unlocked", !.holder = "keyring"] ELSE s

\* Worker::run, for the jobs that change something here: the state and a code.
RunJob(s, job) ==
    CASE job.kind = "set" ->
           LET o == EnsureVault(OpenVault(s))
           IN  IF o.status = "unlocked" THEN <<[o EXCEPT !.host = job.v], "">> ELSE <<o, "locked">>
      [] job.kind = "clear" -> <<[OpenVault(s) EXCEPT !.host = 0], "">>
      [] job.kind = "forget" -> <<[s EXCEPT !.host = 0], "">>
      [] job.kind = "lock" ->
           <<[s EXCEPT !.status = IF @ = "unlocked" THEN "locked" ELSE @], "">>
      [] job.kind = "unlock" ->
           IF s.status = "missing" THEN <<s, "missing">>
           ELSE IF s.status = "unlocked" THEN <<s, "">>
           ELSE IF s.holder = "keyring" THEN <<s, "wrong-mode">>
           ELSE IF job.v = 1 THEN <<[s EXCEPT !.status = "unlocked"], "">>
           ELSE <<s, "wrong-password">>
      [] job.kind = "unlockWithKeyring" -> <<OpenVault(s), "">>
      [] job.kind = "key" -> LET o == EnsureVault(s)
                             IN  <<o, IF o.status = "unlocked" THEN "" ELSE "locked">>
      [] OTHER -> <<s, "">>

Locked == 0   \* Err("locked")

\* Worker::identity_secrets, then the host's own: what a connection gets.
ConnectionSecrets(s, withHost) ==
    LET o == OpenVault(s)
    IN  IF o.status # "unlocked" THEN <<o, Locked>>
        ELSE <<o, IF withHost /\ o.host # 0 THEN o.host ELSE 9>>

JobsLane == In("jobs") /\ Only("jobs")
Made == j.made < MaxJobs

\* submit: a job of the QML singleton, with a token.  A set or clear makes what
\* the fetch under way gets uncertain.
Uncertain(s, job) ==
    IF Touches(job) /\ s.fetch # None THEN [s EXCEPT !.fetch.must = None] ELSE s
Submit(kind, v) ==
    /\ JobsLane /\ Made
    /\ LET job == Job(kind, v, j.next + 1)
       IN  j' = Uncertain([j EXCEPT !.made = @ + 1, !.next = @ + 1, !.queue = Append(@, job),
                                    !.inFlight = @ + 1, !.busy = TRUE], job)

\* The invokables of the QML singleton, each one job: a host's password; locking
\* and unlocking; a key made or imported; what leaves the vault as it is.
HostJobs == {<<"set", 1>>, <<"set", 2>>, <<"clear", 0>>}
LockJobs == {<<"unlock", 0>>, <<"unlock", 1>>, <<"unlockWithKeyring", 0>>, <<"lock", 0>>}
KeyJobs == {<<"key", 0>>}
ListJobs == {<<"list", 0>>}

\* request: from the rest of the app, and the watcher's Reload; token 0.
Request(kind, v) ==
    /\ JobsLane /\ Made
    /\ LET job == Job(kind, v, 0)
       IN  j' = Uncertain([j EXCEPT !.made = @ + 1, !.queue = Append(@, job)], job)

\* Whether the system's keyring has the vault's key can change at any time.
KeyringChanges ==
    /\ JobsLane /\ Made
    /\ j' = [j EXCEPT !.made = @ + 1, !.keyring = ~@]

\* The worker takes a job.  A connection's is answered at once, its outcome is
\* not sent.
TakeJob ==
    /\ JobsLane /\ j.step = "idle" /\ j.queue # <<>>
    /\ LET job == Head(j.queue)
           s == [j EXCEPT !.queue = Tail(@)]
       IN  j' = IF job.kind = "secrets"
                THEN LET r == ConnectionSecrets(s, job.v = 1)
                     IN  [r[1] EXCEPT !.fetch.got = r[2]]
                ELSE LET r == RunJob(s, job)
                     IN  [r[1] EXCEPT !.running = [job |-> job, code |-> r[2]], !.step = "ran"]

Post == [job |-> j.running.job, code |-> j.running.code, status |-> j.status]

\* Mutant: the outcome is sent before the library is published.
PublishAndSendLate ==
    \/ /\ JobsLane /\ j.step = "ran"
       /\ j' = [j EXCEPT !.step = "published", !.running = None, !.posts = Append(@, Post)]
    \/ /\ JobsLane /\ j.step = "published"
       /\ j' = [j EXCEPT !.step = "idle", !.library = j.host # 0]

\* publish, then send.
PublishAndSend ==
    \/ /\ JobsLane /\ j.step = "ran"
       /\ j' = [j EXCEPT !.step = "published", !.library = j.host # 0]
    \/ /\ JobsLane /\ j.step = "published"
       /\ j' = [j EXCEPT !.step = "idle", !.running = None, !.posts = Append(@, Post)]

LessInFlight(post) ==
    IF post.job.token = 0 THEN j.inFlight ELSE IF j.inFlight > 0 THEN j.inFlight - 1 ELSE 0

\* apply, on the GUI thread
Apply ==
    /\ JobsLane /\ j.posts # <<>>
    /\ LET post == Head(j.posts)
       IN  j' = [j EXCEPT !.posts = Tail(@), !.inFlight = LessInFlight(post),
                          !.busy = LessInFlight(post) > 0, !.shown = post.status,
                          !.told = IF post.code # "" THEN @
                                   ELSE IF post.job.kind = "set" THEN post.job.v
                                   ELSE IF post.job.kind \in {"clear", "forget"} THEN 0 ELSE @]

\* KeychainSource::fetch: a connection authenticates.  The library says whether
\* the host's own secrets are asked for.  (What it must get is known when no
\* change of them is under way.)
Outstanding ==
    \E job \in ToSet(j.queue) \cup (IF j.running = None THEN {} ELSE {j.running.job})
                \cup {p.job : p \in ToSet(j.posts)} : Touches(job)
Fetch ==
    /\ JobsLane /\ Made /\ (j.fetch = None \/ (j.fetch # None /\ j.fetch.got # None))
    /\ j' = [j EXCEPT !.made = @ + 1, !.queue = Append(@, Job("secrets", IF j.library THEN 1 ELSE 0, 0)),
                      !.fetch = [must |-> IF Outstanding THEN None
                                          ELSE IF j.told # 0 THEN j.told ELSE 9,
                                 got |-> None]]

-----------------------------------------------------------------------------
(* known.  A line is a host and its key; the worker and two connections     *)
(* read the file, change what they read and write it, each in two steps and *)
(* with no lock.                                                            *)

Connections == {1, 2}

KnownInit ==
    [file |-> <<[host |-> "a", key |-> 1], [host |-> "b", key |-> 2], [host |-> "c", key |-> 3]>>,
     writes |-> 0,
     asked |-> None,       \* ForgetKnownHost: the line and key the user saw
     checked |-> FALSE,    \* forget_known_host found it there
     reader |-> None,      \* forget: what it read
     adder |-> [c \in Connections |-> None], \* remember: what it read, the host and key
     moved |-> FALSE,      \* history: a write between forget_known_host's check and forget
     accepted |-> {},      \* history: what the user accepted last for each host
     raced |-> {},         \* history: what a write that had read the file before
                           \* it was there went over
     wrong |-> FALSE]      \* history: a line with another key was removed

KnownLane == In("known") /\ Only("known")
DropLine(text, line) == IF line \in DOMAIN text THEN RemoveAt(text, line) ELSE text

\* The user asks to forget an entry of the list shown.
AskForget(line) ==
    /\ KnownLane /\ k.asked = None
    /\ k' = [k EXCEPT !.asked = [line |-> line, key |-> k.file[line].key,
                                 host |-> k.file[line].host]]

StillThere(s) == s.asked.line <= Len(s.file) /\ s.file[s.asked.line].key = s.asked.key

\* forget_known_host: known_hosts::read and the check.
CheckForget ==
    /\ KnownLane /\ k.asked # None /\ ~k.checked
    /\ k' = IF StillThere(k) THEN [k EXCEPT !.checked = TRUE, !.moved = FALSE]
            ELSE [k EXCEPT !.asked = None]

\* What a write of `text`, read a while ago, loses of the file.
Over(text) == {l \in ToSet(k.file) : l \notin ToSet(text)}

Removed == {k.reader[n] : n \in DOMAIN k.reader \cap {k.asked.line}}

\* known_hosts::forget reads the file again and writes it.
ReadForget ==
    /\ KnownLane /\ k.checked /\ k.reader = None
    /\ k' = [k EXCEPT !.reader = k.file]
WriteForget ==
    /\ KnownLane /\ k.reader # None
    /\ k' = [k EXCEPT !.file = DropLine(k.reader, k.asked.line), !.reader = None,
                      !.checked = FALSE, !.asked = None,
                      !.raced = @ \cup Over(k.reader),
                      !.wrong = @ \/ (~k.moved /\ \E l \in Removed : l.key # k.asked.key),
                      !.accepted = @ \ Removed]

\* A connection's host key is accepted: known_hosts::remember, in a blocking task
\* of each connection.
ReadRemember(c, host, key) ==
    /\ KnownLane /\ k.adder[c] = None /\ k.writes < MaxWrites
    /\ k' = [k EXCEPT !.writes = @ + 1,
                      !.adder[c] = [text |-> k.file, host |-> host, key |-> key]]
Replaced(text, host) == SelectSeq(text, LAMBDA l : l.host # host)
WriteRemember(c) ==
    /\ KnownLane /\ k.adder[c] # None
    /\ LET a == k.adder[c]
           line == [host |-> a.host, key |-> a.key]
       IN  k' = [k EXCEPT !.file = Append(Replaced(a.text, a.host), line),
                          !.adder[c] = None, !.moved = @ \/ k.reader = None,
                          !.raced = (@ \cup Over(a.text)) \ {line},
                          !.accepted = {l \in @ : l.host # line.host} \cup {line}]

-----------------------------------------------------------------------------
(* bundle.  A key is [id, print]; an identity [id, name, key (an id or      *)
(* None)].  Ids made here are "n1", "n2"...                                 *)

BundleInit(bundle) ==
    [bundle |-> bundle.sent, keys |-> bundle.keys, identities |-> bundle.identities,
     made |-> 0, imports |-> 0, faults |-> 0,
     at |-> 0,              \* the entry it is at (0: no import running), keys first
     fresh |-> None,        \* a record just added, its bundle id not kept yet
     keyIds |-> <<>>,       \* key_ids: pairs
     map |-> <<>>,          \* BundleImport::identities: pairs
     done |-> FALSE,        \* the last import ended without an error
     was |-> FALSE,         \* history: an earlier one did
     again |-> 0]           \* history: records it added

BundleLane == In("bundle") /\ Only("bundle")
Lookup(pairs, key) ==
    LET hits == {i \in 1..Len(pairs) : pairs[i][1] = key}
    IN  IF hits = {} THEN None ELSE pairs[CHOOSE i \in hits : TRUE][2]
NewId == <<"n1", "n2", "n3", "n4", "n5", "n6", "n7", "n8">>[b.made + 1]
Entry == b.bundle[b.at]

StartImport ==
    /\ BundleLane /\ b.at = 0 /\ b.imports < MaxImports
    /\ b' = [b EXCEPT !.imports = @ + 1, !.at = 1, !.keyIds = <<>>, !.map = <<>>, !.done = FALSE,
                      !.was = @ \/ b.done, !.again = 0]

Next1(s) == IF s.at = Len(s.bundle) THEN [s EXCEPT !.at = 0, !.done = TRUE] ELSE [s EXCEPT !.at = @ + 1]

\* key_by_fingerprint
KnownKey(print) ==
    LET hits == {i \in 1..Len(b.keys) : b.keys[i].print = print}
    IN  IF hits = {} THEN None ELSE b.keys[CHOOSE i \in hits : TRUE].id

\* An identity with the same name and key (its user is not told apart here).
SameIdentity(name, key) ==
    LET hits == {i \in 1..Len(b.identities) : b.identities[i].name = name /\ b.identities[i].key = key}
    IN  IF hits = {} THEN None ELSE b.identities[CHOOSE i \in hits : \A h \in hits : i <= h].id

\* One entry: known, without its secret, or added (add_key, save_identity).
ImportKey ==
    /\ BundleLane /\ b.at > 0 /\ b.fresh = None /\ Entry.kind = "key"
    /\ b' = IF KnownKey(Entry.print) # None
            THEN Next1([b EXCEPT !.keyIds = Append(@, <<Entry.id, KnownKey(Entry.print)>>)])
            ELSE IF ~Entry.secret THEN Next1(b)
            ELSE [b EXCEPT !.keys = Append(@, [id |-> NewId, print |-> Entry.print]),
                           !.fresh = NewId, !.made = @ + 1, !.again = @ + 1]
ImportIdentity ==
    /\ BundleLane /\ b.at > 0 /\ b.fresh = None /\ Entry.kind = "identity"
    /\ LET key == Lookup(b.keyIds, Entry.key)
           same == SameIdentity(Entry.name, key)
       IN  b' = IF same # None THEN Next1([b EXCEPT !.map = Append(@, <<Entry.id, same>>)])
                ELSE [b EXCEPT !.identities = Append(@, [id |-> NewId, name |-> Entry.name, key |-> key]),
                               !.fresh = NewId, !.made = @ + 1, !.again = @ + 1]

Taken(kind, id) ==
    id \in {r.id : r \in ToSet(IF kind = "key" THEN b.keys ELSE b.identities)}

\* keep_id: a write of its own.
KeepId ==
    /\ BundleLane /\ b.fresh # None
    /\ LET id == IF Taken(Entry.kind, Entry.id) THEN b.fresh ELSE Entry.id
           named == [i \in 1..Len(b.keys) |->
                        IF Entry.kind = "key" /\ b.keys[i].id = b.fresh
                        THEN [b.keys[i] EXCEPT !.id = id] ELSE b.keys[i]]
           owned == [i \in 1..Len(b.identities) |->
                        LET r == b.identities[i]
                        IN  IF Entry.kind = "identity" /\ r.id = b.fresh THEN [r EXCEPT !.id = id]
                            ELSE IF Entry.kind = "key" /\ r.key = b.fresh THEN [r EXCEPT !.key = id]
                            ELSE r]
           s == [b EXCEPT !.keys = named, !.identities = owned, !.fresh = None]
       IN  b' = Next1(IF Entry.kind = "key"
                      THEN [s EXCEPT !.keyIds = Append(@, <<Entry.id, id>>)]
                      ELSE [s EXCEPT !.map = Append(@, <<Entry.id, id>>)])

\* A write of keychain.toml fails: the import ends with an error, what it had
\* added stays.
ImportFails ==
    /\ BundleLane /\ b.at > 0 /\ b.faults < MaxFaults
    /\ b' = [b EXCEPT !.at = 0, !.fresh = None, !.faults = @ + 1]

-----------------------------------------------------------------------------
(* match *)

\* wildcard: `*` matches any run of characters, `?` any one.
RECURSIVE wildcard(_, _)
wildcard(pattern, name) ==
    IF pattern = <<>> THEN name = <<>>
    ELSE IF Head(pattern) = "*"
         THEN \E skip \in 0..Len(name) : wildcard(Tail(pattern), SubSeq(name, skip + 1, Len(name)))
    ELSE name # <<>> /\ Head(pattern) \in {"?", Head(name)} /\ wildcard(Tail(pattern), Tail(name))

\* patterns_match: some pattern matches and no `!` pattern does.
patterns_match(patterns, name) ==
    FoldLeft(LAMBDA acc, p :
               IF acc = "never" THEN acc
               ELSE IF ~wildcard(p.text, name) THEN acc
               ELSE IF p.negated THEN "never" ELSE "yes", "no", patterns) = "yes"

-----------------------------------------------------------------------------
ServiceInit ==
    /\ lane \in {"wait", "jobs", "known", "bundle", "match"}
    /\ w = IF lane = "wait" THEN WaitInit ELSE None
    /\ IF lane = "jobs"
       THEN \E keyring \in BOOLEAN :
              \/ j = JobsInit("missing", keyring, 0)
              \/ \E host \in {0, 1} : j = JobsInit("locked", keyring, host)
       ELSE j = None
    /\ k = IF lane = "known" THEN KnownInit ELSE None
    /\ IF lane = "bundle" THEN \E x \in Bundles : b = BundleInit(x) ELSE b = None
    /\ IF lane = "match" THEN m \in Patterns ELSE m = None

ServiceNext ==
    \/ \E right, ok \in BOOLEAN : TryPassword(right, ok)
    \/ \E ok \in BOOLEAN : SnapshotWait(ok)
    \/ Tick \/ RestartApp
    \/ \E by \in 1..MaxTime : ClockBack(by)
    \/ \E job \in HostJobs \cup LockJobs \cup KeyJobs \cup ListJobs : Submit(job[1], job[2])
    \/ (\E v \in {1, 2} : Request("set", v)) \/ Request("forget", 0) \/ Request("reload", 0)
    \/ KeyringChanges \/ TakeJob \/ PublishAndSend \/ Apply \/ Fetch
    \/ k # None /\ \E line \in 1..Len(k.file) : AskForget(line)
    \/ CheckForget \/ ReadForget \/ WriteForget \/ (\E c \in Connections : WriteRemember(c))
    \/ \E c \in Connections, host \in {"a", "d"}, key \in {2, 4} : ReadRemember(c, host, key)
    \/ StartImport \/ ImportKey \/ ImportIdentity \/ KeepId \/ ImportFails

ServiceSpec == ServiceInit /\ [][ServiceNext]_serviceVars

-----------------------------------------------------------------------------
(***************************************************************************)
(* Properties                                                              *)
(***************************************************************************)

\* As long as vault-attempts.toml could be written, no password is checked
\* before the wait after the wrong ones before it is over, whatever restarts
\* and clock changes come between, and none is refused for longer than one
\* wait from the first refusal, unless the clock changes again (try_password, Backoff).
WaitsHold == In("wait") /\ ~w.unsaved => ~w.early /\ ~w.late

\* The singleton is busy exactly while a request of its own has no answer yet,
\* and a connection that authenticates after the user was told that the host's
\* password was saved (or cleared) gets it (submit, apply, fetch, publish).
JobsAnswered ==
    In("jobs") =>
      LET own(s) == Cardinality({i \in 1..Len(s) : s[i].token # 0})
      IN  /\ j.inFlight = own(j.queue) + own([i \in 1..Len(j.posts) |-> j.posts[i].job])
                + (IF j.running # None /\ j.running.job.token # 0 THEN 1 ELSE 0)
          /\ j.busy = (j.inFlight > 0)
          /\ (j.fetch # None /\ j.fetch.got # None) =>
                j.fetch.got = Locked \/ j.fetch.must = None \/ j.fetch.got = j.fetch.must

\* Whatever removals and additions overlap, every host has one key.  A removal
\* takes away another line than the user chose only if the file was written since
\* the check; a key the user accepted stays until its line is removed, unless a
\* write of somebody who had read the file before it was there went over it
\* (forget_known_host, remember: no lock is held between reading and writing).
KnownHostsKept ==
    In("known") =>
      /\ ~k.wrong
      /\ \A x, y \in 1..Len(k.file) : k.file[x].host = k.file[y].host => x = y
      /\ k.accepted \subseteq ToSet(k.file) \cup k.raced

\* However often a bundle is imported and wherever an import fails: ids stay
\* unique, a key is here once, an import that ended maps each of the bundle's
\* identities to one here with the same name and the same key, and another
\* import of it adds nothing (import_bundle, keep_id).
ImportOnce ==
    In("bundle") =>
      /\ \A x, y \in 1..Len(b.keys) :
            x # y => b.keys[x].id # b.keys[y].id /\ b.keys[x].print # b.keys[y].print
      /\ \A x, y \in 1..Len(b.identities) : x # y => b.identities[x].id # b.identities[y].id
      /\ b.done =>
           /\ \A e \in ToSet(b.bundle) : e.kind = "identity" =>
                 \E r \in ToSet(b.identities) :
                    /\ r.id = Lookup(b.map, e.id) /\ r.name = e.name
                    /\ r.key = Lookup(b.keyIds, e.key)
           /\ b.was => b.again = 0

\* A pattern matches the names of its language: the texts it stands for.
RECURSIVE Language(_, _)
Language(pattern, texts) ==
    IF pattern = <<>> THEN {<<>>}
    ELSE {u \o v : u \in IF Head(pattern) = "*" THEN texts
                         ELSE IF Head(pattern) = "?" THEN {t \in texts : Len(t) = 1}
                         ELSE {<<Head(pattern)>>},
                   v \in Language(Tail(pattern), texts)}
\* A line is about a host when some pattern of it stands for its name and no
\* negated one does (patterns_match, wildcard).
PatternsRight ==
    In("match") =>
      LET texts == {SubSeq(m.name, x, y) : x \in 1..Len(m.name) + 1, y \in 0..Len(m.name)}
          stands(p) == m.name \in Language(p.text, texts)
          ps == ToSet(m.patterns)
      IN  patterns_match(m.patterns, m.name) =
             ((\E p \in ps : ~p.negated /\ stands(p)) /\ ~\E p \in ps : p.negated /\ stands(p))

=============================================================================
