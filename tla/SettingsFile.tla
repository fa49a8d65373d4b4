---------------------------- MODULE SettingsFile ----------------------------
(***************************************************************************)
(* config.toml and keybindings.toml as documents: what core/src/config.rs  *)
(* and core/src/keybindings.rs read from a text somebody wrote by hand,    *)
(* what the settings singletons (app/src/bridge/settings.rs and            *)
(* keybindings.rs) take from the user, and what they write back.  How      *)
(* their saves race with reloads is ConfigReload's and HostsReload's       *)
(* subject: here a save lands before anybody else changes the file.        *)
(*                                                                         *)
(* One key stands for each kind of setting (13 choices and 17 flags behave *)
(* like the two here).  A value is tagged with its TOML type; a scale is   *)
(* in tenths.                                                              *)
(***************************************************************************)
EXTENDS Integers, Sequences

CONSTANTS
    NoFile, Broken,  \* no file, or one that is not TOML
    Given,     \* key -> the values somebody may have typed for it
    MaxSets    \* bound: changes, here or by somebody else

Value(t, n, s, l) == [t |-> t, n |-> n, s |-> s, l |-> l]
Integer(n) == Value("integer", n, "", <<>>)
Float(n) == Value("float", n, "", <<>>)
String(s) == Value("string", 0, s, <<>>)
Bool(b) == Value("boolean", IF b THEN 1 ELSE 0, "", <<>>)
Array(l) == Value("array", 0, "", l)
NoEntry == Value("absent", 0, "", <<>>)

Keys == {"language", "theme", "motion", "scale", "font", "profile", "lock", "order",
         "keepalive", "interval", "metrics", "parallel"}

MAXLOCKAFTERMINUTES == 24 * 60
MAXKEEPALIVESECS == 3600
MAXPARALLELTRANSFERS == 16
Methods == {"publickey", "keyboard-interactive", "password"}
Metrics == {"cpu", "memory"}

VARIABLES
    file,      \* config.toml: a document, Broken or NoFile
    config,    \* AppSettings.config: key -> value, and the unknown keys
    warned,    \* AppSettings.warnings: the keys named
    prot,      \* Protection
    told,      \* blocked_reported
    outside,   \* the SSH defaults every host was given
    pending,   \* a document queued on the writer, or NoFile
    theirs,    \* history: what somebody else last left in the file
    keysFile, bindings, keysTheirs,  \* the same for keybindings.toml
    subject,  \* which of the two files this behavior is about
    sets

fileVars == <<file, config, warned, prot, told, outside, pending, theirs>>
keyVars == <<keysFile, bindings, keysTheirs>>
settingsVars == <<fileVars, keyVars, subject, sets>>

-----------------------------------------------------------------------------
\* What the texts may be: " x" stands for a text with spaces around it.
Trim(s) == IF s = " x" THEN "x" ELSE s
TrimAll(l) == [i \in DOMAIN l |-> Trim(l[i])]
NoneTwice(l) == \A i, j \in DOMAIN l : l[i] = l[j] => i = j

\* valid_language, valid_id, the choices' from_str
ValidLanguage(s) == s \in {"system", "pseudo", "es", "pt_BR"}
ValidId(s) == s \in {"default", "x"}
ValidChoice(s) == s \in {"system", "dark", "light"}
\* valid_ui_scale: 0.5 to 3 (NaN and infinity are 0)
ValidUiScale(n) == n \in 5..30
\* SshSettings::valid_auth_order, valid_monitor_metrics
ValidAuthOrder(l) == l # <<>> /\ (\A i \in DOMAIN l : l[i] \in Methods) /\ NoneTwice(l)
ValidMonitorMetrics(l) == (\A i \in DOMAIN l : l[i] \in Metrics) /\ NoneTwice(l)

\* Reader: what each of its functions takes; NoEntry when it keeps the default.
Boolean(v) == IF v.t = "boolean" THEN v ELSE NoEntry
Text(v) == IF v.t = "string" THEN v ELSE NoEntry
Language(v) == IF v.t = "string" /\ ValidLanguage(v.s) THEN v ELSE NoEntry
Choice(v) == IF v.t = "string" /\ ValidChoice(v.s) THEN v ELSE NoEntry
Scale(v) ==
    LET n == IF v.t = "integer" THEN 10 * v.n ELSE v.n
    IN IF v.t \in {"integer", "float"} /\ ValidUiScale(n) THEN Float(n) ELSE NoEntry
Bounded(v, max) == IF v.t = "integer" /\ v.n \in 0..max THEN v ELSE NoEntry
Minutes(v) == Bounded(v, MAXLOCKAFTERMINUTES)
AuthOrder(v) ==
    IF v.t = "array" /\ ValidAuthOrder(TrimAll(v.l)) THEN Array(TrimAll(v.l)) ELSE NoEntry
MonitorMetrics(v) ==
    IF v.t = "array" /\ ValidMonitorMetrics(TrimAll(v.l)) THEN Array(TrimAll(v.l)) ELSE NoEntry

\* Config::from_toml_str: the sections' keys, and the checks made after the
\* Reader's (a profile id, an interval and a number of transfers of at least 1).
Profile(v) == IF v.t = "string" /\ ValidId(v.s) THEN v ELSE NoEntry
AtLeastOne(v) == IF v.n >= 1 THEN v ELSE NoEntry

Take(k, v) ==
    CASE k = "language" -> Language(v)
      [] k = "theme" -> Choice(v)
      [] k = "motion" -> Boolean(v)
      [] k = "scale" -> Scale(v)
      [] k = "font" -> Text(v)
      [] k = "profile" -> Profile(v)
      [] k = "lock" -> Minutes(v)
      [] k = "order" -> AuthOrder(v)
      [] k = "keepalive" -> Bounded(v, MAXKEEPALIVESECS)
      [] k = "interval" -> AtLeastOne(Bounded(v, 60))
      [] k = "metrics" -> MonitorMetrics(v)
      [] k = "parallel" -> AtLeastOne(Bounded(v, MAXPARALLELTRANSFERS))

\* General, Appearance, TerminalConfig, Security, SshSettings, SftpSettings::default
Default == [k \in Keys |->
    CASE k = "language" -> String("system")
      [] k = "theme" -> String("system")
      [] k = "motion" -> Bool(FALSE)
      [] k = "scale" -> Float(10)
      [] k = "font" -> String("")
      [] k = "profile" -> String("default")
      [] k = "lock" -> Integer(0)
      [] k = "order" -> Array(<<"publickey", "keyboard-interactive", "password">>)
      [] k = "keepalive" -> Integer(30)
      [] k = "interval" -> Integer(3)
      [] k = "metrics" -> Array(<<"cpu">>)
      [] k = "parallel" -> Integer(3)]

\* A document: its schema_version, whether [ssh] is a table, its keys, and the
\* keys and sections this version does not know.
Doc(version, table, values, extra) ==
    [version |-> version, table |-> table, values |-> values, extra |-> extra]
IsDoc(f) == f \notin {NoFile, Broken}
Ssh == {"order", "keepalive", "interval", "metrics"}

\* from_toml_str: each key alone; a warning for every one that is not used.
Parse(doc) ==
    LET seen(k) == IF k \in Ssh /\ ~doc.table THEN NoEntry ELSE doc.values[k]
        got(k) == IF seen(k) = NoEntry THEN NoEntry ELSE Take(k, seen(k))
        odd == doc.version # NoEntry /\ (doc.version.t # "integer" \/ doc.version.n # 1)
    IN [values |-> [k \in Keys |-> IF got(k) = NoEntry THEN Default[k] ELSE got(k)],
        extra |-> doc.extra,
        warned |-> {k \in Keys : seen(k) # NoEntry /\ got(k) = NoEntry} \cup doc.extra
                     \cup (IF doc.table THEN {} ELSE {"ssh"})
                     \cup (IF odd THEN {"schema_version"} ELSE {}),
        newer |-> doc.version.t = "integer" /\ doc.version.n > 1]

\* to_toml_string
ToToml(c) == Doc(Integer(1), TRUE, c.values, c.extra)

\* SshSettings::host_defaults, given by apply_outside
HostDefaults(c) == [k \in {"order", "keepalive"} |-> c.values[k]]

-----------------------------------------------------------------------------
Sets(what) == subject = what /\ sets < MaxSets /\ sets' = sets + 1 /\ UNCHANGED subject

\* apply_reload: a file that cannot be used leaves the settings as they are.
ApplyReload(f) ==
    IF f = Broken
    THEN /\ warned' = {"unreadable"}
         /\ prot' = "unreadable"
         /\ UNCHANGED <<config, outside>>
    ELSE LET r == IF f = NoFile
                  THEN [values |-> Default, extra |-> {}, warned |-> {}, newer |-> FALSE]
                  ELSE Parse(f)
         IN /\ config' = [values |-> r.values, extra |-> r.extra]
            /\ warned' = r.warned
            /\ prot' = IF r.newer THEN "newer" ELSE "none"
            /\ outside' = HostDefaults(config')

\* read_config and file_changed, when somebody else changed the file.
FileChanged(f) ==
    /\ pending = NoFile /\ f # file /\ Sets("config")
    /\ file' = f /\ theirs' = f
    /\ ApplyReload(f)
    /\ told' = (told /\ prot' = prot)   \* set_protection
    /\ UNCHANGED <<pending, keyVars>>

\* save: not while the file is protected, which is reported once.
Save ==
    IF prot' = "none"
    THEN pending' = ToToml(config') /\ UNCHANGED told
    ELSE told' = TRUE /\ UNCHANGED pending

\* change: nothing is saved when nothing changed.
Change(k, v) ==
    /\ config' = [config EXCEPT !.values[k] = v]
    /\ UNCHANGED prot
    /\ outside' = HostDefaults(config')
    /\ IF config' = config THEN UNCHANGED <<pending, told>> ELSE Save
    /\ UNCHANGED <<file, warned, theirs, keyVars>>

\* Mutant: the slider's 0 is taken as "no limit".
SetSftpParallelZero(n) == IF n \in 0..MAXPARALLELTRANSFERS THEN Integer(n) ELSE NoEntry

\* The setters: each checks for itself, after trimming where it trims.
SetLanguage(s) == IF ValidLanguage(s) THEN String(s) ELSE NoEntry
SetChoice(s) == IF ValidChoice(s) THEN String(s) ELSE NoEntry
SetUiFont(s) == String(Trim(s))
SetTerminalProfile(s) == IF ValidId(Trim(s)) THEN String(Trim(s)) ELSE NoEntry
SetUiScale(n) == IF ValidUiScale(n) THEN Float(n) ELSE NoEntry
SetLockAfterMinutes(n) == IF n \in 0..MAXLOCKAFTERMINUTES THEN Integer(n) ELSE NoEntry
SetSshKeepaliveSecs(n) == IF n \in 0..MAXKEEPALIVESECS THEN Integer(n) ELSE NoEntry
SetSshMonitorInterval(n) == IF n \in 1..60 THEN Integer(n) ELSE NoEntry
SetSftpParallel(n) == IF n \in 1..MAXPARALLELTRANSFERS THEN Integer(n) ELSE NoEntry
SetSshAuthOrder(l) == IF ValidAuthOrder(TrimAll(l)) THEN Array(TrimAll(l)) ELSE NoEntry
SetSshMonitorMetrics(l) == IF ValidMonitorMetrics(TrimAll(l)) THEN Array(TrimAll(l)) ELSE NoEntry

Setter(k, v) ==
    CASE k = "language" -> SetLanguage(v.s)
      [] k = "theme" -> SetChoice(v.s)
      [] k = "motion" -> Bool(v.n = 1)
      [] k = "scale" -> SetUiScale(v.n)
      [] k = "font" -> SetUiFont(v.s)
      [] k = "profile" -> SetTerminalProfile(v.s)
      [] k = "lock" -> SetLockAfterMinutes(v.n)
      [] k = "order" -> SetSshAuthOrder(v.l)
      [] k = "keepalive" -> SetSshKeepaliveSecs(v.n)
      [] k = "interval" -> SetSshMonitorInterval(v.n)
      [] k = "metrics" -> SetSshMonitorMetrics(v.l)
      [] k = "parallel" -> SetSftpParallel(v.n)

\* What the interface passes has the property's type.
SetOption(k, v) ==
    /\ v.t = Default[k].t
    /\ Setter(k, v) # NoEntry
    /\ pending = NoFile /\ Sets("config")
    /\ Change(k, Setter(k, v))

\* reset_to_defaults: may replace a file that could not be read, never a newer
\* one; the unknown keys stay.
ResetToDefaults ==
    /\ pending = NoFile /\ Sets("config")
    /\ prot' = IF prot = "unreadable" THEN "none" ELSE prot
    /\ warned' = IF prot = "unreadable" THEN {} ELSE warned
    /\ config' = [values |-> Default, extra |-> config.extra]
    /\ outside' = HostDefaults(config')
    /\ IF config' = config /\ prot' = prot THEN UNCHANGED <<pending, told>>
       ELSE IF prot' = "none" THEN pending' = ToToml(config') /\ told' = (told /\ prot' = prot)
       ELSE told' = TRUE /\ UNCHANGED pending
    /\ UNCHANGED <<file, theirs, keyVars>>

\* The writer and write_done: the warnings of the text that was written.
WriteDone ==
    /\ pending # NoFile
    /\ file' = pending /\ pending' = NoFile
    /\ warned' = IF prot = "none" THEN Parse(pending).warned ELSE warned
    /\ UNCHANGED <<config, prot, told, outside, theirs, keyVars, subject, sets>>

-----------------------------------------------------------------------------
\* keybindings.toml: [newer, note (an unknown key), keys: action -> sequence].
Actions == {"close", "split"}
NoKeys == [a \in Actions |-> NoEntry]
KeysDoc(newer, note, keys) == [newer |-> newer, note |-> note, keys |-> keys]

\* valid_sequence ("bad" holds a control character)
ValidSequence(v) == v.t = "string" /\ v.s # "bad"

\* Keybindings::from_toml_str, load_file: entries that are not valid are
\* skipped, a broken file is read-only.
ParseKeys(f) ==
    IF f = NoFile THEN [keys |-> NoKeys, note |-> FALSE, ro |-> FALSE]
    ELSE IF f = Broken THEN [keys |-> NoKeys, note |-> FALSE, ro |-> TRUE]
    ELSE [keys |-> [a \in Actions |-> IF ValidSequence(f.keys[a]) THEN String(Trim(f.keys[a].s))
                                      ELSE NoEntry],
          note |-> f.note, ro |-> f.newer]

\* Keybindings::to_toml_string and save.
KeysToToml(b) == KeysDoc(FALSE, b.note, b.keys)
SaveKeys == keysFile' = IF bindings.ro THEN keysFile ELSE KeysToToml(bindings')

\* Keybindings::set: the default sequence is no change at all.
SetKeys(a, seq, default) ==
    /\ ValidSequence(String(Trim(seq)))
    /\ bindings' = [bindings EXCEPT !.keys[a] =
                      IF Trim(seq) = default THEN NoEntry ELSE String(Trim(seq))]

SetShortcut(a, seq) ==
    /\ Sets("keys") /\ SetKeys(a, seq, "x")
    /\ bindings' # bindings
    /\ SaveKeys
    /\ UNCHANGED <<fileVars, keysTheirs>>

\* reset, reset_all
ResetShortcuts(as) ==
    /\ Sets("keys") /\ \E a \in as : bindings.keys[a] # NoEntry
    /\ bindings' = [bindings EXCEPT !.keys = [a \in Actions |-> IF a \in as THEN NoEntry ELSE @[a]]]
    /\ SaveKeys
    /\ UNCHANGED <<fileVars, keysTheirs>>

\* The watcher, reload_in_background and apply_disk.
KeysChanged(f) ==
    /\ f # keysFile /\ Sets("keys")
    /\ keysFile' = f /\ keysTheirs' = f
    /\ bindings' = ParseKeys(f)
    /\ UNCHANGED fileVars

-----------------------------------------------------------------------------
\* Files somebody may leave: one key that differs, or one of the other oddities.
Typed == {Doc(Integer(1), TRUE, [Default EXCEPT ![k] = v], extra) :
            <<k, v, extra>> \in UNION {{k} \X Given[k] \X {{}, {"ssh.new", "section"}} : k \in Keys}}
Odd == {Doc(version, table, [k \in Keys |-> IF k = "keepalive" THEN Integer(5) ELSE NoEntry],
            {"section"}) :
          version \in {NoEntry, Integer(0), Integer(2), String("2")}, table \in BOOLEAN}
ConfigFiles == Typed \cup Odd \cup {NoFile, Broken}
KeysFiles == {KeysDoc(newer, note, [a \in Actions |-> IF a = "close" THEN v ELSE NoEntry]) :
                newer, note \in BOOLEAN, v \in {String("x"), String("bad"), Integer(3)}}
             \cup {NoFile, Broken}

\* initialize: the first read, from the defaults.
UInit ==
    /\ subject \in {"config", "keys"}
    /\ file \in IF subject = "config" THEN ConfigFiles ELSE {NoFile}
    /\ theirs = file
    /\ LET r == IF IsDoc(file) THEN Parse(file)
                ELSE [values |-> Default, extra |-> {}, warned |-> {}, newer |-> FALSE]
       IN /\ config = [values |-> r.values, extra |-> r.extra]
          /\ warned = IF file = Broken THEN {"unreadable"} ELSE r.warned
          /\ prot = IF file = Broken THEN "unreadable" ELSE IF r.newer THEN "newer" ELSE "none"
          /\ outside = HostDefaults(config)
    /\ told = FALSE /\ pending = NoFile
    /\ keysFile \in {NoFile, KeysDoc(TRUE, TRUE, [NoKeys EXCEPT !["close"] = String("F1")])}
    /\ keysTheirs = keysFile /\ bindings = ParseKeys(keysFile)
    /\ sets = 0

UNext ==
    \/ \E f \in Odd \cup {NoFile, Broken} : FileChanged(f)
    \/ \E k \in Keys : \E v \in Given[k] : SetOption(k, v)
    \/ ResetToDefaults \/ WriteDone
    \/ \E a \in Actions, seq \in {"", " x", "x", "F2", "bad"} : SetShortcut(a, seq)
    \/ \E as \in {{"close"}, Actions} : ResetShortcuts(as)
    \/ \E f \in KeysFiles : KeysChanged(f)

USpec == UInit /\ [][UNext]_settingsVars

-----------------------------------------------------------------------------
(***************************************************************************)
(* What is set is what is read back.  Once a save has landed, reading the  *)
(* files again gives the settings, the warnings and the shortcuts in use:  *)
(* no setter takes a value its reader refuses, and no file read leniently  *)
(* changes its meaning when it is written back.  The hosts always have the *)
(* SSH defaults of the settings in use.                                    *)
(***************************************************************************)
SavedReadsBack ==
    /\ outside = HostDefaults(config)
    /\ prot = "none" /\ pending = NoFile /\ IsDoc(file) =>
         /\ [values |-> Parse(file).values, extra |-> Parse(file).extra] = config
         /\ Parse(file).warned = warned
    /\ ~bindings.ro => ParseKeys(keysFile) = bindings

(***************************************************************************)
(* What is not ours stays.  A file of a newer version is never written     *)
(* here, one that could not be read only by a confirmed reset, and the     *)
(* keys this version does not know outlive every save.                     *)
(***************************************************************************)
NotOursStays ==
    /\ IsDoc(theirs) => /\ file.extra = theirs.extra
                        /\ Parse(theirs).newer => file = theirs
    /\ theirs = Broken /\ prot = "unreadable" => file = theirs
    /\ IsDoc(keysTheirs) => /\ keysFile.note = keysTheirs.note
                            /\ keysTheirs.newer => keysFile = keysTheirs
    /\ keysTheirs = Broken => keysFile = keysTheirs
=============================================================================
