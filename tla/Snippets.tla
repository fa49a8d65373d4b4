------------------------------ MODULE Snippets ------------------------------
(***************************************************************************)
(* Snippets and macros: what a snippet's text types (core/src/snippets.rs, *)
(* app/src/snippets.rs), runs that go through a macro's steps in a pane    *)
(* while the program prints, the macro recorder, and the file the Snippets *)
(* singleton (app/src/bridge/snippets.rs) edits, saves and reads again.    *)
(*                                                                         *)
(* A text is a sequence of tokens: "a" and "b" stand for any text, "n" for *)
(* a name, "pw" for what a secret holds; the braces and line ends are      *)
(* themselves.  Times are in twentieths of a second (50 ms).               *)
(***************************************************************************)
EXTENDS Integers, Sequences, FiniteSets, SequencesExt

CONSTANTS None,
          Panes,       \* the panes of the run
          Editors,     \* what the snippet editor can hold
          RawTables,   \* tables somebody else may have written in the file
          Keys,        \* what the user may type
          Gaps,        \* the times between two keys
          WaitBuffer,  \* WAIT_BUFFER: the tokens a wait keeps
          MaxText,     \* MAX_TEXT
          MaxIds,      \* bound: snippets ever made
          Budgets      \* bound: how much of each happens

Pause == 16            \* PAUSE: 800 ms
MaxWait == 12000       \* MAX_WAIT_MS
DefaultTimeout == 200  \* DEFAULT_TIMEOUT_MS

VARIABLES
    left,     \* what is left of the budget
    session,  \* the registry: the session of each pane (0: none)
    printed,  \* what each pane's session has printed
    job,      \* the run: [steps, secrets, state: none/fetching/spawned]
    task,     \* its task in each pane
    ended,    \* runEnded signals: [pane, code]
    record,   \* RECORDINGS: the pane's tap [on, typed] or None
    macro,    \* the steps recordStop returned, and what had been typed meanwhile
    mem,      \* the SnippetsFile in memory: [list, ro]
    disk,     \* the file: [kind, tables]
    base,     \* Baselines: the file as last read or written here
    saves,    \* the SaveTracker: [queued, done, wanted]
    write,    \* the write the writer holds back, or None
    inbox,    \* closures queued on the GUI thread
    reader,   \* what a reload thread has read
    dirty,    \* the watcher has seen a change
    lost,     \* history: a save failed, or was refused, and nothing was saved or read since
    made      \* ids given out

runVars == <<session, printed, job, task, ended, record, macro>>
storeVars == <<mem, disk, base, saves, write, inbox, reader, dirty, lost, made>>
snipVars == <<left, runVars, storeVars>>

-----------------------------------------------------------------------------
(* Text. *)

Plain(tokens) == [i \in 1..Len(tokens) |-> [kind |-> "text", of |-> <<tokens[i]>>]]

\* str::trim
Trim(s) ==
    LET solid == {i \in 1..Len(s) : s[i] # "sp"}
    IN  IF solid = {} THEN <<>>
        ELSE SubSeq(s, CHOOSE i \in solid : \A j \in solid : i <= j,
                       CHOOSE i \in solid : \A j \in solid : j <= i)

\* What stands between two braces: a secret, a variable, or (None) just text.
Reference(inside) ==
    CASE Len(inside) > 2 /\ inside[1] = "secret" /\ inside[2] = ":" ->
            [kind |-> "secret", of |-> Trim(SubSeq(inside, 3, Len(inside)))]
      [] Len(inside) <= 2 /\ inside # <<>> /\ ~({"{{", "LF"} \cap ToSet(inside) # {}) ->
            [kind |-> "variable", of |-> inside]
      [] OTHER -> None

\* parse: the parts of a text, plain text token by token.
parse(text) ==
    LET rest[i \in 1..Len(text) + 1] ==
          LET closes == {c \in i + 1..Len(text) : text[c] = "}}"}
              c == CHOOSE c \in closes : \A d \in closes : c <= d
              part == Reference(Trim(SubSeq(text, i + 1, c - 1)))
          IN  IF i > Len(text) THEN <<>>
              ELSE IF text[i] # "{{" \/ closes = {} THEN Plain(<<text[i]>>) \o rest[i + 1]
              ELSE (IF part = None THEN Plain(SubSeq(text, i, c)) ELSE <<part>>) \o rest[c + 1]
    IN  rest[1]

Names(texts, kind) ==
    {p.of : p \in {q \in UNION {ToSet(parse(t)) : t \in texts} : q.kind = kind}}

\* Snippet::texts, variables, secrets
Texts(steps) == {s.text : s \in {t \in ToSet(steps) : t.kind = "send"}}
Variables(steps) == Names(Texts(steps), "variable")
Secrets(steps) == Names(Texts(steps), "secret")

\* A newline, or one after a carriage return, is Enter once.
Entered(bytes) ==
    LET kept == {i \in 1..Len(bytes) : ~(bytes[i] = "LF" /\ i > 1 /\ bytes[i - 1] = "CR")}
        nth == SetToSortSeq(kept, <)
    IN  [k \in 1..Len(nth) |-> IF bytes[nth[k]] = "LF" THEN "CR" ELSE bytes[nth[k]]]

\* typed_bytes: what typing a text sends; None when a variable has no value
\* (every secret was fetched before).
Filled(part, values) ==
    CASE part.kind = "text" -> part.of
      [] part.kind = "secret" -> <<"pw">>
      [] part.kind = "variable" -> IF part.of \in values THEN <<"b">> ELSE None

typed_bytes(text, values) ==
    LET pieces == [i \in 1..Len(parse(text)) |-> Filled(parse(text)[i], values)]
    IN  IF None \in ToSet(pieces) THEN None ELSE Entered(FlattenSeq(pieces))

-----------------------------------------------------------------------------
(* The recorder's steps: `typed` holds [gap: since the one before, key]. *)

Send(text) == [kind |-> "send", text |-> text]
Delay(ms) == [kind |-> "delay", ms |-> ms]
Wait(pattern, timeout) == [kind |-> "wait", pattern |-> pattern, timeout |-> timeout]

\* To the tenth of a second, at most ten minutes.
Tenths(gap) == LET ms == (gap \div 2) * 2 IN IF ms > MaxWait THEN MaxWait ELSE ms

steps_of(typed) ==
    LET add(steps, e) ==
          LET key == IF e.key = "CR" THEN "LF" ELSE e.key
              paused == steps # <<>> /\ e.gap >= Pause
          IN  IF steps = <<>> THEN <<Send(<<key>>)>>
              ELSE IF paused THEN steps \o <<Delay(Tenths(e.gap)), Send(<<key>>)>>
              ELSE [steps EXCEPT ![Len(steps)].text = Append(@, key)]
    IN  FoldLeft(add, <<>>, typed)

-----------------------------------------------------------------------------
(* The file. *)

BadPattern == <<"(">>

\* Snippet::problem: why it can't be used.
StepProblem(s) ==
    CASE s.kind = "send" -> s.text = <<>> \/ Len(s.text) > MaxText
      [] s.kind = "delay" -> s.ms = 0 \/ s.ms > MaxWait
      [] s.kind = "wait" -> s.pattern \in {<<>>, BadPattern} \/ s.timeout = 0 \/ s.timeout > MaxWait

Problem(s) ==
    \/ s.name = ""
    \/ s.steps = <<>> /\ s.text = <<>>
    \/ Len(s.text) > MaxText
    \/ \E i \in 1..Len(s.steps) : StepProblem(s.steps[i])

\* step_from, millis: a step of the file; None when it isn't one.  A table
\* holds only the keys somebody wrote in it; a negative number is an error.
StepFrom(raw) ==
    CASE "send" \in DOMAIN raw -> Send(raw.send)
      [] "send" \notin DOMAIN raw /\ "wait_for" \in DOMAIN raw ->
            IF "timeout_ms" \notin DOMAIN raw THEN Wait(raw.wait_for, DefaultTimeout)
            ELSE IF raw.timeout_ms = -1 THEN None ELSE Wait(raw.wait_for, raw.timeout_ms)
      [] DOMAIN raw = {"delay_ms"} -> IF raw.delay_ms = -1 THEN None ELSE Delay(raw.delay_ms)
      [] OTHER -> None

StepTable(s) ==
    CASE s.kind = "send" -> [send |-> s.text]
      [] s.kind = "delay" -> [delay_ms |-> s.ms]
      [] s.kind = "wait" -> [wait_for |-> s.pattern, timeout_ms |-> s.timeout]

Snippet(name, shortcut, text, steps, extra) ==
    [name |-> name, shortcut |-> shortcut, text |-> text, steps |-> steps, extra |-> extra]

\* from_table: None when the snippet is skipped.  A table is a snippet with raw
\* steps (and no text where the key is missing).
FromTable(t) ==
    LET steps == [i \in 1..Len(t.steps) |-> StepFrom(t.steps[i])]
        s == Snippet(t.name, t.shortcut, t.text, steps, t.extra)
    IN  IF None \in ToSet(steps) THEN None ELSE IF Problem(s) THEN None ELSE s

\* to_table: a macro's text is not written.
ToTable(s) ==
    [s EXCEPT !.steps = [i \in 1..Len(s.steps) |-> StepTable(s.steps[i])],
              !.text = IF s.steps # <<>> THEN <<>> ELSE @]

Ids == 1..MaxIds
NoList == [i \in Ids |-> None]

\* load_file, from_toml_str: a table per id (of two, the first is kept); a file
\* that can't be read, and a newer one, is never overwritten.
FromToml(file) ==
    CASE file.kind = "none" -> [list |-> NoList, ro |-> FALSE]
      [] file.kind = "broken" -> [list |-> NoList, ro |-> TRUE]
      [] OTHER -> [list |-> [i \in Ids |-> IF file.tables[i] = None THEN None
                                           ELSE FromTable(file.tables[i])],
                   ro |-> file.kind = "newer"]

ToToml(list) ==
    [kind |-> "ok", tables |-> [i \in Ids |-> IF list[i] = None THEN None ELSE ToTable(list[i])]]

\* write_merging: per id, what changed here since `base`, else what is there.
Tables(file) == IF file.kind \in {"ok", "newer"} THEN file.tables ELSE NoList
Merged(ours) ==
    IF disk = base \/ disk.kind # "ok" THEN ours
    ELSE [ours EXCEPT !.tables = [i \in Ids |->
            IF ours.tables[i] = Tables(base)[i] THEN Tables(disk)[i] ELSE ours.tables[i]]]

-----------------------------------------------------------------------------
NoTask == [state |-> "none", at |-> 0, tap |-> 0, seen |-> <<>>, queue |-> <<>>, upto |-> 0,
           missed |-> FALSE, closed |-> FALSE]

SInit ==
    /\ left \in Budgets
    /\ session = [p \in Panes |-> p] /\ printed = [p \in Panes |-> <<>>]
    /\ job = [state |-> "none", steps |-> <<>>, values |-> {}, panes |-> {}]
    /\ task = [p \in Panes |-> NoTask] /\ ended = <<>>
    /\ record = [p \in Panes |-> None] /\ macro = None
    /\ disk \in {[kind |-> k, tables |-> NoList] : k \in {"none", "broken"}} \cup
                {[kind |-> k, tables |-> [NoList EXCEPT ![1] = t]] :
                   k \in {"ok", "newer"}, t \in RawTables}
    /\ left.edits = 0 => disk.kind = "ok"   \* bound: runs start with a snippet
    /\ mem = FromToml(disk) /\ base = disk
    /\ saves = [queued |-> 0, done |-> 0, wanted |-> FALSE]
    /\ write = None /\ inbox = <<>> /\ reader = None /\ dirty = FALSE
    /\ lost = FALSE /\ made = 1

Spend(what) == left[what] > 0 /\ left' = [left EXCEPT ![what] = @ - 1]

-----------------------------------------------------------------------------
(* Runs. *)

\* run: the snippet as it is now (a text is a macro of one step); the editor
\* asked for the variables it showed, `values`.
StepsOf(s) == IF s.steps # <<>> THEN s.steps ELSE <<Send(s.text)>>
Start(steps, values, panes) ==
    /\ job.state = "none" /\ Spend("runs")
    /\ job' = [state |-> "fetching", steps |-> steps, values |-> values, panes |-> panes]
    /\ UNCHANGED <<session, printed, task, ended, record, macro, storeVars>>

Run(i, panes) ==
    /\ mem.list[i] # None
    /\ LET steps == StepsOf(mem.list[i])
       IN  \E asked \in {Variables(steps), {}} : Start(steps, asked, panes)

\* Running the macro just recorded, once it was reviewed and saved.
RunMacro(panes) ==
    /\ macro # None /\ macro.steps # <<>>
    /\ Start(macro.steps, {}, panes)

Stopped(code) == [pane |-> 0, code |-> code]

\* fetch_secrets: the keychain worker's answer for each identity; the first
\* that has no password stops the run before any pane.
FetchSecrets ==
    /\ job.state = "fetching"
    /\ \/ /\ job' = [job EXCEPT !.state = "spawned"]
          /\ task' = [p \in Panes |-> IF p \in job.panes THEN [NoTask EXCEPT !.state = "start"]
                                      ELSE NoTask]
          /\ UNCHANGED ended
       \/ /\ Secrets(job.steps) # {}
          /\ \E code \in {"secret-locked", "secret-unknown", "no-secret"} :
                ended' = Append(ended, Stopped(code))
          /\ job' = [job EXCEPT !.state = "none"]
          /\ UNCHANGED task
    /\ UNCHANGED <<left, session, printed, record, macro, storeVars>>

\* run_in: the tap first, only when some step waits.
Waits(steps) == \E i \in 1..Len(steps) : steps[i].kind = "wait"

\* The end of run_in: the tap goes (if the pane still has its session) and the
\* outcome is reported.
Over(p, t, code) ==
    /\ task' = [task EXCEPT ![p] = [t EXCEPT !.state = code, !.queue = <<>>, !.seen = <<>>,
                                            !.tap = 0]]
    /\ ended' = Append(ended, [pane |-> p, code |-> code])

\* Mutant: the tap is added when the first wait is reached.
RunInLate(p) ==
    /\ task[p].state = "start"
    /\ task' = [task EXCEPT ![p] =
         [@ EXCEPT !.state = "running", !.at = 1, !.upto = Len(printed[p])]]
    /\ UNCHANGED <<ended, left, session, printed, job, record, macro, storeVars>>

RunIn(p) ==
    /\ task[p].state = "start"
    /\ IF Waits(job.steps) /\ session[p] = 0
       THEN Over(p, task[p], "gone")
       ELSE /\ task' = [task EXCEPT ![p] =
                 [@ EXCEPT !.state = "running", !.at = 1, !.upto = Len(printed[p]),
                           !.tap = IF Waits(job.steps) THEN session[p] ELSE 0]]
            /\ UNCHANGED ended
    /\ UNCHANGED <<left, session, printed, job, record, macro, storeVars>>

Step(p) == job.steps[task[p].at]
AtStep(p, kind) ==
    task[p].state = "running" /\ task[p].at <= Len(job.steps) /\ Step(p).kind = kind
Next1(t) == [t EXCEPT !.at = @ + 1]

\* Session::write, Worker::write_input: the taps see it, then the program.
WriteInput(p, gap, bytes) ==
    record' = IF record[p] = None \/ ~record[p].on THEN record
              ELSE [record EXCEPT ![p].typed = @ \o
                      [i \in 1..Len(bytes) |-> [gap |-> IF i = 1 THEN gap ELSE 0,
                                                key |-> bytes[i]]]]

\* Step::Send and type_text
TypeText(p) ==
    /\ AtStep(p, "send")
    /\ LET bytes == typed_bytes(Step(p).text, job.values)
       IN  IF bytes = None \/ session[p] = 0
           THEN /\ Over(p, task[p], IF bytes = None THEN "missing" ELSE "gone")
                /\ UNCHANGED record
           ELSE /\ WriteInput(p, 1, bytes)
                /\ task' = [task EXCEPT ![p] = Next1(@)]
                /\ UNCHANGED ended
    /\ UNCHANGED <<left, session, printed, job, macro, storeVars>>

Sleep(p) ==
    /\ AtStep(p, "delay")
    /\ task' = [task EXCEPT ![p] = Next1(@)]
    /\ UNCHANGED <<left, session, printed, job, ended, record, macro, storeVars>>

\* Where a pattern is first found: the end of the match, 0 for none.
Find(pattern, s) ==
    LET ends == {e \in Len(pattern)..Len(s) : SubSeq(s, e - Len(pattern) + 1, e) = pattern}
    IN  IF ends = {} THEN 0 ELSE CHOOSE e \in ends : \A f \in ends : e <= f

\* What of `seen` goes with a match: the next wait looks after it.
AfterMatch(t, end) ==
    [Next1(t) EXCEPT !.seen = SubSeq(t.seen, end + 1, Len(t.seen)),
                     !.upto = t.upto + end]

Keep(s) == SubSeq(s, IF Len(s) > WaitBuffer THEN Len(s) - WaitBuffer + 1 ELSE 1, Len(s))

\* One turn of a wait's loop: a match, the next piece of output (polled before
\* the deadline), the end of the session, or the timeout.
WaitFor(p) ==
    /\ AtStep(p, "wait")
    /\ LET t == task[p]
           end == Find(Step(p).pattern, t.seen)
           seen == Append(t.seen, Head(t.queue))
       IN  \/ /\ end > 0
              /\ task' = [task EXCEPT ![p] = AfterMatch(t, end)]
              /\ UNCHANGED ended
           \/ /\ end = 0 /\ t.queue # <<>>
              /\ task' = [task EXCEPT ![p] = [t EXCEPT !.seen = Keep(seen), !.queue = Tail(@),
                            !.upto = @ + Len(seen) - Len(Keep(seen))]]
              /\ UNCHANGED ended
           \/ /\ end = 0 /\ t.queue = <<>> /\ t.closed
              /\ Over(p, t, "gone")
           \/ /\ end = 0 /\ t.queue = <<>> /\ ~t.closed
              /\ Over(p, [t EXCEPT !.missed =
                    Find(Step(p).pattern, SubSeq(printed[p], t.upto + 1, Len(printed[p]))) > 0],
                    "timeout")
    /\ UNCHANGED <<left, session, printed, job, record, macro, storeVars>>

\* Everything was typed.
Finish(p) ==
    /\ task[p].state = "running" /\ task[p].at > Len(job.steps)
    /\ Over(p, task[p], "done")
    /\ UNCHANGED <<left, session, printed, job, record, macro, storeVars>>

\* Worker::parse: the taps see what the program prints.
Prints(p, token) ==
    /\ session[p] # 0 /\ Spend("prints")
    /\ printed' = [printed EXCEPT ![p] = Append(@, token)]
    /\ task' = IF task[p].tap = session[p] THEN [task EXCEPT ![p].queue = Append(@, token)]
               ELSE task
    /\ UNCHANGED <<session, job, ended, record, macro, storeVars>>

\* registry::close: the session's taps go with it (the pane may start again).
Close(p) ==
    /\ session[p] # 0 /\ Spend("closes")
    /\ session' = [session EXCEPT ![p] = 0]
    /\ task' = IF task[p].tap = session[p] THEN [task EXCEPT ![p].closed = TRUE, ![p].tap = 0]
               ELSE task
    /\ record' = IF record[p] = None THEN record ELSE [record EXCEPT ![p].on = FALSE]
    /\ UNCHANGED <<printed, job, ended, macro, storeVars>>

Restart(p) ==
    /\ session[p] = 0
    /\ session' = [session EXCEPT ![p] = Cardinality(Panes) + p]
    /\ UNCHANGED <<left, printed, job, task, ended, record, macro, storeVars>>

-----------------------------------------------------------------------------
(* The recorder. *)

RecordStart(p) ==
    /\ session[p] # 0 /\ record[p] = None /\ macro = None
    /\ left.keys > 0
    /\ record' = [record EXCEPT ![p] = [on |-> TRUE, typed |-> <<>>]]
    /\ UNCHANGED <<left, session, printed, job, task, ended, macro, storeVars>>

RecordStop(p) ==
    /\ record[p] # None
    /\ macro' = [steps |-> steps_of(record[p].typed), typed |-> record[p].typed]
    /\ record' = [record EXCEPT ![p] = None]
    /\ UNCHANGED <<left, session, printed, job, task, ended, storeVars>>

UserTypes(p, key, gap) ==
    /\ session[p] # 0 /\ Spend("keys")
    /\ record[p] # None   \* bound: other keys change nothing here
    /\ WriteInput(p, gap, <<key>>)
    /\ UNCHANGED <<session, printed, job, task, ended, macro, storeVars>>

-----------------------------------------------------------------------------
(* The singleton and its file. *)

Pending(t) == t.done < t.queued

\* save_file: queued, unless the file must not be overwritten.
SaveFile(list) ==
    /\ mem' = [mem EXCEPT !.list = list]
    /\ IF mem.ro THEN lost' = TRUE /\ UNCHANGED <<saves, write>>
       ELSE /\ saves' = [saves EXCEPT !.queued = @ + 1]
            /\ write' = [text |-> ToToml(list), seq |-> saves.queued + 1]
            /\ lost' = FALSE
    /\ UNCHANGED <<runVars, disk, base, inbox, reader, dirty>>

\* The editor's steps (no timeout given: the default), parse_editor and save.
EditorStep(j) == IF j.kind = "wait" /\ j.timeout = 0 THEN Wait(j.pattern, DefaultTimeout) ELSE j

ParseEditor(e, i) ==
    LET old == IF mem.list[i] # None THEN mem.list[i] ELSE Snippet("", "", <<>>, <<>>, FALSE)
    IN  [old EXCEPT !.name = e.name, !.shortcut = e.shortcut,
             !.steps = IF e.macro THEN [k \in 1..Len(e.steps) |-> EditorStep(e.steps[k])]
                       ELSE <<>>,
             !.text = IF e.macro THEN <<>> ELSE e.text]

NewId == made < MaxIds /\ made' = made + 1

Save(e, i) ==
    /\ Spend("edits")
    /\ ~Problem(ParseEditor(e, i))
    /\ IF mem.list[i] = None THEN NewId /\ i = made' ELSE UNCHANGED made
    /\ SaveFile([mem.list EXCEPT ![i] = ParseEditor(e, i)])

RemoveSnippet(i) ==
    /\ Spend("edits") /\ mem.list[i] # None
    /\ SaveFile([mem.list EXCEPT ![i] = None])
    /\ UNCHANGED made

\* duplicate: right after it, without its shortcut.
Duplicate(i) ==
    /\ Spend("edits") /\ mem.list[i] # None /\ NewId
    /\ SaveFile([mem.list EXCEPT ![made'] = [mem.list[i] EXCEPT !.shortcut = ""]])

\* import_bundle: the bundle's snippets that load and whose id is not here.
ImportBundle(t, i) ==
    /\ Spend("edits") /\ mem.list[i] = None /\ FromTable(t) # None
    /\ IF i > made THEN NewId /\ i = made' ELSE UNCHANGED made
    /\ SaveFile([mem.list EXCEPT ![i] = FromTable(t)])

\* The writer's pass: merged with what somebody else wrote, or failed.
Writes(ok) ==
    /\ write # None
    /\ ok \/ left.failures > 0
    /\ IF ok THEN /\ disk' = Merged(write.text) /\ base' = disk' /\ dirty' = TRUE
                  /\ UNCHANGED left
       ELSE UNCHANGED <<disk, base, dirty>> /\ Spend("failures")
    /\ inbox' = Append(inbox, [op |-> "saved", seq |-> write.seq, ok |-> ok, file |-> None])
    /\ write' = None
    /\ UNCHANGED <<runVars, mem, saves, reader, lost, made>>

\* Somebody else saves the file (a synchronized folder, an editor).
Changed(i, t) ==
    /\ Spend("changes")
    /\ disk' = [kind |-> "ok", tables |-> [Tables(disk) EXCEPT ![i] = t]]
    /\ disk' # disk
    /\ dirty' = TRUE
    /\ UNCHANGED <<runVars, mem, base, saves, write, inbox, reader, lost, made>>

\* reload_in_background, its thread and apply_disk
Reload(queue) == inbox' = Append(queue, [op |-> "reload", seq |-> 0, ok |-> TRUE, file |-> None])

WatcherFires ==
    /\ dirty /\ dirty' = FALSE
    /\ Reload(inbox)
    /\ UNCHANGED <<left, runVars, mem, disk, base, saves, write, reader, lost, made>>

ThreadReads ==
    /\ reader # None /\ reader.file = None
    /\ reader' = [file |-> disk] /\ base' = disk
    /\ UNCHANGED <<left, runVars, mem, disk, saves, write, inbox, dirty, lost, made>>

ThreadPosts ==
    /\ reader # None /\ reader.file # None
    /\ inbox' = Append(inbox, [op |-> "apply", seq |-> 0, ok |-> TRUE, file |-> reader.file])
    /\ reader' = None
    /\ UNCHANGED <<left, runVars, mem, disk, base, saves, write, dirty, lost, made>>

SaveDone(m) ==
    LET s == [saves EXCEPT !.done = IF m.seq > @ THEN m.seq ELSE @]
        again == ~Pending(s) /\ s.wanted
    IN  /\ m.op = "saved"
        /\ saves' = IF again THEN [s EXCEPT !.wanted = FALSE] ELSE s
        /\ lost' = (lost \/ ~m.ok)
        /\ IF again THEN Reload(Tail(inbox)) ELSE inbox' = Tail(inbox)
        /\ UNCHANGED <<mem, reader>>

ApplyDisk(m) ==
    /\ m.op = "apply"
    /\ IF Pending(saves) THEN saves' = [saves EXCEPT !.wanted = TRUE] /\ UNCHANGED <<mem, lost>>
       ELSE mem' = FromToml(m.file) /\ lost' = FALSE /\ UNCHANGED saves
    /\ inbox' = Tail(inbox)
    /\ UNCHANGED reader

Gui ==
    /\ inbox # <<>>
    /\ LET m == Head(inbox)
       IN  \/ SaveDone(m)
           \/ ApplyDisk(m)
           \/ /\ m.op = "reload" /\ reader = None   \* bound: one reload thread at a time
              /\ reader' = [file |-> None] /\ inbox' = Tail(inbox)
              /\ UNCHANGED <<mem, saves, lost>>
    /\ UNCHANGED <<left, runVars, disk, base, write, dirty, made>>

-----------------------------------------------------------------------------
Runs ==
    \/ \E i \in Ids, ps \in SUBSET Panes \ {{}} : Run(i, ps)
    \/ \E ps \in SUBSET Panes \ {{}} : RunMacro(ps)
    \/ FetchSecrets
    \/ \E p \in Panes : \/ RunIn(p) \/ TypeText(p) \/ Sleep(p) \/ WaitFor(p) \/ Finish(p)
                        \/ Close(p) \/ Restart(p) \/ RecordStart(p) \/ RecordStop(p)
                        \/ \E token \in {"a", "b"} : Prints(p, token)
                        \/ \E key \in Keys, gap \in Gaps : UserTypes(p, key, gap)

Store ==
    \/ \E i \in Ids : \/ \E e \in Editors : Save(e, i)
                      \/ RemoveSnippet(i) \/ Duplicate(i)
                      \/ \E t \in RawTables : ImportBundle(t, i) \/ Changed(i, t)
    \/ \E ok \in BOOLEAN : Writes(ok)
    \/ WatcherFires \/ ThreadReads \/ ThreadPosts \/ Gui

SNext == Runs \/ Store

SSpec == SInit /\ [][SNext]_snipVars

-----------------------------------------------------------------------------
(***************************************************************************)
(* Properties                                                              *)
(***************************************************************************)

\* A wait looks at everything its pane printed since the run started, or since
\* the last match, and at nothing older (the most recent WAIT_BUFFER of it); so
\* a wait that times out has not missed its pattern (snippets.rs, steps_in).
WaitsSeeAll ==
    \A p \in Panes :
      LET t == task[p]
      IN  /\ t.state = "running" /\ t.tap # 0 =>
               t.seen \o t.queue = SubSeq(printed[p], t.upto + 1, Len(printed[p]))
          /\ ~t.missed

\* A macro recorded in a pane and run in another types what was typed, with its
\* pauses to the tenth of a second, unless braces or a bare newline were typed
\* (steps_of, typed_bytes).
Replayed(steps) == FlattenSeq([i \in 1..Len(steps) |->
                      IF steps[i].kind = "send" THEN typed_bytes(steps[i].text, {}) ELSE <<>>])
MacroReplays ==
    macro # None /\ {e.key : e \in ToSet(macro.typed)} \cap {"{{", "}}", "LF"} = {} =>
      LET pauses == SelectSeq(macro.typed, LAMBDA e : e.gap >= Pause)
          delays == SelectSeq(macro.steps, LAMBDA s : s.kind = "delay")
      IN  /\ Replayed(macro.steps) = [i \in 1..Len(macro.typed) |-> macro.typed[i].key]
          /\ \A i \in 1..Len(delays) : \E j \in 1..Len(pauses) :
                delays[i].ms \in {pauses[j].gap, pauses[j].gap - 1, MaxWait}
          /\ \A i \in 1..Len(macro.steps) : ~StepProblem(macro.steps[i])

\* Every snippet in memory is read back from the file as it is (a macro's
\* unused text aside), so a reload never drops what the editor accepted
\* (Snippet::problem, to_table, from_table).
Used(list) == [i \in Ids |-> IF list[i] # None /\ list[i].steps # <<>>
                             THEN [list[i] EXCEPT !.text = <<>>] ELSE list[i]]
SnippetsReadBack == FromToml(ToToml(mem.list)).list = Used(mem.list)

\* A reload never undoes a change that is still being saved, and once saves
\* and reloads are done memory shows the file, unless a save failed or was
\* refused (save_file, save_done, apply_disk).
SnippetsSettle ==
    /\ write # None => write.text = ToToml(mem.list)
    /\ write = None /\ inbox = <<>> /\ reader = None /\ ~dirty /\ ~lost =>
           Used(mem.list) = Used(FromToml(disk).list) /\ mem.ro = FromToml(disk).ro

=============================================================================
