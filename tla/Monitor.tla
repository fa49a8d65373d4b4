------------------------------- MODULE Monitor -------------------------------
(***************************************************************************)
(* The remote monitor (opensesh-ssh/src/monitor/mod.rs) and what a pane    *)
(* shows of its SSH connection (app/src/terminal/registry.rs, publish_ssh  *)
(* of app/src/bridge/terminal_view.rs).  Three lanes:                      *)
(*                                                                         *)
(*   parse   what one reading's text says, as an operator on its sections; *)
(*   watch   a server that prints readings, delivered in pieces cut        *)
(*           anywhere, and the watcher that reports them;                  *)
(*   pane    the connection's states, questions, readings and host info,   *)
(*           reported by their tasks to the entry's shared state, which    *)
(*           the item publishes when it is woken.                          *)
(*                                                                         *)
(* Numbers a server prints are bounded by MaxCount, as u64 is.             *)
(***************************************************************************)
EXTENDS Integers, Sequences, FiniteSets, SequencesExt

CONSTANTS None, Unsupported,
          MaxCount,    \* u64::MAX
          Inputs,      \* readings' sections, for the parse lane
          MaxPending,  \* MAX_PENDING, in tokens
          MaxPrints,   \* bound: what the server prints
          MaxEvents    \* bound: what happens to the connection

VARIABLES
    lane,
    input,      \* parse: the sections
    wire,       \* watch: what the server printed and the channel still carries
    prints,     \* what it has printed so far
    pending,    \* output without its end yet
    previous,   \* Rates::previous: the CPU counters, or None
    reports,    \* what the watcher reported: a permille, None or Unsupported
    over,       \* the watcher returned
    ssh,        \* pane: SshState
    news,       \* Events::ssh
    item,       \* what the item shows, and its serial
    serials,    \* SERIAL
    shown,      \* history: the serials the item has shown, each with its connection
                \* (serials), and the connections whose last reading came late (late)
    gen,        \* connections made so far
    watchers,   \* connections whose monitor task can still report
    readers,    \* host info tasks: the connections they read
    asked,      \* the last question, and the last one before this attempt
    answered,
    events      \* bound

watchVars == <<wire, prints, pending, previous, reports, over>>
paneVars == <<ssh, news, item, serials, shown, gen, watchers, readers, asked, answered, events>>
monitorVars == <<lane, input, watchVars, paneVars>>

-----------------------------------------------------------------------------
(* A reading's text.  `sections` has split it: `raw` is a function from the *)
(* sections it has to their lines, numbers already read.                    *)

Sat(n) == IF n > MaxCount THEN MaxCount ELSE n
SatSub(a, b) == IF a > b THEN a - b ELSE 0
Sum(values) == FoldLeft(LAMBDA a, b : Sat(a + b), 0, values)
Least(a, b) == IF a < b THEN a ELSE b
Section(raw, name) == IF name \in DOMAIN raw THEN raw[name] ELSE None
OrElse(a, b) == IF a # None THEN a ELSE b

Take(s, n) == SubSeq(s, 1, Least(n, Len(s)))

\* linux_cpu: user nice system idle iowait irq softirq steal; guest time is
\* already in user's.
linux_cpu(v) ==
    IF v = None THEN None ELSE IF Len(v) < 4 THEN None
    ELSE LET total == Sum(Take(v, 8))
             idle == Sat(v[4] + (IF Len(v) > 4 THEN v[5] ELSE 0))
         IN  [busy |-> SatSub(total, idle), total |-> total]

\* bsd_cpu: user nice system interrupt idle
bsd_cpu(v) ==
    IF v = None THEN None ELSE IF Len(v) < 5 THEN None
    ELSE LET total == Sum(Take(v, 5)) IN [busy |-> SatSub(total, v[5]), total |-> total]

\* mac_cpu, in thousandths: what every process uses over the number of CPUs.
mac_cpu(lines, cpus) ==
    IF lines = None THEN None
    ELSE Least(1000, (Sum(lines) * 10) \div (IF cpus = None THEN 1 ELSE IF cpus < 1 THEN 1 ELSE cpus))

Memory(total, available) == [total |-> total, available |-> Least(available, total)]
Value(m, key) == IF key \in DOMAIN m THEN m[key] ELSE 0

\* linux_memory: kernels before 3.14 have no MemAvailable.
linux_memory(m) ==
    IF m = None THEN None ELSE IF "total" \notin DOMAIN m THEN None
    ELSE Memory(m.total, IF "available" \in DOMAIN m THEN m.available
                         ELSE Sum(<<Value(m, "free"), Value(m, "buffers"), Value(m, "cached")>>))

\* bsd_memory: free and inactive pages; mac_memory: speculative ones too.
bsd_memory(m) ==
    IF m = None THEN None ELSE IF ~{"total", "free"} \subseteq DOMAIN m THEN None
    ELSE Memory(m.total, Sat(Sat(m.free + Value(m, "inactive")) * 2))
mac_memory(m) ==
    IF m = None THEN None ELSE IF "total" \notin DOMAIN m THEN None
    ELSE Memory(m.total, Sat(Sum(<<Value(m, "free"), Value(m, "inactive"),
                                   Value(m, "speculative")>>) * 2))

\* is_virtual
Virtual == {"lo", "docker", "tun"}

\* linux_traffic, bsd_traffic: the interfaces of the default routes, else every
\* one that is not virtual.
Counted(name, defaults) == IF defaults = {} THEN name \notin Virtual ELSE name \in defaults
traffic(rows, defaults) ==
    IF rows = None THEN None
    ELSE LET counted == SelectSeq(rows, LAMBDA r : Counted(r.name, defaults))
         IN  IF counted = <<>> THEN None
             ELSE Sum([i \in 1..Len(counted) |-> counted[i].bytes])

\* disks: real file systems, each device once; what is at / always.
Pseudo(d) == d.fs \in {"tmpfs", "loop", "rootfs"} \/ d.mount = "/run" \/ d.size = 0
IsDevice(d) == d.fs \in {"dev1", "dev2", "loop"}

\* A device mounted twice counts once, at / if it is there.
KeepForRoot(out, d) == SelectSeq(out, LAMBDA o : o.fs # d.fs \/ o.mount = "/")

AddDisk(out, d) ==
    LET seen == IsDevice(d) /\ \E i \in 1..Len(out) : out[i].fs = d.fs
    IN  IF d.mount = "/" THEN Append(KeepForRoot(out, d), d)
        ELSE IF ~Pseudo(d) /\ ~seen THEN Append(out, d) ELSE out

disks(rows) == IF rows = None THEN <<>> ELSE FoldLeft(AddDisk, <<>>, rows)

\* bsd_uptime
bsd_uptime(b) == IF b = None THEN None ELSE IF b.now < b.boot THEN None ELSE b.now - b.boot

\* parse and Reading
parse(raw) ==
    [cpu |-> OrElse(linux_cpu(Section(raw, "cpu")), bsd_cpu(Section(raw, "cp_time"))),
     percent |-> mac_cpu(Section(raw, "pscpu"), Section(raw, "ncpu")),
     memory |-> OrElse(linux_memory(Section(raw, "meminfo")),
                       OrElse(mac_memory(Section(raw, "vmstat")),
                              bsd_memory(Section(raw, "physmem")))),
     traffic |-> traffic(Section(raw, "netdev"), IF "route" \in DOMAIN raw THEN raw.route ELSE {}),
     disks |-> disks(Section(raw, "df")),
     uptime |-> OrElse(Section(raw, "uptime"), bsd_uptime(Section(raw, "boottime")))]

\* push_address: loopback and link-local addresses are left out, each once.
PushAddress(out, a) ==
    IF a.scope \in {"loopback", "link"} \/ a \in ToSet(out) THEN out ELSE Append(out, a)
addresses(lines) == IF lines = None THEN <<>> ELSE FoldLeft(PushAddress, <<>>, lines)

\* parse_info: the host info's sections, and a reading.
parse_info(raw) ==
    [os |-> OrElse(Section(raw, "release"), OrElse(Section(raw, "swvers"), Section(raw, "uname"))),
     addresses |-> addresses(Section(raw, "addr")), reading |-> parse(raw)]

\* Rates::next, for the CPU: two readings whose counters only grew.
Permille(before, now) ==
    IF None \in {before, now} THEN None
    ELSE IF now.total <= before.total \/ now.busy < before.busy THEN None
    ELSE (Least(now.busy - before.busy, now.total - before.total) * 1000)
            \div (now.total - before.total)

\* Snapshot::root_disk
RootDisk(list) ==
    LET roots == {i \in 1..Len(list) : list[i].mount = "/"}
    IN  IF roots # {} THEN list[CHOOSE i \in roots : \A j \in roots : i <= j]
        ELSE IF list # <<>> THEN list[1] ELSE None

-----------------------------------------------------------------------------
(* watch.  Lines come in halves, so that a cut may fall inside one.  A token *)
(* is half of a reading's body, the second with its CPU counters ([busy,     *)
(* total]; None: a system it cannot read), half of its end, or "noise".      *)

Token(kind) == [t |-> kind, cpu |-> None]
Block(cpu) == <<Token("bo"), [t |-> "dy", cpu |-> cpu], Token("@e"), Token("nd")>>
Counters == {[busy |-> b, total |-> t] : b, t \in {1, 2, 4}}

\* find(&pending, "@end\n"): where the two halves of one meet.
Meet(tokens, first, second) ==
    {i \in 2..Len(tokens) : tokens[i - 1].t = first /\ tokens[i].t = second}
EndsIn(tokens) == Meet(tokens, "@e", "nd")

\* What `watch` does with one complete block (`w`: its state).
Report(w, what) == [w EXCEPT !.reports = Append(@, what)]
TakeBlock(w, cpu) ==
    CASE w.over -> w
      [] ~w.over /\ cpu = None /\ w.previous = None -> [Report(w, Unsupported) EXCEPT !.over = TRUE]
      [] ~w.over /\ cpu = None /\ w.previous # None -> w
      [] OTHER -> [Report(w, IF w.previous = None THEN None ELSE Permille(w.previous, cpu))
                      EXCEPT !.previous = cpu]

\* The blocks of `tokens` that have their end, each its counters (None: it says
\* nothing), and what is left after the last.
CpuOf(tokens) ==
    LET said == Meet(tokens, "bo", "dy")
    IN  IF said = {} THEN None ELSE tokens[CHOOSE i \in said : \A j \in said : i <= j].cpu
Blocks(tokens) ==
    LET at == SetToSortSeq(EndsIn(tokens), <)
    IN  [k \in 1..Len(at) |-> CpuOf(SubSeq(tokens, IF k = 1 THEN 1 ELSE at[k - 1] + 1, at[k]))]
\* Mutant: what comes after a block is forgotten with it.
AfterNothing(tokens) == IF EndsIn(tokens) = {} THEN tokens ELSE <<>>
After(tokens) ==
    LET ends == EndsIn(tokens)
    IN  IF ends = {} THEN tokens
        ELSE SubSeq(tokens, (CHOOSE e \in ends : \A f \in ends : f <= e) + 1, Len(tokens))

MonInit ==
    /\ lane \in {"parse", "watch", "pane"}
    /\ IF lane = "parse" THEN input \in Inputs ELSE input = None
    /\ wire = <<>> /\ prints = <<>> /\ pending = <<>> /\ previous = None
    /\ reports = <<>> /\ over = FALSE
    /\ ssh = [status |-> "none", live |-> 0, monitor |-> 0, info |-> None, requests |-> <<>>]
    /\ news = FALSE
    /\ item = [status |-> "none", live |-> 0, monitor |-> 0, info |-> None, prompt |-> 0,
               serial |-> 0]
    /\ serials = 1 /\ shown = [serials |-> {}, late |-> {}] /\ gen = 0 /\ watchers = {} /\ readers = {}
    /\ asked = [last |-> 0, before |-> 0] /\ answered = {}
    /\ events = MaxEvents

Watching == lane = "watch" /\ ~over

\* The shell loop on the server (READING): a reading, or something that is not
\* one.
ServerPrints(tokens) ==
    /\ lane = "watch" /\ Len(prints) < MaxPrints
    /\ prints' = Append(prints, tokens)
    /\ wire' = wire \o tokens
    /\ UNCHANGED <<lane, input, pending, previous, reports, over, paneVars>>

\* ChannelMsg::Data, with the first n tokens: every block that is complete now.
Data(n) ==
    /\ Watching /\ n <= Len(wire)
    /\ LET tokens == pending \o SubSeq(wire, 1, n)
           w == FoldLeft(TakeBlock, [previous |-> previous, reports |-> reports, over |-> FALSE],
                         Blocks(tokens))
           long == ~w.over /\ Len(After(tokens)) > MaxPending
       IN  /\ pending' = After(tokens)
           /\ previous' = w.previous
           /\ reports' = IF long THEN Append(w.reports, Unsupported) ELSE w.reports
           /\ over' = (w.over \/ long)
    /\ wire' = SubSeq(wire, n + 1, Len(wire))
    /\ UNCHANGED <<lane, input, prints, paneVars>>

\* The channel closes, the connection is lost, or (before the first reading)
\* nothing came in time: `failure`, or the end of a watch that worked.
EndWatch ==
    /\ Watching
    /\ over' = TRUE
    /\ reports' = IF previous = None THEN Append(reports, Unsupported) ELSE reports
    /\ UNCHANGED <<lane, input, wire, prints, pending, previous, paneVars>>

-----------------------------------------------------------------------------
(* pane *)

Pane == lane = "pane" /\ UNCHANGED <<lane, input, watchVars>>
Happens == events > 0 /\ events' = events - 1

\* ssh_hooks: each report changes the state and wakes the item.
Sets(state) == ssh' = state /\ news' = TRUE

\* A status that is not Connected: the connection and its readings are gone, the
\* questions and the host info stay.
Down(status) == [ssh EXCEPT !.status = status, !.live = 0, !.monitor = 0]

Connecting ==
    /\ Pane /\ Happens /\ ssh.live = 0 /\ ssh.status # "connecting"
    /\ Sets(Down("connecting"))
    /\ asked' = [asked EXCEPT !.before = asked.last]
    /\ UNCHANGED <<item, serials, shown, gen, watchers, readers, answered>>

\* The asker: the attempt waits for the answer to each of its questions.
NothingAsked == \A r \in ToSet(ssh.requests) : r <= asked.before
Ask ==
    /\ Pane /\ ssh.status = "connecting" /\ NothingAsked /\ Happens
    /\ asked' = [asked EXCEPT !.last = @ + 1]
    /\ Sets([ssh EXCEPT !.requests = Append(@, asked.last + 1)])
    /\ UNCHANGED <<item, serials, shown, gen, watchers, readers, answered>>

\* Connected and Live, then the monitor's task; questions of attempts that failed
\* are still there.
Connected ==
    /\ Pane /\ ssh.status = "connecting" /\ NothingAsked
    /\ gen' = gen + 1
    /\ Sets([ssh EXCEPT !.status = "connected", !.live = gen + 1])
    /\ watchers' = watchers \cup {gen + 1}
    /\ UNCHANGED <<item, serials, shown, readers, asked, answered, events>>

\* The session ends, the connection is lost, or the attempt fails, whatever it had
\* asked: the monitor's task is told to stop (AbortOnDrop), which it does at its
\* next await.
Disconnected ==
    /\ Pane /\ (ssh.live # 0 \/ ssh.status = "connecting") /\ Happens
    /\ Sets(Down("disconnected"))
    /\ UNCHANGED <<item, serials, shown, gen, watchers, readers, asked, answered>>

\* Status::Monitor: a reading of connection g.
MonitorReports(g) ==
    /\ Pane /\ g \in watchers /\ Happens
    /\ Sets([ssh EXCEPT !.monitor = g])
    /\ IF g = ssh.live THEN UNCHANGED <<watchers, shown>>
       ELSE watchers' = watchers \ {g} /\ shown' = [shown EXCEPT !.late = @ \cup {g}]
    /\ UNCHANGED <<item, serials, gen, readers, asked, answered>>

Aborted(g) ==
    /\ Pane /\ g \in watchers /\ g # ssh.live
    /\ watchers' = watchers \ {g}
    /\ UNCHANGED <<ssh, news, item, serials, shown, gen, readers, asked, answered, events>>

\* read_host_info and its task
ReadHostInfo ==
    /\ Pane /\ ssh.live # 0 /\ Happens
    /\ Sets([ssh EXCEPT !.info = "reading"])
    /\ readers' = readers \cup {ssh.live}
    /\ UNCHANGED <<item, serials, shown, gen, watchers, asked, answered>>

HostInfoRead(g) ==
    /\ Pane /\ g \in readers
    /\ Sets([ssh EXCEPT !.info = g])
    /\ readers' = readers \ {g}
    /\ UNCHANGED <<item, serials, shown, gen, watchers, asked, answered, events>>

\* answer: of the question shown (which may be answered already).
Answer(id) ==
    /\ Pane /\ Happens
    /\ Sets([ssh EXCEPT !.requests = SelectSeq(@, LAMBDA r : r # id)])
    /\ answered' = IF id \in ToSet(ssh.requests) THEN answered \cup {id} ELSE answered
    /\ UNCHANGED <<item, serials, shown, gen, watchers, readers, asked>>

\* SessionEntry::ssh: the first question is the one shown.
FirstQuestion == IF ssh.requests = <<>> THEN 0 ELSE Head(ssh.requests)

LiveChanged == item.live # ssh.live

\* drain, publish_ssh
PublishSsh ==
    /\ Pane /\ news
    /\ news' = FALSE
    /\ item' = [status |-> ssh.status, live |-> ssh.live, monitor |-> ssh.monitor,
                info |-> ssh.info, prompt |-> FirstQuestion,
                serial |-> IF LiveChanged THEN IF ssh.live # 0 THEN serials ELSE 0
                           ELSE item.serial]
    /\ serials' = IF LiveChanged /\ ssh.live # 0 THEN serials + 1 ELSE serials
    /\ shown' = IF item'.serial = 0 THEN shown
                ELSE [shown EXCEPT !.serials = @ \cup {<<item'.serial, item'.live>>}]
    /\ UNCHANGED <<ssh, gen, watchers, readers, asked, answered, events>>

-----------------------------------------------------------------------------
MonNext ==
    \/ \E c \in {None} \cup Counters : ServerPrints(Block(c))
    \/ ServerPrints(<<Token("noise")>>)
    \/ \E n \in 1..Len(wire) : Data(n)
    \/ EndWatch
    \/ Connecting \/ Ask \/ Connected \/ Disconnected \/ ReadHostInfo \/ PublishSsh
    \/ \E g \in watchers : MonitorReports(g) \/ Aborted(g)
    \/ \E g \in readers : HostInfoRead(g)
    \/ item.prompt # 0 /\ Answer(item.prompt)

MonSpec == MonInit /\ [][MonNext]_monitorVars

-----------------------------------------------------------------------------
(***************************************************************************)
(* Properties                                                              *)
(***************************************************************************)

\* Whatever a server prints, what is shown makes sense: no more busy time than
\* time, no more memory free than there is, what is at / shown when df lists
\* it, every real device once (parse, disks).
ReadingSound ==
    lane = "parse" =>
      LET r == parse(input)
          rows == IF "df" \in DOMAIN input THEN input.df ELSE <<>>
          devices == {i \in 1..Len(r.disks) : IsDevice(r.disks[i])}
      IN  /\ r.cpu # None => r.cpu.busy <= r.cpu.total
          /\ r.percent # None => r.percent <= 1000
          /\ r.memory # None => r.memory.available <= r.memory.total
          /\ (\E d \in ToSet(rows) : d.mount = "/") => RootDisk(r.disks).mount = "/"
          /\ \A i, j \in devices : r.disks[i].fs = r.disks[j].fs /\ i # j =>
                r.disks[i].mount = "/" /\ r.disks[j].mount = "/"
          /\ \A d \in ToSet(rows) : ~Pseudo(d) => \E e \in ToSet(r.disks) : e.fs = d.fs
          /\ \A a \in ToSet(parse_info(input).addresses) : a.scope = "global"

\* Every reading is reported as soon as its end arrived, with its own numbers,
\* however the output was cut, inside a line too: what is reported is what the
\* whole output up to there says, and rates stay within the scale.  A server that
\* cannot be monitored is reported once, last, and a watch never ends without
\* having said anything (watch, Rates::next).
WatchReports ==
    LET bad == {i \in 1..Len(reports) : reports[i] = Unsupported}
        printed == FlattenSeq(prints)
        delivered == SubSeq(printed, 1, Len(printed) - Len(wire))
        useful == SelectSeq(Blocks(delivered), LAMBDA c : c # None)
        said == [i \in 1..Len(useful) |->
                    IF i = 1 THEN None ELSE Permille(useful[i - 1], useful[i])]
    IN  /\ \A i \in bad : i = Len(reports) /\ over
        /\ over => reports # <<>>
        /\ \A i \in 1..Len(reports) : reports[i] \notin {Unsupported, None} => reports[i] \in 0..1000
        /\ IsPrefix(SelectSeq(reports, LAMBDA r : r # Unsupported), said)
        /\ ~over => reports = said

\* When the item has taken every event it shows the oldest question that was not
\* answered, the connection as it is, and the reading and host info that came last.
\* A reading is of the connection that is up; it is of an earlier one only if that
\* one's task reported once more after its end.  Host info is read once nobody
\* reads it any more, of a connection there was.  Two connections never share a
\* serial (answer, publish_ssh).
PaneShows ==
    lane = "pane" =>
      /\ ~news => /\ item.prompt = FirstQuestion /\ item.status = ssh.status /\ item.live = ssh.live
                  /\ item.monitor = ssh.monitor /\ item.info = ssh.info
      /\ ssh.monitor \in {0, ssh.live} \cup shown.late
      /\ readers = {} => ssh.info \in {None} \cup 1..gen
      /\ (item.serial # 0) = (item.live # 0)
      /\ \A a, b \in shown.serials : a[1] = b[1] => a[2] = b[2]

=============================================================================
