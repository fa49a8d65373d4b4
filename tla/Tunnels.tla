------------------------------ MODULE Tunnels ------------------------------
(***************************************************************************)
(* The tunnels of opensesh-app/src/tunnels.rs and the forwards they run on  *)
(* the SSH runtime (opensesh-ssh/src/tunnel/mod.rs).  Every time a tunnel   *)
(* starts is a run of its own.  An independent tunnel's run keeps its own   *)
(* connection up (keep_connected); a tied one follows the terminal sessions *)
(* of its host.  Each starts forwards: tasks that listen here (local,       *)
(* dynamic) or ask the server to (remote), and report back.  A stopped run  *)
(* ends in its own time: its tasks and those of the next run overlap.       *)
(*                                                                          *)
(* The connections that go through a tunnel, their routes on a shared       *)
(* connection, and the byte counts are left out.                            *)
(***************************************************************************)
EXTENDS Naturals, FiniteSets

CONSTANTS
    Tunnels,      \* the tunnels, all through the same host
    Kinds,        \* the tunnels there may be: tied (Tunnel::tied), remote (Tunnel::kind is
                  \* Remote), reconnect (Tunnel::reconnect)
    Bind,         \* Tunnel::bind_address and bind_port of each
    Refuses,      \* the address may be in use, the host gone, the server may refuse to listen
    Asks,         \* connecting may ask the user something
    MaxRuns,      \* bound: starts of each tunnel
    MaxForwards,  \* bound: forwards ever started
    MaxConns      \* bound: connections ever made

ASSUME TunnelsAssumption ==
    /\ MaxRuns \in Nat /\ MaxForwards \in Nat /\ MaxConns \in Nat
    /\ Kinds \subseteq [tied : BOOLEAN, remote : BOOLEAN, reconnect : BOOLEAN]

Runs == 1 .. MaxRuns
Forwards == 1 .. MaxForwards
Conns == 1 .. MaxConns

VARIABLES
    entry,    \* per tunnel, Entry: kind (of its definition), on, run (0: none), link, listening, waiting, failed, ask
    starts,   \* per tunnel, runs so far
    sup,      \* per tunnel and run, keep_connected or tied: at, stop (told to), conn (the
              \* watch it gives its forward), seen (the session it last saw), fwd
    fwds,     \* the forwards: tunnel, run, at, stop (told to), conn (registered on), seen
              \* (the connection it last saw), done (ends once it has unregistered)
    started,  \* forwards so far
    session,  \* the connection of the host's terminal sessions, or 0
    open,     \* the connections that are open
    made,     \* connections so far
    server    \* per connection: which forward the server listens for, by address and port

tunnelVars == <<entry, starts, sup, fwds, started, session, open, made, server>>

Off(kind) ==
    [kind |-> kind, on |-> FALSE, run |-> 0, link |-> "none", listening |-> FALSE,
     waiting |-> FALSE, failed |-> FALSE, ask |-> 0]

NoSup == [at |-> "none", stop |-> FALSE, conn |-> 0, seen |-> 0, fwd |-> 0]

TunnelsInit ==
    /\ \E kind \in [Tunnels -> Kinds] : entry = [t \in Tunnels |-> Off(kind[t])]
    /\ starts = [t \in Tunnels |-> 0]
    /\ sup = [t \in Tunnels |-> [r \in Runs |-> NoSup]]
    /\ fwds = <<>>
    /\ started = 0
    /\ session = 0
    /\ open = {}
    /\ made = 0
    /\ server = [c \in Conns |-> [b \in {Bind[t] : t \in Tunnels} |-> 0]]

Tied(t) == entry[t].kind.tied

-----------------------------------------------------------------------------
(* tunnels.rs: the entries.  fwds and sup are passed on primed, so that what *)
(* a report stops is stopped in the same step (the state's lock is held).    *)

(* Dropping a run's Active: its supervisor is told to stop, and so is the    *)
(* forward of an independent one.                                            *)
StoppedSup(s, t, r) == IF r = 0 THEN s ELSE [s EXCEPT ![t][r].stop = TRUE]

StoppedFwds(f, t, r) ==
    [n \in DOMAIN f |-> IF f[n].t = t /\ f[n].r = r /\ ~Tied(t) THEN [f[n] EXCEPT !.stop = TRUE]
                        ELSE f[n]]

(* start_counting: a new forward of run r.                                   *)
NewForward(t, r) ==
    [t |-> t, r |-> r, at |-> "start", stop |-> FALSE, conn |-> 0, seen |-> 0, done |-> FALSE]

With(f, forward) ==
    [n \in 1 .. started + 1 |-> IF n = started + 1 THEN forward ELSE f[n]]

(* start: a new run, with its supervisor and, if independent, its forward.   *)
(* One whose connector cannot be made (its host is gone) ends at once.       *)
StartRun(t) ==
    LET r == starts[t] + 1
        old == entry[t].run
        new == [Off(entry[t].kind) EXCEPT !.on = TRUE, !.run = r]
    IN  /\ starts[t] < MaxRuns
        /\ starts' = [starts EXCEPT ![t] = r]
        /\ \/ /\ Tied(t)
              /\ entry' = [entry EXCEPT ![t] = new]
              /\ sup' = [StoppedSup(sup, t, old) EXCEPT ![t][r].at = "tied"]
              /\ UNCHANGED <<fwds, started>>
           \/ /\ ~Tied(t) /\ started < MaxForwards
              /\ entry' = [entry EXCEPT ![t] = new]
              /\ sup' = [StoppedSup(sup, t, old) EXCEPT ![t][r].at = "begin"]
              /\ started' = started + 1
              /\ fwds' = With(StoppedFwds(fwds, t, old), NewForward(t, r))
           \/ /\ ~Tied(t) /\ Refuses
              /\ entry' = [entry EXCEPT ![t] = [new EXCEPT !.link = "ended"]]
              /\ sup' = StoppedSup(sup, t, old)
              /\ fwds' = StoppedFwds(fwds, t, old)
              /\ UNCHANGED started

(* set_on(true), or load with autostart.                                     *)
SwitchOn(t) ==
    /\ ~entry[t].on
    /\ StartRun(t)
    /\ UNCHANGED <<session, open, made, server>>

(* upsert and reload: a running tunnel whose definition changed starts again. *)
Change(t) ==
    /\ entry[t].on
    /\ StartRun(t)
    /\ UNCHANGED <<session, open, made, server>>

(* set_on(false), remove, stop_all: halt.                                    *)
SwitchOff(t) ==
    /\ entry[t].on
    /\ entry' = [entry EXCEPT ![t] = Off(entry[t].kind)]
    /\ sup' = StoppedSup(sup, t, entry[t].run)
    /\ fwds' = StoppedFwds(fwds, t, entry[t].run)
    /\ UNCHANGED <<starts, started, session, open, made, server>>

(* update: a callback of a run that was replaced is ignored.                 *)
Current(t, r) == entry[t].run = r

SetLink(t, r, link) ==
    entry' = IF Current(t, r) THEN [entry EXCEPT ![t].link = link] ELSE entry

(* The report sink: Listening and Waiting.                                   *)
Reported(t, r, listening) ==
    entry' = IF ~Current(t, r) THEN entry
             ELSE IF listening
             THEN [entry EXCEPT ![t].listening = TRUE, ![t].waiting = FALSE, ![t].failed = FALSE]
             ELSE [entry EXCEPT ![t].waiting = TRUE]

(* Failed also stops the run and answers its questions with Cancel.          *)
ReportedFailed(t, r, f) ==
    /\ entry' = IF Current(t, r) THEN [entry EXCEPT ![t].failed = TRUE, ![t].ask = 0] ELSE entry
    /\ sup' = IF Current(t, r) THEN StoppedSup(sup, t, r) ELSE sup
    /\ fwds' = IF Current(t, r) THEN StoppedFwds(f, t, r) ELSE f

-----------------------------------------------------------------------------
(* keep_connected, of an independent run.                                    *)

Supervisor(t, r, at) == sup[t][r].at = at

(* A wait that begins after the keeper was told to stop ends at once; one    *)
(* that had begun may also end with what it waited for.                      *)
Waits(t, r, at) == IF sup[t][r].stop THEN "stopping" ELSE at

Ended(t, r) ==
    /\ sup' = [sup EXCEPT ![t][r] = [@ EXCEPT !.at = "over", !.conn = 0]]
    /\ SetLink(t, r, "ended")

(* The next attempt begins.  The wait before it is at least a second long,   *)
(* and what was asked on the lost connection has failed by then.             *)
Connecting(t, r) ==
    /\ sup[t][r].at \in {"begin", "retrying"}
    /\ \A n \in DOMAIN fwds : ~(fwds[n].t = t /\ fwds[n].r = r /\ fwds[n].at = "register")
    /\ sup' = [sup EXCEPT ![t][r].at = Waits(t, r, "connecting")]
    /\ SetLink(t, r, "connecting")
    /\ UNCHANGED <<starts, fwds, started, session, open, made, server>>

Connected(t, r) ==
    /\ Supervisor(t, r, "connecting")
    /\ made < MaxConns
    /\ made' = made + 1
    /\ open' = open \cup {made + 1}
    /\ sup' = [sup EXCEPT ![t][r] = [@ EXCEPT !.at = Waits(t, r, "connected"), !.conn = made + 1]]
    /\ SetLink(t, r, "connected")
    /\ UNCHANGED <<starts, fwds, started, session, server>>

(* The host asks for its key or a password: the question waits in the entry, *)
(* or is cancelled if the run is not the current one.                        *)
Question(t, r) ==
    /\ Asks
    /\ Supervisor(t, r, "connecting")
    /\ entry[t].ask = 0
    /\ IF Current(t, r)
       THEN /\ entry' = [entry EXCEPT ![t].ask = r]
            /\ sup' = [sup EXCEPT ![t][r].at = "asking"]
       ELSE Ended(t, r)
    /\ UNCHANGED <<starts, fwds, started, session, open, made, server>>

(* The user answers, or cancels.  Nobody may be waiting for it any more.     *)
Answer(t, cancel) ==
    LET r == entry[t].ask IN
    /\ r # 0
    /\ IF Supervisor(t, r, "asking") /\ cancel
       THEN /\ sup' = [sup EXCEPT ![t][r].at = "over"]
            /\ entry' = [entry EXCEPT ![t].ask = 0, ![t].link = "ended"]
       ELSE /\ sup' = IF Supervisor(t, r, "asking")
                      THEN [sup EXCEPT ![t][r].at = "connecting"] ELSE sup
            /\ entry' = [entry EXCEPT ![t].ask = 0]
    /\ UNCHANGED <<starts, fwds, started, session, open, made, server>>

(* What follows a lost connection or a failed attempt.                       *)
TryAgain(t, r) ==
    IF entry[t].kind.reconnect
    THEN /\ sup' = [sup EXCEPT ![t][r] = [@ EXCEPT !.at = Waits(t, r, "retrying"), !.conn = 0]]
         /\ SetLink(t, r, "retrying")
    ELSE Ended(t, r)

ConnectFails(t, r) ==
    /\ Supervisor(t, r, "connecting")
    /\ made < MaxConns
    /\ made' = made + 1
    /\ TryAgain(t, r)
    /\ UNCHANGED <<starts, fwds, started, session, open, server>>

(* Mutant: a keeper that does not see a loss.                               *)
LossUnseen(t, r) == FALSE

(* is_closed, looked at every second.                                        *)
LossNoticed(t, r) ==
    /\ Supervisor(t, r, "connected")
    /\ sup[t][r].conn \notin open
    /\ TryAgain(t, r)
    /\ UNCHANGED <<starts, fwds, started, session, open, made, server>>

(* Mutant: a keeper that forgets to close the connection it kept.           *)
KeeperLeaves(t, r) ==
    /\ sup[t][r].stop /\ sup[t][r].at \in {"connecting", "asking", "connected", "retrying", "stopping"}
    /\ sup' = [sup EXCEPT ![t][r].at = "over"]
    /\ UNCHANGED <<entry, starts, fwds, started, session, open, made, server>>

(* Told to stop, the keeper closes its connection.                           *)
KeeperStops(t, r) ==
    /\ sup[t][r].stop /\ sup[t][r].at \in {"connecting", "asking", "connected", "retrying", "stopping"}
    /\ sup' = [sup EXCEPT ![t][r] = [@ EXCEPT !.at = "over", !.conn = 0]]
    /\ open' = open \ {sup[t][r].conn}
    /\ UNCHANGED <<entry, starts, fwds, started, session, made, server>>

-----------------------------------------------------------------------------
(* tied, of a run that follows the sessions of its host.                     *)

StopForward(f, n) == IF n = 0 THEN f ELSE [f EXCEPT ![n].stop = TRUE]

TiedLooks(t, r) ==
    LET up == session \in open
        running == sup[t][r].fwd
    IN  /\ Supervisor(t, r, "tied")
        /\ sup[t][r].seen # session
        /\ \/ /\ up /\ running = 0
              /\ started < MaxForwards
              /\ started' = started + 1
              /\ fwds' = With(fwds, NewForward(t, r))
              /\ sup' = [sup EXCEPT ![t][r].seen = session, ![t][r].fwd = started + 1]
           \/ /\ ~up
              /\ fwds' = StopForward(fwds, running)
              /\ sup' = [sup EXCEPT ![t][r].seen = session, ![t][r].fwd = 0]
              /\ UNCHANGED started
           \/ /\ up /\ running # 0
              /\ sup' = [sup EXCEPT ![t][r].seen = session]
              /\ UNCHANGED <<fwds, started>>
        /\ UNCHANGED <<entry, starts, session, open, made, server>>

(* Ending drops the forward with it.                                         *)
TiedStops(t, r) ==
    /\ Supervisor(t, r, "tied") /\ sup[t][r].stop
    /\ sup' = [sup EXCEPT ![t][r].at = "over"]
    /\ fwds' = StopForward(fwds, sup[t][r].fwd)
    /\ UNCHANGED <<entry, starts, started, session, open, made, server>>

-----------------------------------------------------------------------------
(* The forwards.  n is one that is not over.                                 *)

At(n, at) == n \in DOMAIN fwds /\ fwds[n].at = at

Remote(n) == entry[fwds[n].t].kind.remote

Move(n, at) == fwds' = [fwds EXCEPT ![n].at = at]

(* listen: the address is free unless a forward has not let go of it yet.    *)
Taken(n) == \E m \in DOMAIN fwds \ {n} :
                fwds[m].at \in {"bound", "listening"} /\ Bind[fwds[m].t] = Bind[fwds[n].t]

Listen(n) ==
    /\ At(n, "start") /\ ~Remote(n)
    /\ \/ /\ ~Taken(n)
          /\ Move(n, "bound")
          /\ UNCHANGED <<entry, sup>>
       \/ /\ Taken(n) \/ Refuses
          /\ ReportedFailed(fwds[n].t, fwds[n].r, [fwds EXCEPT ![n].at = "over"])
    /\ UNCHANGED <<starts, started, session, open, made, server>>

Bound(n) ==
    /\ At(n, "bound")
    /\ Move(n, "listening")
    /\ Reported(fwds[n].t, fwds[n].r, TRUE)
    /\ UNCHANGED <<sup, starts, started, session, open, made, server>>

ListenStops(n) ==
    /\ At(n, "listening") /\ ~Remote(n) /\ fwds[n].stop
    /\ Move(n, "over")
    /\ UNCHANGED <<entry, sup, starts, started, session, open, made, server>>

(* The watch a remote forward runs on.                                       *)
Watch(n) == IF Tied(fwds[n].t) THEN session ELSE sup[fwds[n].t][fwds[n].r].conn

(* remote, at the top of its loop: asks the server to listen.                *)
Look(n) ==
    LET c == Watch(n) IN
    /\ At(n, "start") /\ Remote(n)
    /\ IF c \in open
       THEN /\ fwds' = [fwds EXCEPT ![n].at = "register", ![n].conn = c, ![n].seen = c]
            /\ UNCHANGED entry
       ELSE /\ fwds' = [fwds EXCEPT ![n].at = "idle", ![n].seen = c]
            /\ Reported(fwds[n].t, fwds[n].r, FALSE)
    /\ UNCHANGED <<sup, starts, started, session, open, made, server>>

(* The server listens.                                                       *)
Registered(n) ==
    LET c == fwds[n].conn IN
    /\ At(n, "register")
    /\ c \in open /\ server[c][Bind[fwds[n].t]] = 0
    /\ server' = [server EXCEPT ![c][Bind[fwds[n].t]] = n]
    /\ Move(n, "listening")
    /\ Reported(fwds[n].t, fwds[n].r, TRUE)
    /\ UNCHANGED <<sup, starts, started, session, open, made>>

(* It refuses, it listens there already, or the connection is gone.          *)
RegisterFails(n) ==
    LET c == fwds[n].conn IN
    /\ At(n, "register")
    /\ c \notin open \/ server[c][Bind[fwds[n].t]] # 0 \/ Refuses
    /\ ReportedFailed(fwds[n].t, fwds[n].r, [fwds EXCEPT ![n].at = "idle", ![n].conn = 0])
    /\ UNCHANGED <<starts, started, session, open, made, server>>

(* The connection changed, or the forward was told to stop (or its keeper is *)
(* gone): what it registered is unregistered first.                          *)
Wake(n, done) ==
    /\ n \in DOMAIN fwds /\ Remote(n) /\ fwds[n].at \in {"idle", "listening"}
    /\ IF done THEN \/ fwds[n].stop
                    \/ Supervisor(fwds[n].t, fwds[n].r, "over") /\ Watch(n) = fwds[n].seen
               ELSE Watch(n) # fwds[n].seen
    /\ IF fwds[n].at = "listening"
       THEN fwds' = [fwds EXCEPT ![n].at = "cancel", ![n].done = done]
       ELSE Move(n, IF done THEN "over" ELSE "start")
    /\ UNCHANGED <<entry, sup, starts, started, session, open, made, server>>

(* cancel_tcpip_forward, answered or given up on.                            *)
Unregistered(n) ==
    LET c == fwds[n].conn IN
    /\ At(n, "cancel")
    /\ server' = IF c \in open THEN [server EXCEPT ![c][Bind[fwds[n].t]] = 0] ELSE server
    /\ fwds' = [fwds EXCEPT ![n].at = IF fwds[n].done THEN "over" ELSE "start", ![n].conn = 0]
    /\ UNCHANGED <<entry, sup, starts, started, session, open, made>>

-----------------------------------------------------------------------------
(* The network and the terminal sessions.                                    *)

Lose(c) ==
    /\ c \in open
    /\ open' = open \ {c}
    /\ UNCHANGED <<entry, starts, sup, fwds, started, session, made, server>>

(* session_live: a session of the host connected, or (closed, or lost) went. *)
(* Connecting takes longer than a task needs to bind a port and report it,   *)
(* or to see that it is to stop.                                             *)
SessionUp ==
    /\ \E t \in Tunnels : Tied(t)
    /\ session = 0 /\ made < MaxConns
    /\ \A n \in DOMAIN fwds : fwds[n].at \notin {"start", "bound"}
    /\ \A t \in Tunnels, r \in Runs : sup[t][r].at = "tied" => ~sup[t][r].stop
    /\ made' = made + 1
    /\ open' = open \cup {made + 1}
    /\ session' = made + 1
    /\ UNCHANGED <<entry, starts, sup, fwds, started, server>>

SessionGone ==
    /\ session # 0 /\ session \notin open
    /\ session' = 0
    /\ UNCHANGED <<entry, starts, sup, fwds, started, open, made, server>>

-----------------------------------------------------------------------------
Keeper(t, r) ==
    \/ Connecting(t, r) \/ Connected(t, r) \/ LossNoticed(t, r) \/ KeeperStops(t, r)
    \/ TiedLooks(t, r) \/ TiedStops(t, r)

Forward(n) ==
    \/ Listen(n) \/ Bound(n) \/ ListenStops(n)
    \/ Look(n) \/ Registered(n) \/ RegisterFails(n) \/ Unregistered(n)

TunnelsNext ==
    \/ \E t \in Tunnels :
         \/ SwitchOn(t) \/ Change(t) \/ SwitchOff(t)
         \/ \E cancel \in BOOLEAN : Answer(t, cancel)
         \/ \E r \in Runs : Keeper(t, r) \/ ConnectFails(t, r) \/ Question(t, r)
    \/ \E n \in Forwards : Forward(n) \/ \E done \in BOOLEAN : Wake(n, done)
    \/ \E c \in Conns : Lose(c)
    \/ SessionUp \/ SessionGone

TunnelsSpec == TunnelsInit /\ [][TunnelsNext]_tunnelVars

(* The runtime runs every task.  Both branches of a select that stay ready   *)
(* are taken in the end.                                                     *)
RuntimeFairness ==
    /\ \A t \in Tunnels, r \in Runs : WF_tunnelVars(Keeper(t, r))
    /\ \A n \in Forwards :
         WF_tunnelVars(Forward(n)) /\ SF_tunnelVars(Wake(n, TRUE)) /\ WF_tunnelVars(Wake(n, FALSE))

RuntimeSpec == TunnelsSpec /\ RuntimeFairness

(* The user also answers questions, and the terminal reconnects its session. *)
TunnelsFairSpec ==
    /\ RuntimeSpec
    /\ \A t \in Tunnels : WF_tunnelVars(Answer(t, FALSE))
    /\ WF_tunnelVars(SessionUp) /\ WF_tunnelVars(SessionGone)

-----------------------------------------------------------------------------
(* Entry::view.                                                              *)
View(t) ==
    LET e == entry[t] IN
    CASE ~e.on -> "stopped"
      [] e.on /\ (e.failed \/ e.link = "ended") -> "failed"
      [] e.on /\ ~e.failed /\ e.link = "retrying" -> "retrying"
      [] e.on /\ ~e.failed /\ e.link = "connecting" -> "connecting"
      [] OTHER -> IF (Tied(t) /\ session = 0) \/ e.waiting THEN "waiting"
                  ELSE IF e.listening THEN "running" ELSE "connecting"

(* The forwards of the tunnel's current run that listen and go on.           *)
Listening(t) ==
    {n \in DOMAIN fwds : fwds[n].t = t /\ fwds[n].r = entry[t].run
                         /\ fwds[n].at = "listening" /\ ~fwds[n].stop}

(* No task of the tunnel has anything left to do, and nothing was lost.      *)
Quiet(t) ==
    /\ \A r \in Runs :
         /\ sup[t][r].at \in {"none", "connected", "tied", "over"}
         /\ sup[t][r].stop => sup[t][r].at \in {"none", "over"}
         /\ sup[t][r].at = "connected" => sup[t][r].conn \in open
         /\ sup[t][r].at = "tied" => sup[t][r].seen = session
    /\ session = 0 \/ session \in open
    /\ \A n \in DOMAIN fwds : fwds[n].t = t =>
         /\ fwds[n].at \in {"listening", "idle", "over"}
         /\ fwds[n].stop => fwds[n].at = "over"
         /\ Remote(n) /\ fwds[n].at # "over" => fwds[n].seen = Watch(n)

(* A tied remote forward whose registration failed may see the next session  *)
(* before it sees that it is to stop: it registers once more, and reports    *)
(* that it listens, before it ends.                                          *)
Overtaken(t) ==
    /\ Tied(t) /\ entry[t].kind.remote
    /\ entry[t].run # 0 /\ sup[t][entry[t].run].stop

(* When its tasks have settled, a tunnel is shown as running exactly when a  *)
(* forward of its current run listens: no callback of an older run, and no   *)
(* report that came late, leaves a row that says something else (but for the *)
(* one above).                                                               *)
ShownIsTrue ==
    \A t \in Tunnels : Quiet(t) /\ ~Overtaken(t) =>
        (View(t) = "running" <=> View(t) \notin {"stopped", "failed"} /\ Listening(t) # {})

(* The connections that somebody uses: the terminal session's, and those of  *)
(* the runs that are not over.                                               *)
Used ==
    {c \in open : c = session \/ \E t \in Tunnels, r \in Runs :
                                      sup[t][r].at # "over" /\ sup[t][r].conn = c}

(* A tunnel that is off leaves nothing behind once its tasks have settled:   *)
(* no forward of it keeps its port, and no connection stays open that only   *)
(* it used.                                                                  *)
NothingLeft ==
    \A t \in Tunnels : Quiet(t) /\ ~entry[t].on =>
        /\ \A n \in DOMAIN fwds : fwds[n].t = t => fwds[n].at = "over"
        /\ open \subseteq Used

(* The row of a tunnel shows what its settled tasks do, and a tunnel that is *)
(* off leaves no task, listener, forward or connection behind.              *)
TunnelsTrue == ShownIsTrue /\ NothingLeft

(* A forward of the current run listens, over a connection that is open.     *)
Carries(t) == Listening(t) # {} /\ \A n \in Listening(t) : Watch(n) \in open

(* It would need a connection or a forward more than the bounds allow.       *)
OutOfBounds(t) ==
    \/ made = MaxConns /\ open = {}
    \/ /\ started = MaxForwards
       /\ \A n \in DOMAIN fwds :
            fwds[n].t = t /\ fwds[n].r = entry[t].run => fwds[n].stop \/ fwds[n].at = "over"

(* The tunnel carries connections, shows that it failed or asks the user.    *)
UpOrTold(t) ==
    entry[t].on =>
        \/ Carries(t) \/ View(t) = "failed" \/ entry[t].ask # 0
        \/ Overtaken(t) \/ OutOfBounds(t)

(* A tunnel that is switched on ends up carrying connections, unless it was  *)
(* told that it failed (its port is taken, its host cannot be reached and it *)
(* does not reconnect, the connection was lost while its port was asked for) *)
(* or keeps asking the user: a lost connection is replaced and the forward   *)
(* carries on over the new one, a remote one asked for again.                *)
ComesUp == \A t \in Tunnels : []<>UpOrTold(t)

=============================================================================
