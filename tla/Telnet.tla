------------------------------- MODULE Telnet -------------------------------
(***************************************************************************)
(* A telnet session (opensesh-proto-misc/src/telnet.rs): the task connects *)
(* while it follows the pane, then takes the server's messages and the     *)
(* pane's commands.  Nvt negotiates the options: an answer only when the   *)
(* state changes, and the window size once the server asked for it.        *)
(*                                                                         *)
(* The two directions of the connection are queues of [verb, opt] and      *)
(* ["size", n] messages; text is left out.  The server (external) is a     *)
(* program that answers by the same rule.  A Patient server starts nothing *)
(* about an option while an answer to it is outstanding, and takes the     *)
(* answer as one; an impatient one takes everything as a request.          *)
(***************************************************************************)
EXTENDS Naturals, Sequences, FiniteSets

CONSTANTS Patient,    \* the server waits for answers
          Requests,   \* bound: what the server starts by itself
          Resizes     \* bound: resizes of the pane

Theirs == {"echo", "binary"}             \* THEIRS; "sga" goes the same way
Ours == {"naws", "binary"}               \* OURS; "sga" and "ttype" go the same way
Options == {"echo", "naws", "binary", "other"}

VARIABLES
    pc,         \* "connect", "up", "ended"
    commands,   \* the pane's commands
    size,       \* Nvt::size (the task's before the connection is up)
    ours, theirs, \* options on for the client, for the server
    toServer, toClient,
    sOwn, sPeer, \* the server's view of the two
    sWaits,     \* what the server waits an answer for: <<side, opt>>
    sSize,      \* the size the server was told last
    asked, requests, resizes \* the pane's size, counters

telnetVars == <<pc, commands, size, ours, theirs, toServer, toClient, sOwn, sPeer, sWaits,
                sSize, asked, requests, resizes>>
server == <<sOwn, sPeer, sWaits, sSize, requests>>
nvt == <<ours, theirs>>

TInit ==
    /\ pc = "connect" /\ commands = <<>> /\ size = 0 /\ ours = {} /\ theirs = {}
    /\ toServer = <<>> /\ toClient = <<>>
    /\ sOwn = {} /\ sPeer = {} /\ sWaits = {} /\ sSize = 0
    /\ asked = 0 /\ requests = 0 /\ resizes = 0

Msg(verb, o) == [verb |-> verb, opt |-> o]
Size(n) == [verb |-> "size", opt |-> n]

(***************************************************************************)
(* The pane.                                                               *)
(***************************************************************************)
PaneResizes ==
    /\ resizes < Resizes /\ resizes' = resizes + 1
    /\ asked' = resizes + 1 /\ commands' = Append(commands, [k |-> "resize", size |-> resizes + 1])
    /\ UNCHANGED <<pc, size, nvt, toServer, toClient, server>>

PaneCloses ==
    /\ ~\E i \in DOMAIN commands : commands[i].k = "shutdown"
    /\ commands' = Append(commands, [k |-> "shutdown"])
    /\ UNCHANGED <<pc, size, nvt, toServer, toClient, server, asked, resizes>>

(***************************************************************************)
(* run, until the connection is up.                                        *)
(***************************************************************************)
ConnectingCommand ==
    /\ pc = "connect" /\ commands # <<>> /\ commands' = Tail(commands)
    /\ IF Head(commands).k = "shutdown" THEN pc' = "ended" /\ UNCHANGED size
       ELSE size' = Head(commands).size /\ UNCHANGED pc
    /\ UNCHANGED <<nvt, toServer, toClient, server, asked, resizes>>

Connected ==
    /\ pc = "connect" /\ pc' \in {"up", "ended"}
    /\ UNCHANGED <<commands, size, nvt, toServer, toClient, server, asked, resizes>>

(***************************************************************************)
(* Nvt::negotiate: the new state and the answer.                           *)
(***************************************************************************)
Negotiate(m) ==
    \/ /\ m.verb = "will" /\ UNCHANGED ours
       /\ theirs' = IF m.opt \in Theirs THEN theirs \cup {m.opt} ELSE theirs
       /\ toServer' = IF m.opt \notin Theirs THEN Append(toServer, Msg("dont", m.opt))
                      ELSE IF m.opt \notin theirs THEN Append(toServer, Msg("do", m.opt))
                      ELSE toServer
    \/ /\ m.verb = "wont" /\ UNCHANGED ours
       /\ theirs' = theirs \ {m.opt}
       /\ toServer' = IF m.opt \in theirs THEN Append(toServer, Msg("dont", m.opt))
                      ELSE toServer
    \/ /\ m.verb = "do" /\ UNCHANGED theirs
       /\ ours' = IF m.opt \in Ours THEN ours \cup {m.opt} ELSE ours
       /\ toServer' =
            IF m.opt \notin Ours THEN Append(toServer, Msg("wont", m.opt))
            ELSE IF m.opt \in ours THEN toServer
            ELSE Append(toServer, Msg("will", m.opt))
                 \o (IF m.opt = "naws" THEN <<Size(size)>> ELSE <<>>)
    \/ /\ m.verb = "dont" /\ UNCHANGED theirs
       /\ ours' = ours \ {m.opt}
       /\ toServer' = IF m.opt \in ours THEN Append(toServer, Msg("wont", m.opt))
                      ELSE toServer

Receive ==
    /\ pc = "up" /\ toClient # <<>> /\ toClient' = Tail(toClient)
    /\ Negotiate(Head(toClient))
    /\ UNCHANGED <<pc, commands, size, server, asked, resizes>>

\* Nvt::resize.
Resize(n) ==
    /\ size' = n
    /\ toServer' = IF "naws" \in ours THEN Append(toServer, Size(n)) ELSE toServer

Command ==
    /\ pc = "up" /\ commands # <<>> /\ commands' = Tail(commands)
    /\ IF Head(commands).k = "shutdown" THEN pc' = "ended" /\ UNCHANGED <<size, toServer>>
       ELSE Resize(Head(commands).size) /\ UNCHANGED pc
    /\ UNCHANGED <<nvt, toClient, server, asked, resizes>>

\* The server closed, or reading or writing failed.
Lost ==
    /\ pc = "up" /\ pc' = "ended"
    /\ UNCHANGED <<commands, size, nvt, toServer, toClient, server, asked, resizes>>

(***************************************************************************)
(* The server.                                                             *)
(***************************************************************************)
Toggle(set, o) == IF o \in set THEN set \ {o} ELSE set \cup {o}

ServerStarts(side, o) ==
    /\ pc = "up" /\ requests < Requests /\ requests' = requests + 1
    /\ Patient => <<side, o>> \notin sWaits
    /\ sWaits' = IF Patient THEN sWaits \cup {<<side, o>>} ELSE sWaits
    /\ \/ /\ side = "own" /\ sOwn' = Toggle(sOwn, o) /\ UNCHANGED sPeer
          /\ toClient' = Append(toClient, Msg(IF o \in sOwn THEN "wont" ELSE "will", o))
       \/ /\ side = "peer" /\ sPeer' = Toggle(sPeer, o) /\ UNCHANGED sOwn
          /\ toClient' = Append(toClient, Msg(IF o \in sPeer THEN "dont" ELSE "do", o))
    /\ UNCHANGED <<pc, commands, size, nvt, toServer, sSize, asked, resizes>>

ServerTakes ==
    /\ pc = "up" /\ toServer # <<>> /\ toServer' = Tail(toServer)
    /\ LET m == Head(toServer)
           side == IF m.verb \in {"do", "dont"} THEN "own" ELSE "peer"
           on == m.verb \in {"do", "will"}
           view == IF side = "own" THEN sOwn ELSE sPeer
           new == IF on THEN view \cup {m.opt} ELSE view \ {m.opt}
           answer == IF side = "own" THEN IF on THEN "will" ELSE "wont"
                     ELSE IF on THEN "do" ELSE "dont" IN
       \/ /\ m.verb = "size" /\ sSize' = m.opt
          /\ UNCHANGED <<sOwn, sPeer, sWaits, toClient>>
       \/ /\ m.verb # "size" /\ UNCHANGED sSize
          /\ sOwn' = IF side = "own" THEN new ELSE sOwn
          /\ sPeer' = IF side = "peer" THEN new ELSE sPeer
          /\ sWaits' = sWaits \ {<<side, m.opt>>}
          /\ toClient' = IF new # view /\ <<side, m.opt>> \notin sWaits
                         THEN Append(toClient, Msg(answer, m.opt)) ELSE toClient
    /\ UNCHANGED <<pc, commands, size, nvt, requests, asked, resizes>>

TNext ==
    \/ PaneResizes \/ PaneCloses \/ ConnectingCommand \/ Connected
    \/ Receive \/ Command \/ Lost
    \/ \E side \in {"own", "peer"}, o \in Options : ServerStarts(side, o)
    \/ ServerTakes

TSpec == TInit /\ [][TNext]_telnetVars

\* The task is polled and the server reads.
TFairness ==
    /\ WF_telnetVars(Receive) /\ WF_telnetVars(Command \/ ConnectingCommand)
    /\ WF_telnetVars(ServerTakes)

-----------------------------------------------------------------------------
Quiet == toServer = <<>> /\ toClient = <<>> /\ commands = <<>>

\* When nothing is on the way, both ends agree about every option, and a server
\* that asked for the window size has the pane's.
Agreed ==
    pc = "up" /\ Quiet =>
    /\ theirs = sOwn /\ ours = sPeer
    /\ "naws" \in ours => sSize = asked
=============================================================================
