------------------------------ MODULE Desktop ------------------------------
(***************************************************************************)
(* A remote desktop pane (bridge/rdp_view.rs, app/rdp.rs) and the driver   *)
(* of its session: the RDP helper program (rdp/helper) or, for VNC, a task *)
(* of the app (vnc/drive.rs, vnc/client.rs), spoken to with the messages   *)
(* of opensesh-rdp-protocol.                                               *)
(*                                                                         *)
(* The pane lives on the GUI thread; a reader thread puts what the driver  *)
(* says into the connection's State and wakes the pane.  The pane decides  *)
(* about the server's certificate, asks for the password, remembers it     *)
(* once it worked, opens the tunnel through the jump hosts, and may be     *)
(* made again (a tab moved) while the connection stays.                    *)
(***************************************************************************)
EXTENDS Naturals, Sequences
LOCAL INSTANCE SequencesExt

CONSTANTS
    None,
    Plans,        \* what is connected to: see PlanType
    Certs,        \* the certificates the server may present
    MaxConnects,  \* bound: connections the driver tries
    MaxActs,      \* bound: reconnects, disconnects and moves of the tab
                  \* (one of them through jump hosts)
    MaxFaults     \* bound: helpers that die, changes of the jump host's connection

VARIABLES
    plan,    \* what the pane connects to
    pane,    \* the item and what it queued: see NewItem
    link,    \* the connection's State, its `notified` and `latest`
    pipe,    \* what the helper wrote and the reader thread has not read
    driver,  \* the session's driver
    trust,   \* trusted_certificates.toml: the server's fingerprint or None
    past     \* history: who got the password, what the user accepted, what was saved

deskVars == <<plan, pane, link, pipe, driver, trust, past>>

\* Status::Disconnected, by its code: "auth" asks for a new password.
Disconnected == {"auth", "lost", "jump"}

(***************************************************************************)
(* The pane                                                                *)
(***************************************************************************)
NewItem ==
    [shown |-> None, running |-> FALSE, encrypted |-> TRUE, question |-> None,
     connectSent |-> FALSE, helperGone |-> FALSE, session |-> FALSE,
     jumpPort |-> FALSE, jumpUp |-> FALSE, jumpEnded |-> FALSE, remember |-> None]
NewPane == [item |-> NewItem, inbox |-> <<>>, gui |-> <<>>, tunnel |-> "none",
            fetching |-> 0, saved |-> None]
Empty == [status |-> None, certificate |-> None, unencrypted |-> FALSE, ended |-> FALSE]
NewLink == [state |-> Empty, notified |-> FALSE, latest |-> None, over |-> FALSE]
NewDriver == [at |-> "first", password |-> None, trusted |-> None, cert |-> None, encrypted |-> TRUE]

Send(p, message) == [p EXCEPT !.inbox = Append(@, message)]

\* set_status: a connected desktop saves the password to remember, a
\* disconnected one forgets it.
SetStatus(p, s) ==
    LET i == p.item
        on == s = "connected"
    IN [p EXCEPT !.item = [i EXCEPT !.shown = s, !.running = on,
                                    !.encrypted = IF s = "connecting" THEN TRUE ELSE @,
                                    !.remember = IF on \/ s \in Disconnected THEN None ELSE @],
                 !.saved = IF on /\ plan.host /\ i.remember # None THEN i.remember ELSE @]

\* A question it replaces is cancelled.
Ask(p, question) == [p EXCEPT !.item.question = question]
Password(first) == [about |-> "password", first |-> first]
Certificate(cert) == [about |-> "certificate", cert |-> cert]
Jump == [about |-> "jump"]

ConnectWith(p, password, first) ==
    LET given == Send(p, [do |-> "password", password |-> password])
    IN IF first THEN [Send(given, [do |-> "connect"]) EXCEPT !.item.connectSent = TRUE]
       ELSE Send(given, [do |-> "reconnect"])

\* The keychain answers later; without a saved password the user is asked.
BeginPassword(p) ==
    IF plan.saved = None THEN Ask(p, Password(TRUE))
    ELSE [SetStatus(p, "connecting") EXCEPT !.fetching = @ + 1]
OpenJump(p) ==
    SetStatus([p EXCEPT !.item.jumpUp = FALSE, !.item.jumpEnded = FALSE, !.tunnel = "opening"], "connecting")
Begin(p) == IF plan.jump /\ ~p.item.jumpUp THEN OpenJump(p) ELSE BeginPassword(p)

JumpReady(p) ==
    IF ~p.item.jumpUp \/ ~p.item.jumpPort \/ p.item.running THEN p
    ELSE IF p.item.connectSent THEN Send(p, [do |-> "reconnect"]) ELSE BeginPassword(p)
JumpFailed(p) ==
    SetStatus([p EXCEPT !.tunnel = "none", !.item.jumpUp = FALSE, !.item.jumpEnded = TRUE], "lost")
JumpLink(p, what) ==
    CASE what = "up" -> JumpReady([p EXCEPT !.item.jumpUp = TRUE])
      [] what = "connecting" -> [p EXCEPT !.item.jumpUp = FALSE]
      [] what = "retrying" -> [p EXCEPT !.item.jumpUp = FALSE, !.item.shown = "jump", !.item.running = FALSE]
      [] what = "ended" -> JumpFailed(p)
      [] what = "listening" -> JumpReady([p EXCEPT !.item.jumpPort = TRUE])
      [] OTHER -> Ask(p, Jump)

\* attach wakes the item at once.
Attach(p) == [p EXCEPT !.item.session = TRUE, !.gui = Append(@, "drain")]
\* start without a connection of this pane: a new helper.
StartNew(p) == Begin(Attach([p EXCEPT !.item.connectSent = FALSE, !.item.helperGone = FALSE, !.inbox = <<>>]))
\* start with one (the item was made again): its latest state is shown.
StartAgain(p) ==
    LET q == Attach([p EXCEPT !.item.connectSent = link.latest # None, !.item.helperGone = link.over])
    IN IF link.latest = None THEN q ELSE SetStatus(q, link.latest)

(***************************************************************************)
(* The connection: the reader thread and the State                         *)
(***************************************************************************)
\* receive: the latest of each; notify: the item is woken unless it already is.
Receive(l, m) ==
    [l EXCEPT !.state = [@ EXCEPT !.status = IF m.say = "status" THEN m.status ELSE @,
                                  !.certificate = IF m.say = "certificate" THEN m.cert ELSE @,
                                  !.unencrypted = @ \/ m.say = "unencrypted",
                                  !.ended = @ \/ m.say = "ended"],
              !.latest = IF m.say = "status" THEN m.status ELSE @,
              !.over = @ \/ m.say = "ended",
              !.notified = TRUE]
Notify(p) == IF link.notified THEN p ELSE [p EXCEPT !.gui = Append(@, "drain")]
Says(status) == [say |-> "status", status |-> status]
\* The driver says one thing: VNC's task calls receive itself, the helper
\* writes to its output.  took: this step took a message of the inbox.
Tell(m, took) ==
    LET p == IF took THEN [pane EXCEPT !.inbox = Tail(@)] ELSE pane
    IN IF plan.vnc THEN link' = Receive(link, m) /\ pane' = Notify(p) /\ UNCHANGED pipe
       ELSE pipe' = Append(pipe, m) /\ pane' = p /\ UNCHANGED link
ReadLoop ==
    /\ pipe # <<>>
    /\ link' = Receive(link, Head(pipe)) /\ pane' = Notify(pane)
    /\ pipe' = Tail(pipe)
    /\ UNCHANGED <<plan, driver, trust, past>>

(***************************************************************************)
(* The driver                                                              *)
(***************************************************************************)
Inbox == pane.inbox
Taken == pane' = [pane EXCEPT !.inbox = Tail(@)]
DriverKeeps == UNCHANGED <<plan, trust>>
Connecting(d) == [d EXCEPT !.at = "connecting"]
Connects(took) ==
    /\ past.connects < MaxConnects
    /\ past' = [past EXCEPT !.connects = @ + 1]
    /\ Tell(Says("connecting"), took)

\* first_connect, wait_for_reconnect: the messages before a connection.
TakesMessage ==
    /\ driver.at \in {"first", "waiting"} /\ Inbox # <<>> /\ DriverKeeps
    /\ LET m == Head(Inbox)
       IN \/ /\ m.do = "password"
             /\ driver' = [driver EXCEPT !.password = m.password]
             /\ Taken /\ UNCHANGED <<link, pipe, past>>
          \/ /\ m.do = (IF driver.at = "first" THEN "connect" ELSE "reconnect")
             /\ driver' = Connecting(driver) /\ Connects(TRUE)
          \/ /\ m.do = "disconnect"
             /\ driver' = [driver EXCEPT !.at = "ending"]
             /\ Taken /\ UNCHANGED <<link, pipe, past>>
          \/ /\ m.do \notin {"password", "disconnect", IF driver.at = "first" THEN "connect" ELSE "reconnect"}
             /\ Taken /\ UNCHANGED <<driver, link, pipe, past>>

Lost(took) == driver' = [driver EXCEPT !.at = "waiting"] /\ Tell(Says("lost"), took)
NotReached == driver.at \in {"connecting", "auth"} /\ Lost(FALSE) /\ DriverKeeps /\ UNCHANGED past
\* TLS: the certificate is decided before any credential goes out.
PresentsUnasked(cert) ==
    /\ driver.at = "connecting" /\ DriverKeeps
    /\ driver' = [driver EXCEPT !.cert = cert, !.encrypted = TRUE, !.at = "auth"]
    /\ UNCHANGED <<pane, link, pipe, past>>
Presents(cert) ==
    /\ driver.at = "connecting" /\ DriverKeeps
    /\ IF cert = driver.trusted
       THEN /\ driver' = [driver EXCEPT !.cert = cert, !.encrypted = TRUE, !.at = "auth"]
            /\ UNCHANGED <<pane, link, pipe, past>>
       ELSE /\ driver' = [driver EXCEPT !.cert = cert, !.encrypted = TRUE, !.at = "asking"]
            /\ Tell([say |-> "certificate", cert |-> cert], FALSE) /\ UNCHANGED past
\* A VNC server without VeNCrypt: no certificate, no encryption.
PresentsNothing ==
    /\ plan.vnc /\ driver.at = "connecting" /\ DriverKeeps
    /\ driver' = [driver EXCEPT !.cert = None, !.encrypted = FALSE, !.at = "auth"]
    /\ UNCHANGED <<pane, link, pipe, past>>
\* certificate_answer: everything else but the end is dropped.
TakesAnswer ==
    /\ driver.at = "asking" /\ Inbox # <<>> /\ DriverKeeps /\ UNCHANGED past
    /\ LET m == Head(Inbox)
       IN \/ /\ m.do = "certificate" /\ m.accept
             /\ driver' = [driver EXCEPT !.trusted = driver.cert, !.at = "auth"]
             /\ Taken /\ UNCHANGED <<link, pipe>>
          \/ m.do = "certificate" /\ ~m.accept /\ Lost(TRUE)
          \/ /\ m.do = "disconnect"
             /\ driver' = [driver EXCEPT !.at = "ending"] /\ Taken /\ UNCHANGED <<link, pipe>>
          \/ /\ m.do \notin {"certificate", "disconnect"}
             /\ Taken /\ UNCHANGED <<driver, link, pipe>>
\* VNC's handshake has one timeout, the question included; RDP's question none.
AnswerTooLate == plan.vnc /\ driver.at = "asking" /\ Lost(FALSE) /\ DriverKeeps /\ UNCHANGED past
\* NLA, or VNC's authentication: the password goes to whom the connection is with.
Authenticates ==
    /\ driver.at = "auth" /\ DriverKeeps
    /\ past' = [past EXCEPT !.sentTo = @ \cup {driver.cert}]
    /\ IF driver.password = "good"
       THEN driver' = [driver EXCEPT !.at = "showing"] /\ Tell(Says("connected"), FALSE)
       ELSE driver' = [driver EXCEPT !.at = "waiting"] /\ Tell(Says("auth"), FALSE)
ShowsDesktop ==
    /\ driver.at = "showing" /\ DriverKeeps /\ UNCHANGED past
    /\ driver' = [driver EXCEPT !.at = "active"]
    /\ IF driver.encrypted THEN UNCHANGED <<pane, link, pipe>>
       ELSE Tell([say |-> "unencrypted"], FALSE)
\* The active loop: input and the rest change nothing here.
ActiveTakes ==
    /\ driver.at = "active" /\ Inbox # <<>> /\ DriverKeeps /\ UNCHANGED <<link, pipe, past>> /\ Taken
    /\ driver' = CASE Head(Inbox).do = "disconnect" -> [driver EXCEPT !.at = "ending"]
                   [] Head(Inbox).do = "password" /\ plan.vnc -> [driver EXCEPT !.password = Head(Inbox).password]
                   [] OTHER -> driver
ActiveLost == driver.at = "active" /\ Lost(FALSE) /\ DriverKeeps /\ UNCHANGED past
\* The server kept its size after a resize (or has no display control).
ConnectsAtSize ==
    /\ ~plan.vnc /\ driver.at = "active" /\ DriverKeeps
    /\ driver' = Connecting(driver) /\ Connects(FALSE)
\* The helper ends, or the VNC task: the reader says so.
Ends ==
    /\ driver.at = "ending" /\ DriverKeeps /\ UNCHANGED past
    /\ driver' = [driver EXCEPT !.at = "ended"] /\ Tell([say |-> "ended"], FALSE)
HelperDies ==
    /\ ~plan.vnc /\ driver.at \notin {"ending", "ended"} /\ past.faults < MaxFaults
    /\ driver' = [driver EXCEPT !.at = "ending"]
    /\ past' = [past EXCEPT !.faults = @ + 1]
    /\ DriverKeeps /\ UNCHANGED <<pane, link, pipe>>

(***************************************************************************)
(* The GUI thread                                                          *)
(***************************************************************************)
PaneOnly == UNCHANGED <<plan, link, pipe, driver, trust, past>>
Next1(p) == [p EXCEPT !.gui = Tail(@)]

\* drain: what happened since the item last looked, in this order.
Drained(p, st) ==
    LET shown == IF st.status = None THEN p
                 ELSE IF st.status = "auth" THEN Ask(SetStatus(p, "auth"), Password(FALSE))
                 ELSE SetStatus(p, st.status)
        asked == IF st.certificate = None THEN shown
                 ELSE IF st.certificate = trust THEN Send(shown, [do |-> "certificate", accept |-> TRUE])
                 ELSE Ask(shown, Certificate(st.certificate))
        gone == IF ~st.ended THEN asked
                ELSE LET q == [asked EXCEPT !.item.helperGone = TRUE]
                     IN IF q.item.shown \in Disconnected THEN q ELSE SetStatus(q, "lost")
    IN IF st.unencrypted THEN [gone EXCEPT !.item.encrypted = FALSE] ELSE gone
\* take: the state and `notified`; the item is woken again on the next change.
Take(l) == [l EXCEPT !.state = Empty, !.notified = FALSE]
Drain ==
    /\ pane.gui # <<>> /\ Head(pane.gui) = "drain"
    /\ pane' = Drained(Next1(pane), link.state)
    /\ link' = Take(link)
    /\ past' = [past EXCEPT !.accepted = IF link.state.certificate # None /\ link.state.certificate = trust
                                         THEN @ \cup {trust} ELSE @]
    /\ UNCHANGED <<plan, pipe, driver, trust>>
\* The keychain's answer.
SavedPassword ==
    /\ pane.gui # <<>> /\ Head(pane.gui) = "saved"
    /\ pane' = IF plan.saved = "locked" THEN SetStatus(Next1(pane), "lost")
               ELSE ConnectWith(Next1(pane), plan.saved, TRUE)
    /\ PaneOnly
KeychainAnswers ==
    /\ pane.fetching > 0
    /\ pane' = [pane EXCEPT !.fetching = @ - 1, !.gui = Append(@, "saved")]
    /\ PaneOnly
JumpTells ==
    /\ pane.gui # <<>> /\ Head(pane.gui) \notin {"drain", "saved"}
    /\ pane' = JumpLink(Next1(pane), Head(pane.gui))
    /\ PaneOnly

\* answer_prompt.
AnswerCertificate(how) ==
    /\ pane.item.question # None /\ pane.item.question.about = "certificate"
    /\ LET cert == pane.item.question.cert
       IN /\ pane' = Send(Ask(pane, None), [do |-> "certificate", accept |-> how # "no"])
          /\ trust' = IF how = "save" THEN cert ELSE trust
          /\ past' = [past EXCEPT !.accepted = IF how # "no" THEN @ \cup {cert} ELSE @]
    /\ UNCHANGED <<plan, link, pipe, driver>>
AnswerPassword(password, remember) ==
    /\ pane.item.question # None /\ pane.item.question.about = "password"
    /\ pane' = ConnectWith([Ask(pane, None) EXCEPT !.item.remember = IF remember THEN password ELSE None],
                           password, pane.item.question.first)
    /\ PaneOnly
CancelPassword ==
    /\ pane.item.question # None /\ pane.item.question.about = "password"
    /\ pane' = IF pane.item.question.first THEN SetStatus(Ask(pane, None), "lost") ELSE Ask(pane, None)
    /\ PaneOnly
AnswerJump ==
    /\ pane.item.question = Jump
    /\ pane' = [Ask(pane, None) EXCEPT !.tunnel = IF @ = "asked" THEN "answered" ELSE @]
    /\ PaneOnly

MayAct == past.acts < (IF plan.jump THEN 1 ELSE MaxActs)
Acts == MayAct /\ past' = [past EXCEPT !.acts = @ + 1]
Reconnect ==
    /\ Acts /\ UNCHANGED <<plan, trust>>
    /\ ~pane.item.running /\ pane.item.question = None
    /\ IF pane.item.helperGone \/ ~pane.item.session
       THEN /\ past.connects < MaxConnects
            /\ pane' = StartNew([pane EXCEPT !.tunnel = "none"])
            /\ link' = [NewLink EXCEPT !.notified = TRUE] /\ pipe' = <<>> /\ driver' = NewDriver
       ELSE /\ pane' = IF pane.item.jumpEnded THEN OpenJump(pane)
                       ELSE IF pane.item.connectSent THEN Send(pane, [do |-> "reconnect"])
                       ELSE Begin(pane)
            /\ UNCHANGED <<link, pipe, driver>>
Disconnect ==
    /\ Acts /\ UNCHANGED <<plan, link, pipe, driver, trust>>
    /\ pane.item.session /\ ~pane.item.helperGone
    /\ pane' = SetStatus(Ask([Send(pane, [do |-> "disconnect"]) EXCEPT !.item.helperGone = TRUE], None), "lost")
\* A tab moved: the item is made again; closures queued on the old one are
\* gone, and the tunnel's reports with it.
MoveItem ==
    /\ MayAct
    /\ pane' = StartAgain([pane EXCEPT !.item = NewItem, !.gui = <<>>, !.fetching = 0,
                                       !.tunnel = IF @ = "none" THEN @ ELSE "unheard"])
    /\ link' = [link EXCEPT !.notified = TRUE]
    /\ past' = [past EXCEPT !.acts = @ + 1, !.moved = TRUE, !.blind = @ \/ (pane.item.connectSent /\ link.latest = None)]
    /\ UNCHANGED <<plan, pipe, driver, trust>>

(***************************************************************************)
(* The tunnel through the jump hosts                                       *)
(***************************************************************************)
TunnelGoes(from, to, tells) ==
    /\ pane.tunnel = from
    /\ pane' = [pane EXCEPT !.tunnel = to, !.gui = @ \o tells]
    /\ UNCHANGED <<plan, link, pipe, driver, trust>>
Flap == past.faults < MaxFaults /\ past' = [past EXCEPT !.faults = @ + 1]
TunnelStep ==
    \/ TunnelGoes("opening", "connecting", <<"listening">>) /\ UNCHANGED past
    \/ TunnelGoes("connecting", "up", <<"up">>) /\ UNCHANGED past
    \/ TunnelGoes("answered", "up", <<"up">>) /\ UNCHANGED past
    \/ TunnelGoes("connecting", "asked", <<"question">>) /\ Flap
    \/ TunnelGoes("connecting", "none", <<"ended">>) /\ Flap
    \/ TunnelGoes("up", "connecting", <<"retrying", "connecting">>) /\ Flap
    \* The question was cancelled: its request was dropped.
    \/ /\ pane.item.question # Jump /\ ~Contains(pane.gui, "question")
       /\ TunnelGoes("asked", "none", <<"ended">>) /\ UNCHANGED past

(***************************************************************************)
(* The specification                                                       *)
(***************************************************************************)
PlanType == [vnc : BOOLEAN, jump : BOOLEAN, saved : {None, "good", "bad", "locked"}, host : BOOLEAN]
DInit ==
    /\ plan \in Plans \cap PlanType
    /\ pane = StartNew(NewPane)
    /\ link = [NewLink EXCEPT !.notified = TRUE] /\ pipe = <<>> /\ driver = NewDriver
    /\ trust \in {None, CHOOSE c \in Certs : TRUE}
    /\ past = [sentTo |-> {}, accepted |-> {}, connects |-> 0, blind |-> FALSE,
             moved |-> FALSE, acts |-> 0, faults |-> 0]

Driver ==
    \/ TakesMessage \/ NotReached \/ (\E c \in Certs : Presents(c)) \/ PresentsNothing
    \/ TakesAnswer \/ AnswerTooLate \/ Authenticates \/ ShowsDesktop
    \/ ActiveTakes \/ ActiveLost \/ ConnectsAtSize \/ Ends \/ HelperDies
Gui == Drain \/ SavedPassword \/ JumpTells
User ==
    \/ \E how \in {"no", "once", "save"} : AnswerCertificate(how)
    \/ \E pw \in {"good", "bad"}, r \in BOOLEAN : AnswerPassword(pw, r)
    \/ CancelPassword \/ AnswerJump \/ Reconnect \/ Disconnect \/ MoveItem
DNext == Driver \/ Gui \/ User \/ ReadLoop \/ KeychainAnswers \/ TunnelStep

DSpec == DInit /\ [][DNext]_deskVars

(***************************************************************************)
(* Properties                                                              *)
(***************************************************************************)
Quiet == pane.inbox = <<>> /\ pipe = <<>> /\ pane.gui = <<>> /\ pane.fetching = 0 /\ driver.at # "ending"

\* "The certificate is decided before any credential goes out.": the RDP
\* helper gives the password only to a server whose very certificate the user
\* accepted or had remembered, whatever was asked before and answered late.
\* (VNC's question can time out, and its late answer meet another question.)
SecretsAfterYes == plan.vnc \/ past.sentTo \subseteq past.accepted \cup {None}

\* Once everything said has been heard (no wake-up is lost), the pane shows a desktop exactly when
\* the driver has one (without jump hosts: a lost one is shown before the
\* driver notices).
Agrees == Quiet /\ ~plan.jump => (pane.item.running <=> driver.at \in {"showing", "active"})
PaneAgrees == ~past.moved => Agrees
\* "The password worked: remember it, as asked. A failed one is forgotten."
RememberedWorked == past.blind \/ pane.saved \in {None, "good"}

=============================================================================
