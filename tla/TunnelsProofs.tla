--------------------------- MODULE TunnelsProofs ---------------------------
(* Proofs about the tunnels, for any number of tunnels of any kind, of runs, *)
(* forwards and connections: what the page shows of a settled tunnel         *)
(* is what its tasks do, and a tunnel that is off leaves nothing behind.     *)
EXTENDS Tunnels, TLAPS

(* ShownIsTrue and NothingLeft speak of settled tasks, so the invariant      *)
(* follows a row and its tasks through everything in between.  Its parts are *)
(* operators of values: a new run is the old one halted and then a start,    *)
(* two steps of the invariant in one of the specification.                   *)

Links == {"none", "connecting", "connected", "retrying", "ended"}

Entries ==
    [kind : Kinds, on : BOOLEAN, run : 0 .. MaxRuns, link : Links, listening : BOOLEAN,
     waiting : BOOLEAN, failed : BOOLEAN, ask : 0 .. MaxRuns]

Sups ==
    [at : {"none", "begin", "connecting", "asking", "connected", "retrying", "stopping",
           "tied", "over"},
     stop : BOOLEAN, conn : 0 .. MaxConns, seen : 0 .. MaxConns, fwd : 0 .. MaxForwards]

Fwds ==
    [t : Tunnels, r : Runs,
     at : {"start", "bound", "listening", "register", "idle", "cancel", "over"},
     stop : BOOLEAN, conn : 0 .. MaxConns, seen : 0 .. MaxConns, done : BOOLEAN]

(* A row e of a tunnel that was started st times.                            *)
RowFits(e, st) ==
    /\ e.on <=> e.run # 0
    /\ e.run <= st /\ e.ask \in {0, e.run}
    /\ e.kind.tied => e.link = "none"
    /\ ~e.kind.remote => ~e.waiting

(* The keeper has no connection yet.                                         *)
Early == {"begin", "connecting", "asking"}

(* The keeper s of run r, when `last` connections were made: one that was    *)
(* replaced was told to stop, and what the row says of the current one's     *)
(* connection is so.                                                         *)
KeeperFits(e, st, r, s, last) ==
    /\ r > st => s = NoSup
    /\ r <= st /\ r # e.run /\ s.at # "none" => s.stop
    /\ s.conn <= last /\ s.seen <= last
    /\ s.conn # 0 => s.at \in {"connected", "stopping"}
    /\ ~e.kind.tied => s.at # "tied" /\ s.fwd = 0
    /\ ~e.kind.tied /\ r = e.run =>
         /\ s.at = "connected" => e.link = "connected"
         /\ s.at = "over" => e.link = "ended" \/ s.stop
         /\ s.at = "none" => e.link = "ended"
         /\ e.link = "ended" => s.at \in {"none", "over"}
         /\ s.stop => e.failed

(* The follower s of a tied run has a forward while it sees the session c of *)
(* its host open.                                                            *)
FollowerFits(e, st, r, s, c, o) ==
    e.kind.tied /\ r <= st =>
        /\ s.at \in {"tied", "over"}
        /\ s.at = "over" => s.stop
        /\ s.seen = 0 => s.fwd = 0
        /\ s.at = "tied" /\ s.seen = c /\ c \in o => s.fwd # 0
        /\ ~e.kind.remote /\ r = e.run /\ s.stop =>
             /\ e.failed
             /\ s.at = "tied" => s.fwd # 0 \/ c \notin o

(* A forward w of a run with the keeper or follower s.                       *)
ForwardFits(e, st, s, w, last) ==
    /\ w.r <= st /\ s.at # "none"
    /\ w.seen <= last /\ w.conn <= last
    /\ ~e.kind.remote => w.at \in {"start", "bound", "listening", "over"}
    /\ e.kind.remote => w.at # "bound"
    /\ ~e.kind.tied => w.stop = s.stop
    /\ w.r = e.run /\ w.at = "listening" => e.listening

Leaves(w) == w.at = "over" \/ (w.at = "cancel" /\ w.done)

(* The forward of an independent tunnel's current run: once it failed it is  *)
(* told to stop and does not listen again.                                   *)
OwnFits(e, s, w) ==
    ~e.kind.tied /\ w.r = e.run =>
        /\ Leaves(w) => e.link = "ended" \/ e.failed
        /\ w.at = "idle" => e.waiting \/ e.failed
        /\ e.kind.remote /\ w.at = "listening" => ~e.waiting
        /\ ~e.kind.remote /\ w.stop => w.at = "over"
        /\ e.kind.remote /\ w.at = "register" =>
             w.conn = w.seen /\ s.conn \in {0, w.seen} /\ s.at \notin Early
        /\ e.kind.remote /\ w.stop =>
             /\ w.at \in {"idle", "start", "over"} /\ s.at \notin Early
             /\ w.at = "idle" => s.conn \in {0, w.seen}
             /\ w.at = "start" => s.conn = 0

Opening == {"start", "bound"}

(* Forward n of a tied tunnel: one its follower let go of was told to stop,  *)
(* and the one it has does not end before it.                                *)
TiedFits(e, s, n, w, c, o) ==
    e.kind.tied =>
        /\ w.stop \/ (n = s.fwd /\ s.at = "tied")
        /\ n = s.fwd /\ s.at = "tied" => ~w.stop
        /\ w.at = "cancel" /\ w.done => w.stop
        /\ ~e.kind.remote /\ w.at \in Opening => n = s.fwd \/ c \notin o
        /\ ~e.kind.remote /\ w.r = e.run /\ s.stop => w.at \notin Opening
        /\ e.kind.remote /\ w.r = e.run /\ w.at = "listening" /\ w.seen = c /\ c \in o => ~e.waiting
        /\ w.r = e.run /\ ~s.stop /\ n = s.fwd => w.at # "over"
        /\ e.kind.remote /\ w.r = e.run /\ ~s.stop /\ w.at = "idle" => w.seen \notin o

(* An independent run has one forward; of a tied one's, one at most is about *)
(* to listen here.                                                           *)
Alone(e, w, v) ==
    /\ e.kind.tied
    /\ ~e.kind.remote => w.at \notin Opening \/ v.at \notin Opening

Of(w, t, r) == w.t = t /\ w.r = r

(* Everything about forward n.                                               *)
AllFits(e, st, s, n, w, c, o, last) ==
    /\ ForwardFits(e, st, s, w, last)
    /\ OwnFits(e, s, w)
    /\ TiedFits(e, s, n, w, c, o)

(* Of rows en, starts st, keepers su, nf forwards fw, the session c and the  *)
(* open ones o of mk connections.                                            *)
Typed(en, st, su, fw, nf, c, o, mk) ==
    /\ en \in [Tunnels -> Entries]
    /\ st \in [Tunnels -> 0 .. MaxRuns]
    /\ su \in [Tunnels -> [Runs -> Sups]]
    /\ nf \in 0 .. MaxForwards /\ fw \in [1 .. nf -> Fwds]
    /\ mk \in 0 .. MaxConns /\ c \in 0 .. mk /\ o \subseteq 1 .. mk

RowsFit(en, st) == \A t \in Tunnels : RowFits(en[t], st[t])

KeepersFit(en, st, su, c, o, mk) ==
    \A t \in Tunnels, r \in Runs :
        /\ KeeperFits(en[t], st[t], r, su[t][r], mk)
        /\ FollowerFits(en[t], st[t], r, su[t][r], c, o)

ForwardsFit(en, st, su, fw, nf, c, o, mk) ==
    \A n \in 1 .. nf :
        AllFits(en[fw[n].t], st[fw[n].t], su[fw[n].t][fw[n].r], n, fw[n], c, o, mk)

AllAlone(en, fw, nf) ==
    \A n, m \in 1 .. nf :
        n # m /\ Of(fw[m], fw[n].t, fw[n].r) => Alone(en[fw[n].t], fw[n], fw[m])

(* Every run has the forward its keeper or follower counts on.               *)
HasForward(en, su, fw, nf) ==
    \A t \in Tunnels, r \in Runs :
        /\ su[t][r].fwd # 0 => su[t][r].fwd \in 1 .. nf /\ Of(fw[su[t][r].fwd], t, r)
        /\ ~en[t].kind.tied /\ su[t][r].at # "none" => \E n \in 1 .. nf : Of(fw[n], t, r)

OpenUsed(su, c, o) == \A x \in o : x = c \/ \E t \in Tunnels, r \in Runs : su[t][r].conn = x

Fit(en, st, su, fw, nf, c, o, mk) ==
    /\ Typed(en, st, su, fw, nf, c, o, mk)
    /\ RowsFit(en, st)
    /\ KeepersFit(en, st, su, c, o, mk)
    /\ ForwardsFit(en, st, su, fw, nf, c, o, mk)
    /\ AllAlone(en, fw, nf)
    /\ HasForward(en, su, fw, nf)
    /\ OpenUsed(su, c, o)

TunnelsInv == Fit(entry, starts, sup, fwds, started, session, open, made)

(* Of the mk connections there were, only open ones are.                     *)
NoneReopened(o, mk, o2) == \A x \in o2 : x <= mk => x \in o

(* Only run r of tunnel t changes: its keeper, its tunnel's row if it is the *)
(* current one or becomes it, and the number of starts if it is new.         *)
OnlyRun(en, st, su, en2, st2, su2, t, r) ==
    /\ \A x \in Tunnels : x # t => en2[x] = en[x] /\ st2[x] = st[x]
    /\ \A x \in Tunnels, q \in Runs : x # t \/ q # r => su2[x][q] = su[x][q]
    /\ en2[t].kind = en[t].kind
    /\ en2[t] = en[t] \/ (en[t].run \in {0, r} /\ en2[t].run \in {0, r})
    /\ st2[t] = st[t] \/ (st2[t] = st[t] + 1 /\ r = st2[t])

(* Only its forwards change or are new.                                      *)
ForwardsOf(fw, nf, fw2, nf2, t, r) ==
    /\ nf <= nf2
    /\ \A n \in 1 .. nf : /\ fw2[n].t = fw[n].t /\ fw2[n].r = fw[n].r
                          /\ ~Of(fw[n], t, r) => fw2[n] = fw[n]
    /\ \A n \in 1 .. nf2 : n > nf => Of(fw2[n], t, r)

(* What it opens it has, and what stays open it keeps.                       *)
ConnOf(o, s, o2, s2, c) == \A x \in o2 : x \notin o \/ x = s.conn => x \in {c, s2.conn}

(* The invariant of this run.                                                *)
RunFits(e, st, s, fw, nf, t, r, c, o, mk) ==
    /\ RowFits(e, st) /\ KeeperFits(e, st, r, s, mk) /\ FollowerFits(e, st, r, s, c, o)
    /\ \A n \in 1 .. nf : Of(fw[n], t, r) => AllFits(e, st, s, n, fw[n], c, o, mk)
    /\ \A n, m \in 1 .. nf :
         n # m /\ Of(fw[n], t, r) /\ Of(fw[m], t, r) => Alone(e, fw[n], fw[m])
    /\ s.fwd # 0 => s.fwd \in 1 .. nf /\ Of(fw[s.fwd], t, r)
    /\ ~e.kind.tied /\ s.at # "none" => \E n \in 1 .. nf : Of(fw[n], t, r)

(* The other runs and their forwards stay as they were.                      *)
LEMMA OtherForward ==
    ASSUME NEW e, NEW st \in Nat, NEW s, NEW n, NEW w \in Fwds, NEW c, NEW o, NEW last \in Nat,
           AllFits(e, st, s, n, w, c, o, last),
           NEW e2, e2.kind = e.kind, e2 = e \/ (w.r # e.run /\ w.r # e2.run),
           NEW st2 \in Nat, st <= st2,
           NEW o2, NEW last2 \in Nat, last <= last2, c <= last, NoneReopened(o, last, o2)
    PROVE  AllFits(e2, st2, s, n, w, c, o2, last2)
<1>1. w.r \in Nat /\ w.seen \in Nat /\ w.conn \in Nat
  BY DEF Fwds, Runs
<1>2. ForwardFits(e2, st2, s, w, last2)
  BY <1>1 DEF AllFits, ForwardFits
<1>3. OwnFits(e2, s, w)
  BY DEF AllFits, OwnFits
<1>4. c \in o2 => c \in o
  BY DEF NoneReopened
<1>5. w.seen \in o2 => w.seen \in o
  BY DEF AllFits, ForwardFits, NoneReopened
<1>6. TiedFits(e2, s, n, w, c, o2)
  BY <1>4, <1>5 DEF AllFits, TiedFits
<1>7. QED
  BY <1>2, <1>3, <1>6 DEF AllFits

LEMMA OtherKeeper ==
    ASSUME NEW e, NEW st \in Nat, NEW r \in Nat, NEW s \in Sups, NEW c, NEW o, NEW last \in Nat,
           KeeperFits(e, st, r, s, last), FollowerFits(e, st, r, s, c, o),
           NEW e2, e2.kind = e.kind, e2 = e \/ (r # e.run /\ r # e2.run),
           NEW st2 \in Nat, st2 = st \/ (st2 = st + 1 /\ r # st2),
           NEW o2, NEW last2 \in Nat, last <= last2, c <= last, NoneReopened(o, last, o2)
    PROVE  KeeperFits(e2, st2, r, s, last2) /\ FollowerFits(e2, st2, r, s, c, o2)
<1>1. s.conn \in Nat /\ s.seen \in Nat
  BY DEF Sups
<1>2. r <= st2 => r <= st
  OBVIOUS
<1>3. r > st2 => r > st
  OBVIOUS
<1>4. KeeperFits(e2, st2, r, s, last2)
  BY <1>1, <1>2, <1>3 DEF KeeperFits
<1>5. FollowerFits(e2, st2, r, s, c, o2)
  BY <1>2 DEF FollowerFits, NoneReopened
<1>6. QED
  BY <1>4, <1>5

(* A step of run r of tunnel t keeps the invariant if it keeps this run's.   *)
LEMMA RunStep ==
    ASSUME NEW en, NEW st, NEW su, NEW fw, NEW nf, NEW c, NEW o, NEW mk,
           NEW en2, NEW st2, NEW su2, NEW fw2, NEW nf2, NEW o2, NEW mk2,
           NEW t \in Tunnels, NEW r \in Runs,
           Fit(en, st, su, fw, nf, c, o, mk), Typed(en2, st2, su2, fw2, nf2, c, o2, mk2), mk <= mk2,
           OnlyRun(en, st, su, en2, st2, su2, t, r), ForwardsOf(fw, nf, fw2, nf2, t, r),
           NoneReopened(o, mk, o2), ConnOf(o, su[t][r], o2, su2[t][r], c),
           RunFits(en2[t], st2[t], su2[t][r], fw2, nf2, t, r, c, o2, mk2)
    PROVE  Fit(en2, st2, su2, fw2, nf2, c, o2, mk2)
<1>1. /\ en \in [Tunnels -> Entries] /\ st \in [Tunnels -> 0 .. MaxRuns]
      /\ su \in [Tunnels -> [Runs -> Sups]] /\ fw \in [1 .. nf -> Fwds]
      /\ nf \in Nat /\ mk \in Nat /\ c \in Nat /\ c <= mk
  BY TunnelsAssumption DEF Fit, Typed
<1>2. /\ en2 \in [Tunnels -> Entries] /\ st2 \in [Tunnels -> 0 .. MaxRuns]
      /\ su2 \in [Tunnels -> [Runs -> Sups]] /\ fw2 \in [1 .. nf2 -> Fwds]
      /\ nf2 \in Nat /\ mk2 \in Nat
  BY TunnelsAssumption DEF Typed
<1>3. \A x \in Tunnels, q \in Runs : x # t \/ q # r =>
        /\ su2[x][q] = su[x][q] /\ su[x][q] \in Sups /\ q \in Nat
        /\ en2[x].kind = en[x].kind
        /\ en2[x] = en[x] \/ (q # en[x].run /\ q # en2[x].run)
        /\ st[x] \in Nat /\ st2[x] \in Nat /\ st[x] <= st2[x]
        /\ st2[x] = st[x] \/ (st2[x] = st[x] + 1 /\ q # st2[x])
  <2> SUFFICES ASSUME NEW x \in Tunnels, NEW q \in Runs, x # t \/ q # r
               PROVE  /\ su2[x][q] = su[x][q] /\ su[x][q] \in Sups /\ q \in Nat
                      /\ en2[x].kind = en[x].kind
                      /\ en2[x] = en[x] \/ (q # en[x].run /\ q # en2[x].run)
                      /\ st[x] \in Nat /\ st2[x] \in Nat /\ st[x] <= st2[x]
                      /\ st2[x] = st[x] \/ (st2[x] = st[x] + 1 /\ q # st2[x])
    OBVIOUS
  <2>0. q \in Nat /\ q # 0
    BY DEF Runs
  <2>1. su2[x][q] = su[x][q] /\ su[x][q] \in Sups /\ q \in Nat /\ q # 0
    BY <1>1, <2>0 DEF OnlyRun
  <2>2. st[x] \in Nat /\ st2[x] \in Nat
    BY <1>1, <1>2, TunnelsAssumption
  <2>3. CASE x # t
    BY <2>1, <2>2, <2>3 DEF OnlyRun
  <2>4. CASE x = t /\ q # r
    BY <2>1, <2>2, <2>4 DEF OnlyRun
  <2>5. QED
    BY <2>3, <2>4
<1>4. RowsFit(en2, st2)
  BY DEF Fit, RowsFit, RunFits, OnlyRun
<1>5. KeepersFit(en2, st2, su2, c, o2, mk2)
  <2> SUFFICES ASSUME NEW x \in Tunnels, NEW q \in Runs
               PROVE  /\ KeeperFits(en2[x], st2[x], q, su2[x][q], mk2)
                      /\ FollowerFits(en2[x], st2[x], q, su2[x][q], c, o2)
    BY DEF KeepersFit
  <2>1. CASE x = t /\ q = r
    BY <2>1 DEF RunFits
  <2>2. CASE x # t \/ q # r
    <3>1. KeeperFits(en[x], st[x], q, su[x][q], mk) /\ FollowerFits(en[x], st[x], q, su[x][q], c, o)
      BY DEF Fit, KeepersFit
    <3>2. /\ su2[x][q] = su[x][q] /\ su[x][q] \in Sups /\ q \in Nat
          /\ en2[x].kind = en[x].kind
          /\ en2[x] = en[x] \/ (q # en[x].run /\ q # en2[x].run)
          /\ st[x] \in Nat /\ st2[x] \in Nat
          /\ st2[x] = st[x] \/ (st2[x] = st[x] + 1 /\ q # st2[x])
      BY <1>3, <2>2
    <3>3. /\ KeeperFits(en2[x], st2[x], q, su[x][q], mk2)
          /\ FollowerFits(en2[x], st2[x], q, su[x][q], c, o2)
      BY <1>1, <1>2, <3>1, <3>2, OtherKeeper, Zenon
    <3>4. QED
      BY <3>2, <3>3
  <2>3. QED
    BY <2>1, <2>2
<1>6. \A n \in 1 .. nf2 : ~Of(fw2[n], t, r) =>
        n \in 1 .. nf /\ fw2[n] = fw[n] /\ fw[n] \in Fwds
  <2> SUFFICES ASSUME NEW n \in 1 .. nf2, ~Of(fw2[n], t, r)
               PROVE  n \in 1 .. nf /\ fw2[n] = fw[n] /\ fw[n] \in Fwds
    OBVIOUS
  <2>1. n \in 1 .. nf
    BY <1>1 DEF ForwardsOf
  <2>2. ~Of(fw[n], t, r)
    BY <2>1 DEF Of, ForwardsOf
  <2>3. QED
    BY <1>1, <2>1, <2>2 DEF ForwardsOf
<1>7. ForwardsFit(en2, st2, su2, fw2, nf2, c, o2, mk2)
  <2> SUFFICES ASSUME NEW n \in 1 .. nf2
               PROVE  AllFits(en2[fw2[n].t], st2[fw2[n].t], su2[fw2[n].t][fw2[n].r], n, fw2[n],
                              c, o2, mk2)
    BY DEF ForwardsFit
  <2>1. CASE Of(fw2[n], t, r)
    BY <2>1 DEF Of, RunFits
  <2>2. CASE ~Of(fw2[n], t, r)
    <3> DEFINE x == fw[n].t
               q == fw[n].r
    <3>1. n \in 1 .. nf /\ fw2[n] = fw[n] /\ fw[n] \in Fwds
      BY <1>6, <2>2
    <3>2. x \in Tunnels /\ q \in Runs /\ (x # t \/ q # r)
      BY <2>2, <3>1 DEF Of, Fwds
    <3>3. AllFits(en[x], st[x], su[x][q], n, fw[n], c, o, mk)
      BY <3>1 DEF Fit, ForwardsFit
    <3>4. /\ su2[x][q] = su[x][q]
          /\ en2[x].kind = en[x].kind
          /\ en2[x] = en[x] \/ (fw[n].r # en[x].run /\ fw[n].r # en2[x].run)
          /\ st[x] \in Nat /\ st2[x] \in Nat /\ st[x] <= st2[x]
      BY <1>3, <3>2
    <3>5. AllFits(en2[x], st2[x], su[x][q], n, fw[n], c, o2, mk2)
      BY <1>1, <1>2, <3>1, <3>3, <3>4, OtherForward, Zenon
    <3>6. QED
      BY <3>1, <3>4, <3>5
  <2>3. QED
    BY <2>1, <2>2
<1>8. \A x \in Tunnels : en2[x].kind = en[x].kind
  BY DEF OnlyRun
<1>9. AllAlone(en2, fw2, nf2)
  <2> SUFFICES ASSUME NEW n \in 1 .. nf2, NEW m \in 1 .. nf2, n # m,
                      Of(fw2[m], fw2[n].t, fw2[n].r)
               PROVE  Alone(en2[fw2[n].t], fw2[n], fw2[m])
    BY DEF AllAlone
  <2>1. CASE Of(fw2[n], t, r)
    <3>1. Of(fw2[m], t, r) /\ fw2[n].t = t
      BY <2>1 DEF Of
    <3>2. QED
      BY <2>1, <3>1 DEF RunFits
  <2>2. CASE ~Of(fw2[n], t, r)
    <3>1. ~Of(fw2[m], t, r)
      BY <2>2 DEF Of
    <3>2. /\ n \in 1 .. nf /\ fw2[n] = fw[n] /\ fw[n] \in Fwds
          /\ m \in 1 .. nf /\ fw2[m] = fw[m]
      BY <1>6, <2>2, <3>1
    <3>3. Alone(en[fw[n].t], fw[n], fw[m])
      BY <3>2 DEF Fit, AllAlone
    <3>4. fw[n].t \in Tunnels
      BY <3>2 DEF Fwds
    <3>5. QED
      BY <1>8, <3>2, <3>3, <3>4 DEF Alone
  <2>3. QED
    BY <2>1, <2>2
<1>10. HasForward(en2, su2, fw2, nf2)
  <2> SUFFICES ASSUME NEW x \in Tunnels, NEW q \in Runs
               PROVE  /\ su2[x][q].fwd # 0 =>
                           su2[x][q].fwd \in 1 .. nf2 /\ Of(fw2[su2[x][q].fwd], x, q)
                      /\ ~en2[x].kind.tied /\ su2[x][q].at # "none" =>
                           \E n \in 1 .. nf2 : Of(fw2[n], x, q)
    BY DEF HasForward
  <2>1. CASE x = t /\ q = r
    BY <2>1 DEF RunFits
  <2>2. CASE x # t \/ q # r
    <3>1. su2[x][q] = su[x][q] /\ en2[x].kind = en[x].kind
      BY <1>3, <2>2
    <3>2. /\ su[x][q].fwd # 0 => su[x][q].fwd \in 1 .. nf /\ Of(fw[su[x][q].fwd], x, q)
          /\ ~en[x].kind.tied /\ su[x][q].at # "none" => \E n \in 1 .. nf : Of(fw[n], x, q)
      BY DEF Fit, HasForward
    <3>3. \A n \in 1 .. nf : n \in 1 .. nf2 /\ (Of(fw[n], x, q) => Of(fw2[n], x, q))
      BY <1>1, <1>2 DEF Of, ForwardsOf
    <3>4. ASSUME su[x][q].fwd # 0
          PROVE  su[x][q].fwd \in 1 .. nf2 /\ Of(fw2[su[x][q].fwd], x, q)
      BY <3>2, <3>3, <3>4, Zenon
    <3>5. ASSUME ~en[x].kind.tied, su[x][q].at # "none"
          PROVE  \E n \in 1 .. nf2 : Of(fw2[n], x, q)
      BY <3>2, <3>3, <3>5, Zenon
    <3>6. QED
      BY <3>1, <3>4, <3>5, Zenon
  <2>3. QED
    BY <2>1, <2>2
<1>11. OpenUsed(su2, c, o2)
  <2> SUFFICES ASSUME NEW x \in o2, x # c
               PROVE  \E y \in Tunnels, q \in Runs : su2[y][q].conn = x
    BY DEF OpenUsed
  <2>1. CASE x \notin o \/ x = su[t][r].conn
    BY <2>1 DEF ConnOf
  <2>2. CASE x \in o /\ x # su[t][r].conn
    <3>1. PICK y \in Tunnels, q \in Runs : su[y][q].conn = x
      BY <2>2 DEF Fit, OpenUsed
    <3>2. y # t \/ q # r
      BY <2>2, <3>1
    <3>3. QED
      BY <1>3, <3>1, <3>2
  <2>3. QED
    BY <2>1, <2>2
<1>12. QED
  BY <1>4, <1>5, <1>7, <1>9, <1>10, <1>11 DEF Fit

(* A lost connection.                                                        *)
LEMMA LoseStep ==
    ASSUME NEW en, NEW st, NEW su, NEW fw, NEW nf, NEW c, NEW o, NEW mk, NEW o2,
           Fit(en, st, su, fw, nf, c, o, mk), o2 \subseteq o
    PROVE  Fit(en, st, su, fw, nf, c, o2, mk)
<1>1. /\ en \in [Tunnels -> Entries] /\ st \in [Tunnels -> 0 .. MaxRuns]
      /\ su \in [Tunnels -> [Runs -> Sups]] /\ fw \in [1 .. nf -> Fwds]
      /\ mk \in Nat /\ mk <= mk /\ c <= mk /\ NoneReopened(o, mk, o2)
      /\ \A t \in Tunnels : st[t] \in Nat /\ st[t] <= st[t]
      /\ \A r \in Runs : r \in Nat
  BY TunnelsAssumption DEF Fit, Typed, NoneReopened, Runs
<1>2. Typed(en, st, su, fw, nf, c, o2, mk)
  BY DEF Fit, Typed
<1>3. KeepersFit(en, st, su, c, o2, mk)
  <2> SUFFICES ASSUME NEW t \in Tunnels, NEW r \in Runs
               PROVE  /\ KeeperFits(en[t], st[t], r, su[t][r], mk)
                      /\ FollowerFits(en[t], st[t], r, su[t][r], c, o2)
    BY DEF KeepersFit
  <2>1. KeeperFits(en[t], st[t], r, su[t][r], mk) /\ FollowerFits(en[t], st[t], r, su[t][r], c, o)
    BY DEF Fit, KeepersFit
  <2>2. su[t][r] \in Sups
    BY <1>1
  <2>3. QED
    BY <1>1, <2>1, <2>2, OtherKeeper, Zenon
<1>4. ForwardsFit(en, st, su, fw, nf, c, o2, mk)
  <2> SUFFICES ASSUME NEW n \in 1 .. nf
               PROVE  AllFits(en[fw[n].t], st[fw[n].t], su[fw[n].t][fw[n].r], n, fw[n], c, o2, mk)
    BY DEF ForwardsFit
  <2>1. AllFits(en[fw[n].t], st[fw[n].t], su[fw[n].t][fw[n].r], n, fw[n], c, o, mk)
    BY DEF Fit, ForwardsFit
  <2>2. fw[n] \in Fwds /\ fw[n].t \in Tunnels
    BY <1>1 DEF Fwds
  <2>3. QED
    BY <1>1, <2>1, <2>2, OtherForward, Zenon
<1>5. OpenUsed(su, c, o2)
  BY DEF Fit, OpenUsed
<1>6. QED
  BY <1>2, <1>3, <1>4, <1>5 DEF Fit

(* Another session of the host, or none: nobody saw it yet, and no forward   *)
(* is about to listen.                                                       *)
LEMMA SessionStep ==
    ASSUME NEW en, NEW st, NEW su, NEW fw, NEW nf, NEW c, NEW o, NEW mk, NEW c2, NEW o2, NEW mk2,
           Fit(en, st, su, fw, nf, c, o, mk), Typed(en, st, su, fw, nf, c2, o2, mk2), mk <= mk2,
           NoneReopened(o, mk, o2), OpenUsed(su, c2, o2),
           c2 \in o2 => /\ c2 > mk
                        /\ \A n \in 1 .. nf : fw[n].at \notin Opening
                        /\ \A t \in Tunnels, r \in Runs : su[t][r].at = "tied" => ~su[t][r].stop
    PROVE  Fit(en, st, su, fw, nf, c2, o2, mk2)
<1>1. /\ su \in [Tunnels -> [Runs -> Sups]] /\ fw \in [1 .. nf -> Fwds]
      /\ mk \in Nat /\ mk2 \in Nat /\ c2 \in Nat
  BY TunnelsAssumption DEF Fit, Typed
<1>2. KeepersFit(en, st, su, c2, o2, mk2)
  <2> SUFFICES ASSUME NEW t \in Tunnels, NEW r \in Runs
               PROVE  /\ KeeperFits(en[t], st[t], r, su[t][r], mk2)
                      /\ FollowerFits(en[t], st[t], r, su[t][r], c2, o2)
    BY DEF KeepersFit
  <2> DEFINE s == su[t][r]
  <2>1. KeeperFits(en[t], st[t], r, s, mk) /\ FollowerFits(en[t], st[t], r, s, c, o)
    BY DEF Fit, KeepersFit
  <2>2. s.conn \in Nat /\ s.seen \in Nat
    BY <1>1 DEF Sups
  <2>3. c2 \in o2 => c2 > mk /\ (s.at = "tied" => ~s.stop)
    OBVIOUS
  <2> HIDE DEF s
  <2>4. KeeperFits(en[t], st[t], r, s, mk2)
    BY <1>1, <2>1, <2>2 DEF KeeperFits
  <2>5. c2 \in o2 => s.seen # c2
    BY <1>1, <2>1, <2>2, <2>3 DEF KeeperFits
  <2>6. FollowerFits(en[t], st[t], r, s, c2, o2)
    BY <2>1, <2>3, <2>5 DEF FollowerFits
  <2>7. QED
    BY <2>4, <2>6 DEF s
<1>3. ForwardsFit(en, st, su, fw, nf, c2, o2, mk2)
  <2> SUFFICES ASSUME NEW n \in 1 .. nf
               PROVE  AllFits(en[fw[n].t], st[fw[n].t], su[fw[n].t][fw[n].r], n, fw[n],
                              c2, o2, mk2)
    BY DEF ForwardsFit
  <2> DEFINE w == fw[n]
             e == en[w.t]
             s == su[w.t][w.r]
  <2>1. AllFits(e, st[w.t], s, n, w, c, o, mk)
    BY DEF Fit, ForwardsFit
  <2>2. w.seen \in Nat /\ w.conn \in Nat
    BY <1>1 DEF Fwds
  <2>3. c2 \in o2 => c2 > mk /\ w.at \notin Opening
    OBVIOUS
  <2> HIDE DEF w, e, s
  <2>4. ForwardFits(e, st[w.t], s, w, mk2)
    BY <1>1, <2>1, <2>2 DEF AllFits, ForwardFits
  <2>5. w.seen <= mk
    BY <2>1 DEF AllFits, ForwardFits
  <2>6. c2 \in o2 => w.seen # c2
    BY <1>1, <2>2, <2>3, <2>5
  <2>7. w.seen \in o2 => w.seen \in o
    BY <2>5 DEF NoneReopened
  <2>8. TiedFits(e, s, n, w, c2, o2)
    BY <2>1, <2>3, <2>6, <2>7 DEF AllFits, TiedFits
  <2>9. AllFits(e, st[w.t], s, n, w, c2, o2, mk2)
    BY <2>1, <2>4, <2>8 DEF AllFits
  <2>10. QED
    BY <2>9 DEF w, e, s
<1>4. QED
  BY <1>2, <1>3 DEF Fit

(* In the beginning no tunnel is on.                                         *)
LEMMA TunnelsInitInv == TunnelsInit => TunnelsInv
<1> SUFFICES ASSUME TunnelsInit PROVE TunnelsInv
  OBVIOUS
<1> PICK kind \in [Tunnels -> Kinds] : entry = [t \in Tunnels |-> Off(kind[t])]
  BY DEF TunnelsInit
<1>1. \A t \in Tunnels : entry[t] \in Entries /\ RowFits(entry[t], 0) /\ entry[t].run = 0
  BY TunnelsAssumption DEF Off, Entries, Links, RowFits
<1>2. NoSup \in Sups
  BY TunnelsAssumption DEF NoSup, Sups
<1>3. /\ \A t \in Tunnels : starts[t] = 0
      /\ \A t \in Tunnels, r \in Runs : sup[t][r] = NoSup
      /\ started = 0 /\ session = 0 /\ made = 0 /\ open = {}
  BY DEF TunnelsInit
<1>4. 1 .. started = {}
  BY <1>3
<1>5. Typed(entry, starts, sup, fwds, started, session, open, made)
  <2>1. fwds \in [1 .. started -> Fwds]
    BY <1>4 DEF TunnelsInit
  <2>2. entry \in [Tunnels -> Entries] /\ starts \in [Tunnels -> 0 .. MaxRuns]
    BY <1>1, TunnelsAssumption DEF TunnelsInit
  <2>3. sup \in [Tunnels -> [Runs -> Sups]]
    BY <1>2 DEF TunnelsInit
  <2>4. QED
    BY <1>3, <2>1, <2>2, <2>3, TunnelsAssumption DEF Typed
<1>6. KeepersFit(entry, starts, sup, session, open, made)
  <2> SUFFICES ASSUME NEW t \in Tunnels, NEW r \in Runs
               PROVE  KeeperFits(entry[t], 0, r, NoSup, 0) /\ FollowerFits(entry[t], 0, r, NoSup, 0, {})
    BY <1>3 DEF KeepersFit
  <2>1. r > 0 /\ ~(r <= 0) /\ r # entry[t].run
    BY <1>1 DEF Runs
  <2>2. QED
    BY <2>1 DEF KeeperFits, FollowerFits, NoSup
<1>7. RowsFit(entry, starts)
  BY <1>1, <1>3 DEF RowsFit
<1>8. /\ ForwardsFit(entry, starts, sup, fwds, started, session, open, made)
      /\ AllAlone(entry, fwds, started)
  BY <1>4 DEF ForwardsFit, AllAlone
<1>9. HasForward(entry, sup, fwds, started) /\ OpenUsed(sup, session, open)
  BY <1>3 DEF HasForward, OpenUsed, NoSup
<1>10. QED
  BY <1>5, <1>6, <1>7, <1>8, <1>9 DEF TunnelsInv, Fit

(* What the invariant says of settled tasks.                                 *)
LEMMA InvShows == TunnelsInv => ShownIsTrue
<1> SUFFICES ASSUME TunnelsInv, NEW t \in Tunnels, Quiet(t), ~Overtaken(t)
             PROVE  View(t) = "running"
                      <=> View(t) \notin {"stopped", "failed"} /\ Listening(t) # {}
  BY DEF ShownIsTrue
<1> DEFINE e == entry[t]
           r == entry[t].run
           s == sup[t][r]
<1>1. /\ entry \in [Tunnels -> Entries] /\ starts \in [Tunnels -> 0 .. MaxRuns]
      /\ sup \in [Tunnels -> [Runs -> Sups]] /\ fwds \in [1 .. started -> Fwds]
      /\ started \in Nat /\ open \subseteq 1 .. made /\ made \in Nat
  BY TunnelsAssumption DEF TunnelsInv, Fit, Typed
<1>2. RowFits(e, starts[t])
  BY DEF TunnelsInv, Fit, RowsFit
<1>3. e.on => r \in Runs /\ r <= starts[t]
  BY <1>1, <1>2, TunnelsAssumption DEF RowFits, Entries, Runs
<1>4. e.on => /\ KeeperFits(e, starts[t], r, s, made) /\ FollowerFits(e, starts[t], r, s, session, open)
              /\ s.fwd # 0 => s.fwd \in 1 .. started /\ Of(fwds[s.fwd], t, r)
              /\ ~e.kind.tied /\ s.at # "none" => \E n \in 1 .. started : Of(fwds[n], t, r)
  BY <1>3 DEF TunnelsInv, Fit, KeepersFit, HasForward
<1>5. \A n \in 1 .. started : Of(fwds[n], t, r) =>
        /\ AllFits(e, starts[t], s, n, fwds[n], session, open, made)
        /\ fwds[n].at \in {"listening", "idle", "over"}
        /\ fwds[n].stop => fwds[n].at = "over"
        /\ e.kind.remote /\ fwds[n].at # "over" =>
             fwds[n].seen = IF e.kind.tied THEN session ELSE s.conn
  BY <1>1 DEF TunnelsInv, Fit, ForwardsFit, Of, Quiet, Remote, Watch, Tied
<1>6. e.on => /\ s.at \in {"none", "connected", "tied", "over"}
              /\ s.stop => s.at \in {"none", "over"}
              /\ s.at = "connected" => s.conn \in open
              /\ s.at = "tied" => s.seen = session
  BY <1>3 DEF Quiet
<1>7. session = 0 \/ session \in open
  BY DEF Quiet
<1>8. e.on /\ e.kind.tied /\ e.kind.remote => ~s.stop
  BY <1>2 DEF Overtaken, Tied, RowFits
<1>9. Listening(t) = {n \in 1 .. started : Of(fwds[n], t, r) /\ fwds[n].at = "listening" /\ ~fwds[n].stop}
  BY <1>1 DEF Listening, Of
<1>10. 0 \notin open
  BY <1>1
<1>11. /\ e.on \in BOOLEAN /\ e.failed \in BOOLEAN /\ e.waiting \in BOOLEAN /\ e.listening \in BOOLEAN
       /\ e.link \in Links
  BY <1>1 DEF Entries
<1>12. /\ View(t) = "running" <=>
            /\ e.on /\ ~e.failed /\ e.link \in {"none", "connected"}
            /\ ~(e.kind.tied /\ session = 0) /\ ~e.waiting /\ e.listening
       /\ View(t) \notin {"stopped", "failed"} <=> e.on /\ ~e.failed /\ e.link # "ended"
  BY <1>11 DEF View, Tied, Links
<1> HIDE DEF e, r, s
<1>13. ASSUME e.on, ~e.failed, e.link \in {"none", "connected"},
              ~(e.kind.tied /\ session = 0), ~e.waiting, e.listening
       PROVE  Listening(t) # {}
  <2>1. CASE ~e.kind.tied
    <3>0. e.run = r
      BY DEF e, r
    <3>1. s.at # "none"
      BY <1>4, <1>13, <2>1, <3>0 DEF KeeperFits
    <3>2. PICK n \in 1 .. started : Of(fwds[n], t, r)
      BY <1>4, <1>13, <2>1, <3>1
    <3>3. OwnFits(e, s, fwds[n]) /\ fwds[n].r = r /\ e.run = r
      BY <1>5, <3>2 DEF AllFits, Of, e, r
    <3>4. fwds[n].at # "over" /\ fwds[n].at # "idle"
      BY <1>13, <2>1, <3>3 DEF OwnFits, Leaves
    <3>5. QED
      BY <1>5, <1>9, <3>2, <3>4
  <2>2. CASE e.kind.tied
    <3>0. e.run = r
      BY DEF e, r
    <3>1. ~s.stop
      BY <1>3, <1>4, <1>8, <1>13, <2>2, <3>0 DEF FollowerFits
    <3>2. s.at = "tied" /\ s.seen = session /\ session \in open
      BY <1>3, <1>4, <1>6, <1>7, <1>13, <2>2, <3>1 DEF FollowerFits
    <3>3. s.fwd # 0
      BY <1>3, <1>4, <1>13, <2>2, <3>2 DEF FollowerFits
    <3>4. PICK n \in 1 .. started : n = s.fwd /\ Of(fwds[n], t, r)
      BY <1>4, <1>13, <3>3
    <3>5. TiedFits(e, s, n, fwds[n], session, open) /\ fwds[n].r = e.run
      BY <1>5, <3>0, <3>4 DEF AllFits, Of
    <3>6. ForwardFits(e, starts[t], s, fwds[n], made)
      BY <1>5, <3>4 DEF AllFits
    <3>7. ~fwds[n].stop /\ fwds[n].at # "over"
      BY <2>2, <3>1, <3>2, <3>4, <3>5 DEF TiedFits
    <3>8. fwds[n].at # "idle"
      <4>1. CASE e.kind.remote
        BY <1>5, <2>2, <3>1, <3>2, <3>4, <3>5, <3>7, <4>1 DEF TiedFits
      <4>2. CASE ~e.kind.remote
        BY <3>6, <4>2 DEF ForwardFits
      <4>3. QED
        BY <4>1, <4>2
    <3>9. QED
      BY <1>5, <1>9, <3>4, <3>7, <3>8
  <2>3. QED
    BY <2>1, <2>2
<1>14. ASSUME e.on, ~e.failed, e.link # "ended", NEW n \in Listening(t)
       PROVE  /\ e.link \in {"none", "connected"}
              /\ ~(e.kind.tied /\ session = 0) /\ ~e.waiting /\ e.listening
  <2>0. e.run = r
    BY DEF e, r
  <2>1. n \in 1 .. started /\ Of(fwds[n], t, r) /\ fwds[n].at = "listening" /\ ~fwds[n].stop
    BY <1>9, <1>14
  <2>2. /\ ForwardFits(e, starts[t], s, fwds[n], made) /\ OwnFits(e, s, fwds[n])
        /\ TiedFits(e, s, n, fwds[n], session, open) /\ fwds[n].r = e.run
    BY <1>5, <2>0, <2>1 DEF AllFits, Of
  <2>3. e.listening
    BY <2>1, <2>2 DEF ForwardFits
  <2>4. CASE ~e.kind.tied
    <3>1. e.link = "connected"
      BY <1>3, <1>4, <1>6, <1>14, <2>0, <2>4 DEF KeeperFits
    <3>2. ~e.waiting
      BY <1>2, <2>1, <2>2, <2>4 DEF RowFits, OwnFits, e
    <3>3. QED
      BY <2>3, <2>4, <3>1, <3>2
  <2>5. CASE e.kind.tied
    <3>1. n = s.fwd /\ s.at = "tied"
      BY <2>1, <2>2, <2>5 DEF TiedFits
    <3>2. s.seen = session /\ session # 0 /\ n # 0
      BY <1>3, <1>4, <1>6, <1>14, <2>1, <2>5, <3>1 DEF FollowerFits
    <3>3. session \in open
      BY <1>7, <3>2
    <3>4. ~e.waiting
      <4>1. CASE e.kind.remote
        <5>1. fwds[n].seen = session
          BY <1>5, <2>1, <2>5, <4>1
        <5>2. QED
          BY <2>1, <2>2, <2>5, <3>3, <4>1, <5>1 DEF TiedFits
      <4>2. CASE ~e.kind.remote
        BY <1>2, <4>2 DEF RowFits, e
      <4>3. QED
        BY <4>1, <4>2
    <3>5. e.link = "none"
      BY <1>2, <2>5 DEF RowFits, e
    <3>6. QED
      BY <2>3, <3>2, <3>4, <3>5
  <2>6. QED
    BY <2>4, <2>5
<1>15. QED
  BY <1>12, <1>13, <1>14

LEMMA InvLeaves == TunnelsInv => NothingLeft
<1> SUFFICES ASSUME TunnelsInv, NEW t \in Tunnels, Quiet(t), ~entry[t].on
             PROVE  /\ \A n \in DOMAIN fwds : fwds[n].t = t => fwds[n].at = "over"
                    /\ open \subseteq Used
  BY DEF NothingLeft
<1>1. /\ entry \in [Tunnels -> Entries] /\ sup \in [Tunnels -> [Runs -> Sups]]
      /\ fwds \in [1 .. started -> Fwds] /\ open \subseteq 1 .. made
  BY DEF TunnelsInv, Fit, Typed
<1>2. ASSUME NEW n \in DOMAIN fwds, fwds[n].t = t
      PROVE  fwds[n].at = "over"
  <2> DEFINE r == fwds[n].r
             s == sup[t][r]
  <2>1. n \in 1 .. started /\ r \in Runs /\ r # 0
    BY <1>1 DEF Fwds, Runs
  <2>2. AllFits(entry[t], starts[t], s, n, fwds[n], session, open, made)
    BY <1>2, <2>1 DEF TunnelsInv, Fit, ForwardsFit
  <2>3. KeeperFits(entry[t], starts[t], r, s, made)
    BY <2>1 DEF TunnelsInv, Fit, KeepersFit
  <2>4. entry[t].run = 0
    BY DEF TunnelsInv, Fit, RowsFit, RowFits
  <2>5. s.stop /\ s.at # "none"
    BY <2>1, <2>2, <2>3, <2>4 DEF AllFits, ForwardFits, KeeperFits
  <2>6. s.at = "over"
    BY <2>1, <2>5 DEF Quiet
  <2>7. fwds[n].stop
    BY <2>2, <2>5, <2>6 DEF AllFits, ForwardFits, TiedFits
  <2>8. QED
    BY <1>2, <2>7 DEF Quiet
<1>3. open \subseteq Used
  <2> SUFFICES ASSUME NEW c \in open, c # session
               PROVE  \E x \in Tunnels, q \in Runs : sup[x][q].at # "over" /\ sup[x][q].conn = c
    BY DEF Used
  <2>1. PICK x \in Tunnels, q \in Runs : sup[x][q].conn = c
    BY DEF TunnelsInv, Fit, OpenUsed
  <2>2. KeeperFits(entry[x], starts[x], q, sup[x][q], made) /\ c # 0
    BY <1>1 DEF TunnelsInv, Fit, KeepersFit
  <2>3. QED
    BY <2>1, <2>2 DEF KeeperFits
<1>4. QED
  BY <1>2, <1>3

-----------------------------------------------------------------------------
(* The steps.                                                                *)

LEMMA FitRun ==
    ASSUME NEW en, NEW st, NEW su, NEW fw, NEW nf, NEW c, NEW o, NEW mk,
           Fit(en, st, su, fw, nf, c, o, mk), NEW t \in Tunnels, NEW r \in Runs
    PROVE  RunFits(en[t], st[t], su[t][r], fw, nf, t, r, c, o, mk)
<1>1. RowFits(en[t], st[t])
  BY DEF Fit, RowsFit
<1>2. KeeperFits(en[t], st[t], r, su[t][r], mk) /\ FollowerFits(en[t], st[t], r, su[t][r], c, o)
  BY DEF Fit, KeepersFit
<1>3. \A n \in 1 .. nf : Of(fw[n], t, r) => AllFits(en[t], st[t], su[t][r], n, fw[n], c, o, mk)
  BY DEF Fit, ForwardsFit, Of
<1>4. \A n, m \in 1 .. nf :
        n # m /\ Of(fw[n], t, r) /\ Of(fw[m], t, r) => Alone(en[t], fw[n], fw[m])
  BY DEF Fit, AllAlone, Of
<1>5. /\ su[t][r].fwd # 0 => su[t][r].fwd \in 1 .. nf /\ Of(fw[su[t][r].fwd], t, r)
      /\ ~en[t].kind.tied /\ su[t][r].at # "none" => \E n \in 1 .. nf : Of(fw[n], t, r)
  BY DEF Fit, HasForward
<1>6. QED
  BY <1>1, <1>2, <1>3, <1>4, <1>5 DEF RunFits

(* A keeper moves on, and the row may hear of it.                            *)
SameButLink(e, e2) ==
    /\ e2.kind = e.kind /\ e2.on = e.on /\ e2.run = e.run /\ e2.listening = e.listening
    /\ e2.waiting = e.waiting /\ e2.failed = e.failed

SameButAt(s, s2) == s2.stop = s.stop /\ s2.seen = s.seen /\ s2.fwd = s.fwd

LEMMA KeeperRun ==
    ASSUME NEW e, NEW st, NEW s, NEW fw, NEW nf, NEW t, NEW r, NEW c, NEW o, NEW mk \in Nat,
           RunFits(e, st, s, fw, nf, t, r, c, o, mk), ~e.kind.tied, s.at # "none",
           fw \in [1 .. nf -> Fwds],
           NEW e2, NEW s2, NEW o2, NEW mk2 \in Nat, mk <= mk2,
           SameButLink(e, e2), e2.ask \in {0, e2.run}, SameButAt(s, s2), s2.at # "none",
           KeeperFits(e2, st, r, s2, mk2),
           \A n \in 1 .. nf : Of(fw[n], t, r) => OwnFits(e2, s2, fw[n])
    PROVE  RunFits(e2, st, s2, fw, nf, t, r, c, o2, mk2)
<1>1. RowFits(e2, st)
  BY DEF RunFits, RowFits, SameButLink
<1>2. FollowerFits(e2, st, r, s2, c, o2)
  BY DEF FollowerFits, SameButLink
<1>3. ASSUME NEW n \in 1 .. nf, Of(fw[n], t, r)
      PROVE  AllFits(e2, st, s2, n, fw[n], c, o2, mk2)
  <2>1. ForwardFits(e, st, s, fw[n], mk)
    BY <1>3 DEF RunFits, AllFits
  <2>2. fw[n].seen \in Nat /\ fw[n].conn \in Nat
    BY DEF Fwds
  <2>3. ForwardFits(e2, st, s2, fw[n], mk2)
    BY <2>1, <2>2 DEF ForwardFits, SameButLink, SameButAt
  <2>4. TiedFits(e2, s2, n, fw[n], c, o2)
    BY DEF TiedFits, SameButLink
  <2>5. QED
    BY <1>3, <2>3, <2>4 DEF AllFits
<1>4. \A n, m \in 1 .. nf :
        n # m /\ Of(fw[n], t, r) /\ Of(fw[m], t, r) => Alone(e2, fw[n], fw[m])
  BY DEF RunFits, Alone, SameButLink
<1>5. /\ s2.fwd # 0 => s2.fwd \in 1 .. nf /\ Of(fw[s2.fwd], t, r)
      /\ ~e2.kind.tied /\ s2.at # "none" => \E n \in 1 .. nf : Of(fw[n], t, r)
  BY DEF RunFits, SameButLink, SameButAt
<1>6. QED
  BY <1>1, <1>2, <1>3, <1>4, <1>5 DEF RunFits

LEMMA KeeperStep ==
    ASSUME TunnelsInv, NEW t \in Tunnels, NEW r \in Runs, ~entry[t].kind.tied,
           entry' \in [Tunnels -> Entries], sup' \in [Tunnels -> [Runs -> Sups]],
           made' \in 0 .. MaxConns, made <= made', open' \in SUBSET (1 .. made'),
           UNCHANGED <<starts, fwds, started, session>>,
           \A x \in Tunnels : x # t => entry'[x] = entry[x],
           \A x \in Tunnels, q \in Runs : x # t \/ q # r => sup'[x][q] = sup[x][q],
           SameButLink(entry[t], entry'[t]), entry'[t].ask \in {0, entry'[t].run},
           entry'[t] = entry[t] \/ r = entry[t].run,
           SameButAt(sup[t][r], sup'[t][r]), sup[t][r].at # "none", sup'[t][r].at # "none",
           NoneReopened(open, made, open'), ConnOf(open, sup[t][r], open', sup'[t][r], session),
           KeeperFits(entry'[t], starts[t], r, sup'[t][r], made'),
           \A n \in 1 .. started :
             Of(fwds[n], t, r) => OwnFits(entry'[t], sup'[t][r], fwds[n])
    PROVE  TunnelsInv'
<1>1. /\ starts \in [Tunnels -> 0 .. MaxRuns] /\ fwds \in [1 .. started -> Fwds]
      /\ made \in Nat /\ started \in 0 .. MaxForwards /\ started \in Nat /\ session \in 0 .. made
      /\ Fit(entry, starts, sup, fwds, started, session, open, made)
  BY TunnelsAssumption DEF TunnelsInv, Fit, Typed
<1>2. made' \in Nat
  BY TunnelsAssumption
<1>3. Typed(entry', starts, sup', fwds, started, session, open', made')
  BY <1>1, <1>2 DEF Typed
<1>4. OnlyRun(entry, starts, sup, entry', starts, sup', t, r)
  BY DEF OnlyRun, SameButLink
<1>5. ForwardsOf(fwds, started, fwds, started, t, r)
  BY <1>1 DEF ForwardsOf
<1>6. RunFits(entry[t], starts[t], sup[t][r], fwds, started, t, r, session, open, made)
  BY <1>1, FitRun, Zenon
<1>7. RunFits(entry'[t], starts[t], sup'[t][r], fwds, started, t, r, session, open', made')
  BY <1>1, <1>2, <1>6, KeeperRun, Zenon
<1>8. Fit(entry', starts, sup', fwds, started, session, open', made')
  BY <1>1, <1>3, <1>4, <1>5, <1>7, RunStep, Zenon
<1>9. QED
  BY <1>8 DEF TunnelsInv

Keeping == {"begin", "connecting", "asking", "connected", "retrying", "stopping"}

LEMMA KeeperFacts ==
    ASSUME TunnelsInv, NEW t \in Tunnels, NEW r \in Runs, sup[t][r].at \in Keeping
    PROVE  /\ entry[t] \in Entries /\ sup[t][r] \in Sups /\ ~entry[t].kind.tied
           /\ RowFits(entry[t], starts[t]) /\ KeeperFits(entry[t], starts[t], r, sup[t][r], made)
           /\ r \in Nat /\ r # 0 /\ starts[t] \in Nat /\ r <= starts[t]
           /\ made \in 0 .. MaxConns /\ made \in Nat /\ session \in 0 .. made /\ open \in SUBSET (1 .. made)
           /\ entry \in [Tunnels -> Entries] /\ sup \in [Tunnels -> [Runs -> Sups]]
           /\ \A n \in 1 .. started : Of(fwds[n], t, r) =>
                OwnFits(entry[t], sup[t][r], fwds[n]) /\ fwds[n].stop = sup[t][r].stop
<1>1. /\ entry \in [Tunnels -> Entries] /\ sup \in [Tunnels -> [Runs -> Sups]]
      /\ starts \in [Tunnels -> 0 .. MaxRuns]
      /\ made \in 0 .. MaxConns /\ made \in Nat /\ session \in 0 .. made /\ open \in SUBSET (1 .. made)
      /\ Fit(entry, starts, sup, fwds, started, session, open, made)
  BY TunnelsAssumption DEF TunnelsInv, Fit, Typed
<1>2. RunFits(entry[t], starts[t], sup[t][r], fwds, started, t, r, session, open, made)
  BY <1>1, FitRun, Zenon
<1>3. r \in Nat /\ r # 0 /\ starts[t] \in Nat
  BY <1>1, TunnelsAssumption DEF Runs
<1>4. r <= starts[t]
  BY <1>2, <1>3 DEF RunFits, KeeperFits, NoSup, Keeping
<1>5. ~entry[t].kind.tied
  BY <1>2, <1>4 DEF RunFits, FollowerFits, Keeping
<1>6. \A n \in 1 .. started : Of(fwds[n], t, r) =>
        OwnFits(entry[t], sup[t][r], fwds[n]) /\ fwds[n].stop = sup[t][r].stop
  BY <1>2, <1>5 DEF RunFits, AllFits, ForwardFits
<1>7. QED
  BY <1>1, <1>2, <1>3, <1>4, <1>5, <1>6 DEF RunFits

(* What a keeper that moves on has to keep true.                             *)
MovesOn(e, e2, s, s2, r, last) ==
    /\ s.at \in Keeping /\ s2.at \notin {"none", "tied"}
    /\ e2.ask \in {0, e2.run} /\ (e2 = e \/ r = e.run)
    /\ s2.conn <= last /\ (s2.conn # 0 => s2.at \in {"connected", "stopping"})
    /\ s2.conn \in {0, s.conn} \/ s.at \in Early
    /\ r = e.run => /\ s2.at = "connected" => e2.link = "connected"
                    /\ s2.at = "over" => e2.link = "ended" \/ s.stop
                    /\ e2.link = "ended" => s2.at = "over"

LEMMA KeeperMoved ==
    ASSUME NEW e, NEW e2, NEW s, NEW s2 \in Sups, NEW r \in Nat, NEW st \in Nat,
           NEW last \in Nat, NEW last2 \in Nat, last <= last2, r <= st, ~e.kind.tied,
           KeeperFits(e, st, r, s, last), SameButLink(e, e2), SameButAt(s, s2),
           MovesOn(e, e2, s, s2, r, last2)
    PROVE  KeeperFits(e2, st, r, s2, last2)
<1>1. s2.seen \in Nat
  BY DEF Sups
<1>2. s.at # "none"
  BY DEF MovesOn, Keeping
<1>3. QED
  BY <1>1, <1>2 DEF KeeperFits, SameButLink, SameButAt, MovesOn

LEMMA OwnMoved ==
    ASSUME NEW e, NEW e2, NEW s, NEW s2, NEW r, NEW st, NEW last, NEW last2, NEW w, w.r = r,
           KeeperFits(e, st, r, s, last), SameButLink(e, e2), SameButAt(s, s2),
           MovesOn(e, e2, s, s2, r, last2), OwnFits(e, s, w),
           s2.at \in Early => s.at \in Early \/ (~w.stop /\ w.at # "register")
    PROVE  OwnFits(e2, s2, w)
<1> SUFFICES ASSUME ~e.kind.tied, r = e.run PROVE OwnFits(e2, s2, w)
  BY DEF OwnFits, SameButLink
<1>1. e.link # "ended"
  BY DEF KeeperFits, MovesOn, Keeping
<1>2. QED
  BY <1>1 DEF OwnFits, SameButLink, SameButAt, Leaves, MovesOn

LEMMA KeeperMoves ==
    ASSUME TunnelsInv, NEW t \in Tunnels, NEW r \in Runs,
           entry' \in [Tunnels -> Entries], sup' \in [Tunnels -> [Runs -> Sups]],
           \A x \in Tunnels : x # t => entry'[x] = entry[x],
           \A x \in Tunnels, q \in Runs : x # t \/ q # r => sup'[x][q] = sup[x][q],
           UNCHANGED <<starts, fwds, started, session>>,
           made' \in 0 .. MaxConns, made <= made', open' \in SUBSET (1 .. made'),
           NoneReopened(open, made, open'), ConnOf(open, sup[t][r], open', sup'[t][r], session),
           SameButLink(entry[t], entry'[t]), SameButAt(sup[t][r], sup'[t][r]),
           MovesOn(entry[t], entry'[t], sup[t][r], sup'[t][r], r, made'),
           sup'[t][r].at \in Early =>
             \/ sup[t][r].at \in Early
             \/ /\ ~sup[t][r].stop
                /\ \A n \in 1 .. started : Of(fwds[n], t, r) => fwds[n].at # "register"
    PROVE  TunnelsInv'
<1>1. /\ sup[t][r].at \in Keeping /\ sup[t][r].at # "none" /\ sup'[t][r].at # "none"
      /\ entry'[t].ask \in {0, entry'[t].run}
      /\ entry'[t] = entry[t] \/ r = entry[t].run
  BY DEF MovesOn, Keeping
<1>2. /\ ~entry[t].kind.tied /\ KeeperFits(entry[t], starts[t], r, sup[t][r], made)
      /\ r \in Nat /\ starts[t] \in Nat /\ r <= starts[t] /\ made \in Nat
      /\ \A n \in 1 .. started : Of(fwds[n], t, r) =>
           OwnFits(entry[t], sup[t][r], fwds[n]) /\ fwds[n].stop = sup[t][r].stop
  BY <1>1, KeeperFacts, Zenon
<1>3. sup'[t][r] \in Sups /\ made' \in Nat
  BY TunnelsAssumption
<1>4. KeeperFits(entry'[t], starts[t], r, sup'[t][r], made')
  BY <1>2, <1>3, KeeperMoved, Zenon
<1>5. ASSUME NEW n \in 1 .. started, Of(fwds[n], t, r)
      PROVE  OwnFits(entry'[t], sup'[t][r], fwds[n])
  <2>1. OwnFits(entry[t], sup[t][r], fwds[n]) /\ fwds[n].stop = sup[t][r].stop
    BY <1>2, <1>5, Zenon
  <2>2. fwds[n].r = r
    BY <1>5 DEF Of
  <2>3. sup'[t][r].at \in Early =>
          sup[t][r].at \in Early \/ (~fwds[n].stop /\ fwds[n].at # "register")
    BY <1>5, <2>1
  <2>4. QED
    BY <1>2, <2>1, <2>2, <2>3, OwnMoved, Zenon
<1>6. QED
  BY <1>1, <1>2, <1>4, <1>5, KeeperStep, Zenon

LEMMA ConnectingStep ==
    ASSUME TunnelsInv, NEW t \in Tunnels, NEW r \in Runs, Connecting(t, r)
    PROVE  TunnelsInv'
<1> DEFINE e == entry[t]
           s == sup[t][r]
           e2 == entry'[t]
           s2 == sup'[t][r]
<1>1. s.at \in {"begin", "retrying"} /\ s.at \in Keeping
  BY DEF Connecting, Keeping
<1>2. /\ e \in Entries /\ s \in Sups /\ RowFits(e, starts[t]) /\ KeeperFits(e, starts[t], r, s, made)
      /\ made \in 0 .. MaxConns /\ made \in Nat /\ open \in SUBSET (1 .. made)
      /\ entry \in [Tunnels -> Entries] /\ sup \in [Tunnels -> [Runs -> Sups]]
  BY <1>1, KeeperFacts
<1>3. /\ s2 = [s EXCEPT !.at = IF s.stop THEN "stopping" ELSE "connecting"]
      /\ sup' \in [Tunnels -> [Runs -> Sups]]
      /\ \A x \in Tunnels, q \in Runs : x # t \/ q # r => sup'[x][q] = sup[x][q]
  BY <1>2 DEF Connecting, Waits, Sups
<1>4. /\ e2 = IF e.run = r THEN [e EXCEPT !.link = "connecting"] ELSE e
      /\ entry' \in [Tunnels -> Entries]
      /\ \A x \in Tunnels : x # t => entry'[x] = entry[x]
  BY <1>2 DEF Connecting, SetLink, Current, Entries, Links
<1>5. UNCHANGED <<starts, fwds, started, session, open, made>>
  BY DEF Connecting
<1>6. \A n \in 1 .. started : Of(fwds[n], t, r) => fwds[n].at # "register"
  BY DEF Connecting, Of, TunnelsInv, Fit, Typed
<1> HIDE DEF e, s, e2, s2
<1>7. /\ s2.at = (IF s.stop THEN "stopping" ELSE "connecting") /\ s2.conn = s.conn
      /\ SameButAt(s, s2) /\ s.conn = 0
  BY <1>1, <1>2, <1>3 DEF SameButAt, Sups, KeeperFits
<1>8. /\ SameButLink(e, e2) /\ e2.ask = e.ask /\ (e2 = e \/ r = e.run)
      /\ r = e.run => e2.link = "connecting"
  BY <1>2, <1>4 DEF SameButLink, Entries
<1>9. /\ NoneReopened(open, made, open') /\ ConnOf(open, s, open', s2, session)
      /\ made' \in 0 .. MaxConns /\ made <= made' /\ open' \in SUBSET (1 .. made')
      /\ s2.at \in Early => ~s.stop
  BY <1>2, <1>5, <1>7 DEF NoneReopened, ConnOf, Early
<1>10. MovesOn(e, e2, s, s2, r, made')
  BY <1>1, <1>2, <1>5, <1>7, <1>8 DEF MovesOn, RowFits, SameButLink
<1> USE DEF e, s, e2, s2
<1>11. QED
  BY <1>3, <1>4, <1>5, <1>6, <1>7, <1>8, <1>9, <1>10, KeeperMoves, Zenon

(* What a step that moves a keeper on makes of sup, and of the row.          *)
SetTo(su, su2, t, r, v) == su2 = [su EXCEPT ![t][r] = v]

OnlySup(su, su2, t, r, v) ==
    /\ su2[t][r] = v /\ su2 \in [Tunnels -> [Runs -> Sups]]
    /\ \A x \in Tunnels, q \in Runs : x # t \/ q # r => su2[x][q] = su[x][q]

LEMMA SupSet ==
    ASSUME NEW su, su \in [Tunnels -> [Runs -> Sups]], NEW t \in Tunnels, NEW r \in Runs,
           NEW v, v \in Sups, NEW su2, SetTo(su, su2, t, r, v)
    PROVE  OnlySup(su, su2, t, r, v)
BY DEF SetTo, OnlySup

LEMMA LinkSet ==
    ASSUME TunnelsInv, NEW t \in Tunnels, NEW r \in Runs, NEW link \in Links, SetLink(t, r, link)
    PROVE  /\ SameButLink(entry[t], entry'[t]) /\ entry'[t].ask = entry[t].ask
           /\ entry'[t] = entry[t] \/ r = entry[t].run
           /\ r = entry[t].run => entry'[t].link = link
           /\ entry' \in [Tunnels -> Entries]
           /\ \A x \in Tunnels : x # t => entry'[x] = entry[x]
<1>1. entry \in [Tunnels -> Entries] /\ entry[t] \in Entries
  BY DEF TunnelsInv, Fit, Typed
<1>2. QED
  BY <1>1 DEF SetLink, Current, SameButLink, Entries

LEMMA ConnectedStep ==
    ASSUME TunnelsInv, NEW t \in Tunnels, NEW r \in Runs, Connected(t, r)
    PROVE  TunnelsInv'
<1> DEFINE e == entry[t]
           s == sup[t][r]
           e2 == entry'[t]
           s2 == sup'[t][r]
<1>1. s.at = "connecting" /\ s.at \in Keeping
  BY DEF Connected, Supervisor, Keeping
<1>2. /\ e \in Entries /\ s \in Sups /\ RowFits(e, starts[t]) /\ KeeperFits(e, starts[t], r, s, made)
      /\ made \in 0 .. MaxConns /\ made \in Nat /\ open \in SUBSET (1 .. made) /\ session \in 0 .. made
      /\ entry \in [Tunnels -> Entries] /\ sup \in [Tunnels -> [Runs -> Sups]]
      /\ r \in Nat /\ r # 0
  BY <1>1, KeeperFacts
<1>3. /\ s2.at = Waits(t, r, "connected") /\ s2.conn = made + 1
      /\ SameButAt(s, s2) /\ sup' \in [Tunnels -> [Runs -> Sups]]
      /\ \A x \in Tunnels, q \in Runs : x # t \/ q # r => sup'[x][q] = sup[x][q]
  <2>1. Waits(t, r, "connected") \in Keeping \cup {"over"} /\ made + 1 \in 0 .. MaxConns
    BY <1>2, TunnelsAssumption DEF Waits, Keeping, Connected
  <2> DEFINE v == [sup[t][r] EXCEPT !.at = Waits(t, r, "connected"), !.conn = made + 1]
  <2>2. SetTo(sup, sup', t, r, v)
    BY DEF Connected, SetTo
  <2>3. v \in Sups /\ v.at = Waits(t, r, "connected") /\ v.conn = made + 1 /\ SameButAt(s, v)
    BY <1>2, <2>1 DEF Sups, Keeping, SameButAt
  <2> HIDE DEF v
  <2>4. OnlySup(sup, sup', t, r, v)
    BY <1>2, <2>2, <2>3, SupSet, Zenon
  <2>5. QED
    BY <2>3, <2>4, Zenon DEF OnlySup
<1>4. /\ SameButLink(e, e2) /\ e2.ask = e.ask /\ (e2 = e \/ r = e.run)
      /\ r = e.run => e2.link = "connected"
      /\ entry' \in [Tunnels -> Entries]
      /\ \A x \in Tunnels : x # t => entry'[x] = entry[x]
  <2>1. SetLink(t, r, "connected") /\ "connected" \in Links
    BY DEF Connected, Links
  <2>2. QED
    BY <2>1, LinkSet, Zenon
<1>5. /\ UNCHANGED <<starts, fwds, started, session>>
      /\ made' = made + 1 /\ made < MaxConns /\ open' = open \cup {made + 1}
  BY DEF Connected
<1>0. Waits(t, r, "connected") \in {"stopping", "connected"}
  BY DEF Waits
<1> HIDE DEF e, s, e2, s2
<1>6. /\ NoneReopened(open, made, open') /\ ConnOf(open, s, open', s2, session)
      /\ made' \in 0 .. MaxConns /\ made <= made' /\ open' \in SUBSET (1 .. made')
      /\ s2.at \in Early => s.at \in Early
  <2>1. s.conn = 0
    BY <1>1, <1>2 DEF KeeperFits
  <2>2. QED
    BY <1>1, <1>2, <1>3, <1>5, <2>1, TunnelsAssumption DEF NoneReopened, ConnOf, Early
<1>7. MovesOn(e, e2, s, s2, r, made')
  BY <1>0, <1>1, <1>2, <1>3, <1>4, <1>5 DEF MovesOn, RowFits, SameButLink, Early
<1> USE DEF e, s, e2, s2
<1>8. QED
  BY <1>3, <1>4, <1>5, <1>6, <1>7, KeeperMoves, Zenon

LEMMA EndedStep ==
    ASSUME TunnelsInv, NEW t \in Tunnels, NEW r \in Runs, sup[t][r].at \in Keeping,
           sup[t][r].conn \notin open, Ended(t, r), made' \in {made, made + 1},
           made' \in 0 .. MaxConns, UNCHANGED <<starts, fwds, started, session, open>>
    PROVE  TunnelsInv'
<1> DEFINE e == entry[t]
           s == sup[t][r]
           e2 == entry'[t]
           s2 == sup'[t][r]
<1>1. s.at \in Keeping /\ s.conn \notin open
  OBVIOUS
<1>2. /\ e \in Entries /\ s \in Sups /\ RowFits(e, starts[t]) /\ KeeperFits(e, starts[t], r, s, made)
      /\ made \in 0 .. MaxConns /\ made \in Nat /\ open \in SUBSET (1 .. made) /\ session \in 0 .. made
      /\ entry \in [Tunnels -> Entries] /\ sup \in [Tunnels -> [Runs -> Sups]]
      /\ r \in Nat /\ r # 0
  BY <1>1, KeeperFacts
<1>3. /\ s2.at = "over" /\ s2.conn = 0
      /\ SameButAt(s, s2) /\ sup' \in [Tunnels -> [Runs -> Sups]]
      /\ \A x \in Tunnels, q \in Runs : x # t \/ q # r => sup'[x][q] = sup[x][q]
  <2>1. "over" \in Keeping \cup {"over"} /\ 0 \in 0 .. MaxConns
    BY TunnelsAssumption
  <2> DEFINE v == [sup[t][r] EXCEPT !.at = "over", !.conn = 0]
  <2>2. SetTo(sup, sup', t, r, v)
    BY DEF Ended, SetTo
  <2>3. v \in Sups /\ v.at = "over" /\ v.conn = 0 /\ SameButAt(s, v)
    BY <1>2, <2>1 DEF Sups, Keeping, SameButAt
  <2> HIDE DEF v
  <2>4. OnlySup(sup, sup', t, r, v)
    BY <1>2, <2>2, <2>3, SupSet, Zenon
  <2>5. QED
    BY <2>3, <2>4, Zenon DEF OnlySup
<1>4. /\ SameButLink(e, e2) /\ e2.ask = e.ask /\ (e2 = e \/ r = e.run)
      /\ r = e.run => e2.link = "ended"
      /\ entry' \in [Tunnels -> Entries]
      /\ \A x \in Tunnels : x # t => entry'[x] = entry[x]
  <2>1. SetLink(t, r, "ended") /\ "ended" \in Links
    BY DEF Ended, Links
  <2>2. QED
    BY <2>1, LinkSet, Zenon
<1>5. UNCHANGED <<starts, fwds, started, session>>
  OBVIOUS
<1> HIDE DEF e, s, e2, s2
<1>6. /\ NoneReopened(open, made, open') /\ ConnOf(open, s, open', s2, session)
      /\ made' \in 0 .. MaxConns /\ made <= made' /\ open' \in SUBSET (1 .. made')
      /\ s2.at \in Early => s.at \in Early
  BY <1>1, <1>2, <1>3, TunnelsAssumption DEF NoneReopened, ConnOf, Early
<1>7. MovesOn(e, e2, s, s2, r, made')
  BY <1>1, <1>2, <1>3, <1>4, <1>6 DEF MovesOn, RowFits, SameButLink
<1> USE DEF e, s, e2, s2
<1>8. QED
  BY <1>3, <1>4, <1>5, <1>6, <1>7, KeeperMoves, Zenon

LEMMA AgainStep ==
    ASSUME TunnelsInv, NEW t \in Tunnels, NEW r \in Runs, sup[t][r].at \in Keeping,
           sup[t][r].conn \notin open, TryAgain(t, r), entry[t].kind.reconnect,
           made' \in {made, made + 1},
           made' \in 0 .. MaxConns, UNCHANGED <<starts, fwds, started, session, open>>
    PROVE  TunnelsInv'
<1> DEFINE e == entry[t]
           s == sup[t][r]
           e2 == entry'[t]
           s2 == sup'[t][r]
<1>1. s.at \in Keeping /\ s.conn \notin open
  OBVIOUS
<1>2. /\ e \in Entries /\ s \in Sups /\ RowFits(e, starts[t]) /\ KeeperFits(e, starts[t], r, s, made)
      /\ made \in 0 .. MaxConns /\ made \in Nat /\ open \in SUBSET (1 .. made) /\ session \in 0 .. made
      /\ entry \in [Tunnels -> Entries] /\ sup \in [Tunnels -> [Runs -> Sups]]
      /\ r \in Nat /\ r # 0
  BY <1>1, KeeperFacts
<1>3. /\ s2.at = Waits(t, r, "retrying") /\ s2.conn = 0
      /\ SameButAt(s, s2) /\ sup' \in [Tunnels -> [Runs -> Sups]]
      /\ \A x \in Tunnels, q \in Runs : x # t \/ q # r => sup'[x][q] = sup[x][q]
  <2>1. Waits(t, r, "retrying") \in Keeping \cup {"over"} /\ 0 \in 0 .. MaxConns
    BY TunnelsAssumption DEF Waits, Keeping
  <2> DEFINE v == [sup[t][r] EXCEPT !.at = Waits(t, r, "retrying"), !.conn = 0]
  <2>2. SetTo(sup, sup', t, r, v)
    BY DEF TryAgain, SetTo
  <2>3. v \in Sups /\ v.at = Waits(t, r, "retrying") /\ v.conn = 0 /\ SameButAt(s, v)
    BY <1>2, <2>1 DEF Sups, Keeping, SameButAt
  <2> HIDE DEF v
  <2>4. OnlySup(sup, sup', t, r, v)
    BY <1>2, <2>2, <2>3, SupSet, Zenon
  <2>5. QED
    BY <2>3, <2>4, Zenon DEF OnlySup
<1>4. /\ SameButLink(e, e2) /\ e2.ask = e.ask /\ (e2 = e \/ r = e.run)
      /\ r = e.run => e2.link = "retrying"
      /\ entry' \in [Tunnels -> Entries]
      /\ \A x \in Tunnels : x # t => entry'[x] = entry[x]
  <2>1. SetLink(t, r, "retrying") /\ "retrying" \in Links
    BY DEF TryAgain, Links
  <2>2. QED
    BY <2>1, LinkSet, Zenon
<1>5. UNCHANGED <<starts, fwds, started, session>>
  OBVIOUS
<1>0. Waits(t, r, "retrying") \in {"stopping", "retrying"}
  BY DEF Waits
<1> HIDE DEF e, s, e2, s2
<1>6. /\ NoneReopened(open, made, open') /\ ConnOf(open, s, open', s2, session)
      /\ made' \in 0 .. MaxConns /\ made <= made' /\ open' \in SUBSET (1 .. made')
      /\ s2.at \in Early => s.at \in Early
  BY <1>0, <1>1, <1>2, <1>3, TunnelsAssumption DEF NoneReopened, ConnOf, Early
<1>7. MovesOn(e, e2, s, s2, r, made')
  BY <1>0, <1>1, <1>2, <1>3, <1>4, <1>6 DEF MovesOn, RowFits, SameButLink
<1> USE DEF e, s, e2, s2
<1>8. QED
  BY <1>3, <1>4, <1>5, <1>6, <1>7, KeeperMoves, Zenon

LEMMA TryAgainStep ==
    ASSUME TunnelsInv, NEW t \in Tunnels, NEW r \in Runs, sup[t][r].at \in Keeping,
           sup[t][r].conn \notin open, TryAgain(t, r), made' \in {made, made + 1},
           made' \in 0 .. MaxConns, UNCHANGED <<starts, fwds, started, session, open>>
    PROVE  TunnelsInv'
<1>1. CASE ~entry[t].kind.reconnect
  <2>1. Ended(t, r)
    BY <1>1 DEF TryAgain
  <2>2. QED
    BY <2>1, EndedStep, Zenon
<1>2. CASE entry[t].kind.reconnect
  BY <1>2, AgainStep, Zenon
<1>3. QED
  BY <1>1, <1>2

LEMMA ConnectFailsStep ==
    ASSUME TunnelsInv, NEW t \in Tunnels, NEW r \in Runs, ConnectFails(t, r)
    PROVE  TunnelsInv'
<1>1. sup[t][r].at = "connecting" /\ sup[t][r].at \in Keeping
  BY DEF ConnectFails, Supervisor, Keeping
<1>2. /\ KeeperFits(entry[t], starts[t], r, sup[t][r], made) /\ made \in Nat
      /\ open \in SUBSET (1 .. made)
  BY <1>1, KeeperFacts
<1>3. sup[t][r].conn \notin open
  BY <1>1, <1>2 DEF KeeperFits
<1>4. /\ TryAgain(t, r) /\ made' \in {made, made + 1} /\ made' \in 0 .. MaxConns
      /\ UNCHANGED <<starts, fwds, started, session, open>>
  BY <1>2, TunnelsAssumption DEF ConnectFails
<1>5. QED
  BY <1>1, <1>3, <1>4, TryAgainStep, Zenon

LEMMA LossNoticedStep ==
    ASSUME TunnelsInv, NEW t \in Tunnels, NEW r \in Runs, LossNoticed(t, r)
    PROVE  TunnelsInv'
<1>1. sup[t][r].at \in Keeping /\ sup[t][r].conn \notin open
  BY DEF LossNoticed, Supervisor, Keeping
<1>2. made \in 0 .. MaxConns
  BY <1>1, KeeperFacts
<1>3. /\ TryAgain(t, r) /\ made' \in {made, made + 1} /\ made' \in 0 .. MaxConns
      /\ UNCHANGED <<starts, fwds, started, session, open>>
  BY <1>2 DEF LossNoticed
<1>4. QED
  BY <1>1, <1>3, TryAgainStep, Zenon

LEMMA KeeperStopsStep ==
    ASSUME TunnelsInv, NEW t \in Tunnels, NEW r \in Runs, KeeperStops(t, r)
    PROVE  TunnelsInv'
<1> DEFINE e == entry[t]
           s == sup[t][r]
           e2 == entry'[t]
           s2 == sup'[t][r]
<1>1. s.at \in Keeping /\ s.stop
  BY DEF KeeperStops, Keeping
<1>2. /\ e \in Entries /\ s \in Sups /\ RowFits(e, starts[t]) /\ KeeperFits(e, starts[t], r, s, made)
      /\ made \in 0 .. MaxConns /\ made \in Nat /\ open \in SUBSET (1 .. made) /\ session \in 0 .. made
      /\ entry \in [Tunnels -> Entries] /\ sup \in [Tunnels -> [Runs -> Sups]]
      /\ r \in Nat /\ r # 0 /\ ~e.kind.tied
  BY <1>1, KeeperFacts
<1>3. /\ s2.at = "over" /\ s2.conn = 0
      /\ SameButAt(s, s2) /\ sup' \in [Tunnels -> [Runs -> Sups]]
      /\ \A x \in Tunnels, q \in Runs : x # t \/ q # r => sup'[x][q] = sup[x][q]
  <2>1. "over" \in Keeping \cup {"over"} /\ 0 \in 0 .. MaxConns
    BY TunnelsAssumption
  <2> DEFINE v == [sup[t][r] EXCEPT !.at = "over", !.conn = 0]
  <2>2. SetTo(sup, sup', t, r, v)
    BY DEF KeeperStops, SetTo
  <2>3. v \in Sups /\ v.at = "over" /\ v.conn = 0 /\ SameButAt(s, v)
    BY <1>2, <2>1 DEF Sups, Keeping, SameButAt
  <2> HIDE DEF v
  <2>4. OnlySup(sup, sup', t, r, v)
    BY <1>2, <2>2, <2>3, SupSet, Zenon
  <2>5. QED
    BY <2>3, <2>4, Zenon DEF OnlySup
<1>4. /\ e2 = e /\ entry' \in [Tunnels -> Entries] /\ SameButLink(e, e2)
      /\ \A x \in Tunnels : x # t => entry'[x] = entry[x]
  BY <1>2 DEF KeeperStops, SameButLink
<1>5. UNCHANGED <<starts, fwds, started, session, made>> /\ open' = open \ {s.conn}
  BY DEF KeeperStops
<1> HIDE DEF e, s, e2, s2
<1>6. /\ NoneReopened(open, made, open') /\ ConnOf(open, s, open', s2, session)
      /\ made' \in 0 .. MaxConns /\ made <= made' /\ open' \in SUBSET (1 .. made')
      /\ s2.at \in Early => s.at \in Early
  <2>1. made' = made /\ made <= made'
    BY <1>2, <1>5
  <2>2. QED
    BY <1>2, <1>3, <1>5, <2>1 DEF NoneReopened, ConnOf, Early
<1>7. MovesOn(e, e2, s, s2, r, made')
  <2>1. r = e.run => e2.link # "ended"
    BY <1>1, <1>2, <1>4 DEF KeeperFits, Keeping
  <2>2. QED
    BY <1>1, <1>2, <1>3, <1>4, <1>6, <2>1 DEF MovesOn, RowFits
<1> USE DEF e, s, e2, s2
<1>8. QED
  BY <1>3, <1>4, <1>5, <1>6, <1>7, KeeperMoves, Zenon

LEMMA QuestionStep ==
    ASSUME TunnelsInv, NEW t \in Tunnels, NEW r \in Runs, Question(t, r)
    PROVE  TunnelsInv'
<1> DEFINE e == entry[t]
           s == sup[t][r]
           e2 == entry'[t]
           s2 == sup'[t][r]
<1>1. s.at = "connecting" /\ s.at \in Keeping
  BY DEF Question, Supervisor, Keeping
<1>2. /\ e \in Entries /\ s \in Sups /\ RowFits(e, starts[t]) /\ KeeperFits(e, starts[t], r, s, made)
      /\ made \in 0 .. MaxConns /\ made \in Nat /\ open \in SUBSET (1 .. made) /\ session \in 0 .. made
      /\ entry \in [Tunnels -> Entries] /\ sup \in [Tunnels -> [Runs -> Sups]]
      /\ r \in Nat /\ r # 0 /\ ~e.kind.tied
  BY <1>1, KeeperFacts
<1>3. s.conn = 0 /\ s.conn \notin open
  BY <1>1, <1>2 DEF KeeperFits
<1>4. CASE e.run # r
  <2>1. Ended(t, r) /\ UNCHANGED <<starts, fwds, started, session, open>> /\ made' \in {made, made + 1}
    BY <1>4 DEF Question, Current
  <2>2. made' \in 0 .. MaxConns
    BY <1>2 DEF Question
  <2>3. QED
    BY <1>1, <1>3, <2>1, <2>2, EndedStep, Zenon
<1>5. CASE e.run = r
  <2>3. /\ s2.at = "asking" /\ s2.conn = s.conn
        /\ SameButAt(s, s2) /\ sup' \in [Tunnels -> [Runs -> Sups]]
        /\ \A x \in Tunnels, q \in Runs : x # t \/ q # r => sup'[x][q] = sup[x][q]
    <3>1. "asking" \in Keeping \cup {"over"}
      BY DEF Keeping
    <3> DEFINE v == [sup[t][r] EXCEPT !.at = "asking"]
    <3>2. SetTo(sup, sup', t, r, v)
      BY <1>5 DEF Question, Current, SetTo
    <3>3. v \in Sups /\ v.at = "asking" /\ v.conn = s.conn /\ SameButAt(s, v)
      BY <1>2 DEF Sups, SameButAt
    <3> HIDE DEF v
    <3>4. OnlySup(sup, sup', t, r, v)
      BY <1>2, <3>2, <3>3, SupSet, Zenon
    <3>5. QED
      BY <3>3, <3>4, Zenon DEF OnlySup
  <2>4. /\ SameButLink(e, e2) /\ e2.ask = r /\ e2.link = e.link /\ e2.run = e.run
        /\ entry' \in [Tunnels -> Entries]
        /\ \A x \in Tunnels : x # t => entry'[x] = entry[x]
    <3>1. entry' = [entry EXCEPT ![t].ask = r] /\ r \in 0 .. MaxRuns
      BY <1>5 DEF Question, Current, Runs
    <3>2. QED
      BY <1>2, <3>1 DEF SameButLink, Entries
  <2>5. UNCHANGED <<starts, fwds, started, session, open, made>>
    BY DEF Question
  <2> HIDE DEF e, s, e2, s2
  <2>6. /\ NoneReopened(open, made, open') /\ ConnOf(open, s, open', s2, session)
        /\ made' \in 0 .. MaxConns /\ made <= made' /\ open' \in SUBSET (1 .. made')
        /\ s2.at \in Early => s.at \in Early
    BY <1>1, <1>2, <2>3, <2>5 DEF NoneReopened, ConnOf, Early
  <2>7. MovesOn(e, e2, s, s2, r, made')
    <3>1. e.link # "ended"
      BY <1>1, <1>2, <1>5 DEF KeeperFits
    <3>2. s2.conn <= made'
      BY <1>2, <1>3, <2>3, <2>5
    <3>3. QED
      BY <1>1, <1>3, <1>5, <2>3, <2>4, <3>1, <3>2 DEF MovesOn
  <2> USE DEF e, s, e2, s2
  <2>8. QED
    BY <2>3, <2>4, <2>5, <2>6, <2>7, KeeperMoves, Zenon
<1>6. QED
  BY <1>4, <1>5

(* A step of run r of tunnel t that keeps this run's invariant.              *)
LEMMA StepOfRun ==
    ASSUME TunnelsInv, NEW t \in Tunnels, NEW r \in Runs,
           Typed(entry', starts', sup', fwds', started', session, open', made'),
           session' = session, made <= made',
           OnlyRun(entry, starts, sup, entry', starts', sup', t, r),
           ForwardsOf(fwds, started, fwds', started', t, r),
           NoneReopened(open, made, open'), ConnOf(open, sup[t][r], open', sup'[t][r], session),
           RunFits(entry'[t], starts'[t], sup'[t][r], fwds', started', t, r, session, open', made')
    PROVE  TunnelsInv'
<1>1. Fit(entry, starts, sup, fwds, started, session, open, made)
  BY DEF TunnelsInv
<1>2. Fit(entry', starts', sup', fwds', started', session, open', made')
  BY <1>1, RunStep, Zenon
<1>3. QED
  BY <1>2 DEF TunnelsInv

LEMMA Types ==
    ASSUME TunnelsInv
    PROVE  /\ entry \in [Tunnels -> Entries] /\ starts \in [Tunnels -> 0 .. MaxRuns]
           /\ sup \in [Tunnels -> [Runs -> Sups]] /\ fwds \in [1 .. started -> Fwds]
           /\ started \in 0 .. MaxForwards /\ started \in Nat
           /\ made \in 0 .. MaxConns /\ made \in Nat /\ made <= made
           /\ session \in 0 .. made /\ open \in SUBSET (1 .. made)
BY TunnelsAssumption DEF TunnelsInv, Fit, Typed

LEMMA RunOf ==
    ASSUME TunnelsInv, NEW t \in Tunnels, NEW r \in Runs
    PROVE  RunFits(entry[t], starts[t], sup[t][r], fwds, started, t, r, session, open, made)
<1>1. Fit(entry, starts, sup, fwds, started, session, open, made)
  BY DEF TunnelsInv
<1>2. QED
  BY <1>1, FitRun, Zenon

(* What a step that sets tunnel t's row to v makes of the rows.              *)
RowTo(en, en2, t, v) == en2 = [en EXCEPT ![t] = v]

OnlyRow(en, en2, t, v) ==
    /\ en2[t] = v /\ en2 \in [Tunnels -> Entries]
    /\ \A x \in Tunnels : x # t => en2[x] = en[x]

LEMMA RowSet ==
    ASSUME NEW en, en \in [Tunnels -> Entries], NEW t \in Tunnels, NEW v, v \in Entries,
           NEW en2, RowTo(en, en2, t, v)
    PROVE  OnlyRow(en, en2, t, v)
BY DEF RowTo, OnlyRow

LEMMA NothingOpened ==
    ASSUME NEW o, NEW mk, NEW s, NEW s2, NEW c, s2.conn = s.conn
    PROVE  NoneReopened(o, mk, o) /\ ConnOf(o, s, o, s2, c)
BY DEF NoneReopened, ConnOf

(* A row whose question was answered.                                        *)
LEMMA AskedRun ==
    ASSUME NEW e, NEW st, NEW s, NEW fw, NEW nf, NEW t, NEW r, NEW c, NEW o, NEW mk,
           RunFits(e, st, s, fw, nf, t, r, c, o, mk),
           NEW e2, SameButLink(e, e2), e2.link = e.link, e2.ask = 0
    PROVE  RunFits(e2, st, s, fw, nf, t, r, c, o, mk)
<1>1. RowFits(e2, st)
  BY DEF RunFits, RowFits, SameButLink
<1>2. KeeperFits(e2, st, r, s, mk) /\ FollowerFits(e2, st, r, s, c, o)
  BY DEF RunFits, KeeperFits, FollowerFits, SameButLink
<1>3. ASSUME NEW n \in 1 .. nf, Of(fw[n], t, r)
      PROVE  AllFits(e2, st, s, n, fw[n], c, o, mk)
  <2>1. AllFits(e, st, s, n, fw[n], c, o, mk)
    BY <1>3 DEF RunFits
  <2>2. ForwardFits(e2, st, s, fw[n], mk)
    BY <2>1 DEF AllFits, ForwardFits, SameButLink
  <2>3. OwnFits(e2, s, fw[n])
    BY <2>1 DEF AllFits, OwnFits, SameButLink
  <2>4. TiedFits(e2, s, n, fw[n], c, o)
    BY <2>1 DEF AllFits, TiedFits, SameButLink
  <2>5. QED
    BY <2>2, <2>3, <2>4 DEF AllFits
<1>4. \A n, m \in 1 .. nf :
        n # m /\ Of(fw[n], t, r) /\ Of(fw[m], t, r) => Alone(e2, fw[n], fw[m])
  BY DEF RunFits, Alone, SameButLink
<1>5. /\ s.fwd # 0 => s.fwd \in 1 .. nf /\ Of(fw[s.fwd], t, r)
      /\ ~e2.kind.tied /\ s.at # "none" => \E n \in 1 .. nf : Of(fw[n], t, r)
  BY DEF RunFits, SameButLink
<1>6. QED
  BY <1>1, <1>2, <1>3, <1>4, <1>5 DEF RunFits

(* The user answers: the keeper that waits goes on, or is over.              *)
LEMMA AnswerStep ==
    ASSUME TunnelsInv, NEW t \in Tunnels, NEW cancel \in BOOLEAN, Answer(t, cancel)
    PROVE  TunnelsInv'
<1> DEFINE r == entry[t].ask
<1>1. entry[t] \in Entries /\ RowFits(entry[t], starts[t])
  BY Types DEF TunnelsInv, Fit, RowsFit
<1>2. r # 0 /\ r = entry[t].run /\ r \in Runs
  BY <1>1, TunnelsAssumption DEF Answer, RowFits, Entries, Runs
<1>3. UNCHANGED <<starts, fwds, started, session, open, made>>
  BY DEF Answer
<1>4. CASE sup[t][r].at = "asking"
  <2> DEFINE e == entry[t]
             s == sup[t][r]
             e2 == entry'[t]
             s2 == sup'[t][r]
             at == IF cancel THEN "over" ELSE "connecting"
  <2>1. s.at \in Keeping
    BY <1>4 DEF Keeping
  <2>2. /\ KeeperFits(e, starts[t], r, s, made) /\ s \in Sups /\ ~e.kind.tied
        /\ made \in 0 .. MaxConns /\ made \in Nat /\ open \in SUBSET (1 .. made)
        /\ entry \in [Tunnels -> Entries] /\ sup \in [Tunnels -> [Runs -> Sups]]
    BY <1>2, <2>1, KeeperFacts
  <2>3. /\ s2.at = at /\ s2.conn = s.conn
        /\ SameButAt(s, s2) /\ sup' \in [Tunnels -> [Runs -> Sups]]
        /\ \A x \in Tunnels, q \in Runs : x # t \/ q # r => sup'[x][q] = sup[x][q]
    <3> DEFINE v == [sup[t][r] EXCEPT !.at = at]
    <3>1. SetTo(sup, sup', t, r, v)
      BY <1>4 DEF Answer, Supervisor, SetTo
    <3>2. v \in Sups /\ v.at = at /\ v.conn = s.conn /\ SameButAt(s, v)
      BY <2>2 DEF Sups, SameButAt
    <3> HIDE DEF v, r
    <3>3. OnlySup(sup, sup', t, r, v)
      BY <1>2, <2>2, <3>1, <3>2, SupSet, Zenon
    <3>4. QED
      BY <3>2, <3>3, Zenon DEF OnlySup
  <2>4. /\ SameButLink(e, e2) /\ e2.ask = 0 /\ e2.link = IF cancel THEN "ended" ELSE e.link
        /\ entry' \in [Tunnels -> Entries]
        /\ \A x \in Tunnels : x # t => entry'[x] = entry[x]
    <3> DEFINE v == [entry[t] EXCEPT !.ask = 0, !.link = IF cancel THEN "ended" ELSE entry[t].link]
    <3>1. RowTo(entry, entry', t, v)
      BY <1>1, <1>4, <2>2 DEF Answer, Supervisor, Entries, RowTo
    <3>2. 0 \in 0 .. MaxRuns
      BY TunnelsAssumption
    <3>3. /\ v \in Entries /\ SameButLink(e, v) /\ v.ask = 0
          /\ v.link = IF cancel THEN "ended" ELSE e.link
      BY <1>1, <3>2 DEF SameButLink, Entries, Links
    <3> HIDE DEF v
    <3>4. OnlyRow(entry, entry', t, v)
      BY <2>2, <3>1, <3>3, RowSet, Zenon
    <3>5. QED
      BY <3>3, <3>4, Zenon DEF OnlyRow
  <2> HIDE DEF e, s, e2, s2, r
  <2>5. s.conn = 0 /\ e.link # "ended"
    BY <1>2, <1>4, <2>2 DEF KeeperFits, e, s
  <2>6. /\ NoneReopened(open, made, open') /\ ConnOf(open, s, open', s2, session)
        /\ made' \in 0 .. MaxConns /\ made <= made' /\ open' \in SUBSET (1 .. made')
        /\ s2.at \in Early => s.at \in Early
    BY <1>3, <1>4, <2>2, <2>3 DEF NoneReopened, ConnOf, Early, s
  <2>7. MovesOn(e, e2, s, s2, r, made')
    <3>1. r = e.run
      BY <1>2 DEF e
    <3>2. s2.conn <= made'
      BY <1>3, <2>2, <2>3, <2>5
    <3>3. QED
      BY <2>1, <2>3, <2>4, <2>5, <3>1, <3>2 DEF MovesOn
  <2> USE DEF e, s, e2, s2
  <2>8. QED
    BY <1>2, <1>3, <2>3, <2>4, <2>6, <2>7, KeeperMoves, Zenon
<1>5. CASE sup[t][r].at # "asking"
  <2>1. sup' = sup /\ entry' = [entry EXCEPT ![t].ask = 0]
    BY <1>5 DEF Answer, Supervisor
  <2>2. /\ SameButLink(entry[t], entry'[t]) /\ entry'[t].link = entry[t].link /\ entry'[t].ask = 0
        /\ entry' \in [Tunnels -> Entries]
        /\ \A x \in Tunnels : x # t => entry'[x] = entry[x]
    <3> DEFINE v == [entry[t] EXCEPT !.ask = 0]
    <3>1. RowTo(entry, entry', t, v)
      BY <2>1 DEF RowTo
    <3>2. 0 \in 0 .. MaxRuns
      BY TunnelsAssumption
    <3>3. v \in Entries /\ SameButLink(entry[t], v) /\ v.ask = 0 /\ v.link = entry[t].link
      BY <1>1, <3>2 DEF SameButLink, Entries
    <3> HIDE DEF v
    <3>4. OnlyRow(entry, entry', t, v)
      BY <3>1, <3>3, Types, RowSet, Zenon
    <3>5. QED
      BY <3>3, <3>4, Zenon DEF OnlyRow
  <2> HIDE DEF r
  <2>3. RunFits(entry[t], starts[t], sup[t][r], fwds, started, t, r, session, open, made)
    BY <1>2, RunOf, Zenon
  <2>4. RunFits(entry'[t], starts[t], sup[t][r], fwds, started, t, r, session, open, made)
    BY <2>2, <2>3, AskedRun, Zenon
  <2>5. RunFits(entry'[t], starts'[t], sup'[t][r], fwds', started', t, r, session, open', made')
    BY <1>3, <2>1, <2>4
  <2>6. OnlyRun(entry, starts, sup, entry', starts', sup', t, r)
    BY <1>2, <1>3, <2>1, <2>2 DEF OnlyRun, SameButLink
  <2>7. /\ NoneReopened(open, made, open') /\ ConnOf(open, sup[t][r], open', sup'[t][r], session)
        /\ ForwardsOf(fwds, started, fwds', started', t, r)
    BY <1>3, <2>1, Types DEF NoneReopened, ConnOf, ForwardsOf
  <2>8. /\ Typed(entry', starts', sup', fwds', started', session, open', made')
        /\ session' = session /\ made <= made'
    BY <1>3, <2>1, <2>2, Types DEF Typed
  <2>9. QED
    BY <1>2, <2>5, <2>6, <2>7, <2>8, StepOfRun, Zenon
<1>6. QED
  BY <1>4, <1>5

(* What a step that sets forward n to v makes of the forwards.               *)
FwdTo(fw, fw2, n, v) == fw2 = [fw EXCEPT ![n] = v]

OnlyFwd(fw, fw2, nf, n, v) ==
    /\ fw2[n] = v /\ fw2 \in [1 .. nf -> Fwds]
    /\ \A m \in 1 .. nf : m # n => fw2[m] = fw[m]

LEMMA FwdSet ==
    ASSUME NEW nf, NEW fw, fw \in [1 .. nf -> Fwds], NEW n \in 1 .. nf, NEW v, v \in Fwds,
           NEW fw2, FwdTo(fw, fw2, n, v)
    PROVE  OnlyFwd(fw, fw2, nf, n, v)
BY DEF FwdTo, OnlyFwd

(* A forward moves on; its row and its keeper may hear of it, and they and   *)
(* the run's other forwards of it in turn.                                   *)
SameRuns(fw, fw2, nf, n) ==
    \A m \in 1 .. nf : fw2[m].t = fw[m].t /\ fw2[m].r = fw[m].r /\ (m # n => fw2[m].at = fw[m].at)

LEMMA ForwardsMove ==
    ASSUME NEW e, NEW st, NEW s, NEW fw, NEW nf, NEW t, NEW r, NEW c, NEW o, NEW mk,
           RunFits(e, st, s, fw, nf, t, r, c, o, mk), NEW n \in 1 .. nf, Of(fw[n], t, r),
           NEW e2, NEW s2, NEW fw2, SameRuns(fw, fw2, nf, n),
           e2.kind = e.kind, s2.at = s.at, s2.fwd = s.fwd,
           RowFits(e2, st), KeeperFits(e2, st, r, s2, mk), FollowerFits(e2, st, r, s2, c, o),
           \A m \in 1 .. nf : Of(fw[m], t, r) => AllFits(e2, st, s2, m, fw2[m], c, o, mk),
           ~e.kind.remote /\ fw2[n].at \in Opening => fw[n].at \in Opening
    PROVE  RunFits(e2, st, s2, fw2, nf, t, r, c, o, mk)
<1>1. \A m \in 1 .. nf : Of(fw2[m], t, r) <=> Of(fw[m], t, r)
  BY DEF SameRuns, Of
<1>2. \A m \in 1 .. nf : ~e.kind.remote /\ fw2[m].at \in Opening => fw[m].at \in Opening
  BY DEF SameRuns
<1>3. \A m, l \in 1 .. nf :
        m # l /\ Of(fw2[m], t, r) /\ Of(fw2[l], t, r) => Alone(e2, fw2[m], fw2[l])
  BY <1>1, <1>2 DEF RunFits, Alone
<1>4. /\ s2.fwd # 0 => s2.fwd \in 1 .. nf /\ Of(fw2[s2.fwd], t, r)
      /\ ~e2.kind.tied /\ s2.at # "none" => \E m \in 1 .. nf : Of(fw2[m], t, r)
  BY <1>1 DEF RunFits
<1>5. QED
  BY <1>1, <1>3, <1>4 DEF RunFits

LEMMA ForwardFacts ==
    ASSUME TunnelsInv, NEW n, n \in DOMAIN fwds,
           NEW t, t = fwds[n].t, NEW r, r = fwds[n].r
    PROVE  /\ n \in 1 .. started /\ n # 0 /\ fwds[n] \in Fwds /\ t \in Tunnels /\ r \in Runs
           /\ r \in Nat /\ r # 0 /\ starts[t] \in Nat /\ r <= starts[t] /\ Of(fwds[n], t, r)
           /\ entry[t] \in Entries /\ sup[t][r] \in Sups
           /\ RunFits(entry[t], starts[t], sup[t][r], fwds, started, t, r, session, open, made)
           /\ RowFits(entry[t], starts[t]) /\ KeeperFits(entry[t], starts[t], r, sup[t][r], made)
           /\ FollowerFits(entry[t], starts[t], r, sup[t][r], session, open)
           /\ AllFits(entry[t], starts[t], sup[t][r], n, fwds[n], session, open, made)
<1>1. n \in 1 .. started /\ n # 0 /\ fwds[n] \in Fwds
  BY Types
<1>2. t \in Tunnels /\ r \in Runs /\ Of(fwds[n], t, r)
  BY <1>1 DEF Fwds, Of
<1>3. r \in Nat /\ r # 0 /\ starts[t] \in Nat /\ entry[t] \in Entries /\ sup[t][r] \in Sups
  BY <1>2, Types, TunnelsAssumption DEF Runs
<1>4. RunFits(entry[t], starts[t], sup[t][r], fwds, started, t, r, session, open, made)
  BY <1>2, RunOf, Zenon
<1>5. /\ RowFits(entry[t], starts[t]) /\ KeeperFits(entry[t], starts[t], r, sup[t][r], made)
      /\ FollowerFits(entry[t], starts[t], r, sup[t][r], session, open)
      /\ AllFits(entry[t], starts[t], sup[t][r], n, fwds[n], session, open, made)
  BY <1>1, <1>2, <1>4 DEF RunFits
<1>6. r <= starts[t]
  BY <1>5 DEF AllFits, ForwardFits
<1>7. QED
  BY <1>1, <1>2, <1>3, <1>4, <1>5, <1>6

(* A step of forward n, of run r of tunnel t.                                *)
LEMMA ForwardStep ==
    ASSUME TunnelsInv, NEW t \in Tunnels, NEW r \in Runs,
           UNCHANGED <<starts, started, session, open, made>>,
           entry' \in [Tunnels -> Entries], sup' \in [Tunnels -> [Runs -> Sups]],
           fwds' \in [1 .. started -> Fwds],
           \A x \in Tunnels : x # t => entry'[x] = entry[x],
           \A x \in Tunnels, q \in Runs : x # t \/ q # r => sup'[x][q] = sup[x][q],
           \A m \in 1 .. started : /\ fwds'[m].t = fwds[m].t /\ fwds'[m].r = fwds[m].r
                                   /\ ~Of(fwds[m], t, r) => fwds'[m] = fwds[m],
           entry'[t].kind = entry[t].kind, entry'[t].run = entry[t].run,
           entry'[t] = entry[t] \/ entry[t].run = r,
           sup'[t][r].conn = sup[t][r].conn,
           RunFits(entry'[t], starts[t], sup'[t][r], fwds', started, t, r, session, open, made)
    PROVE  TunnelsInv'
<1>1. /\ NoneReopened(open, made, open') /\ ConnOf(open, sup[t][r], open', sup'[t][r], session)
  BY NothingOpened
<1>2. OnlyRun(entry, starts, sup, entry', starts', sup', t, r)
  BY DEF OnlyRun
<1>3. ForwardsOf(fwds, started, fwds', started', t, r)
  BY Types DEF ForwardsOf
<1>4. Typed(entry', starts', sup', fwds', started', session, open', made')
  BY Types DEF Typed
<1>5. session' = session /\ made <= made'
  BY Types
<1>6. RunFits(entry'[t], starts'[t], sup'[t][r], fwds', started', t, r, session, open', made')
  OBVIOUS
<1>7. QED
  BY <1>1, <1>2, <1>3, <1>4, <1>5, <1>6, StepOfRun, Zenon

(* One that only the forward itself knows of.                                *)
LEMMA ForwardMoves ==
    ASSUME TunnelsInv, NEW n, n \in DOMAIN fwds,
           UNCHANGED <<entry, sup, starts, started, session, open, made>>,
           NEW t, t = fwds[n].t, NEW r, r = fwds[n].r,
           NEW v, v \in Fwds, v.t = t, v.r = r, FwdTo(fwds, fwds', n, v),
           AllFits(entry[t], starts[t], sup[t][r], n, v, session, open, made),
           ~entry[t].kind.remote /\ v.at \in Opening => fwds[n].at \in Opening
    PROVE  TunnelsInv'
<1>1. /\ n \in 1 .. started /\ t \in Tunnels /\ r \in Runs /\ Of(fwds[n], t, r)
      /\ RunFits(entry[t], starts[t], sup[t][r], fwds, started, t, r, session, open, made)
      /\ RowFits(entry[t], starts[t]) /\ KeeperFits(entry[t], starts[t], r, sup[t][r], made)
      /\ FollowerFits(entry[t], starts[t], r, sup[t][r], session, open)
  BY ForwardFacts, Zenon
<1>2. OnlyFwd(fwds, fwds', started, n, v)
  BY <1>1, Types, FwdSet, Zenon
<1>3. SameRuns(fwds, fwds', started, n) /\ fwds'[n] = v
  BY <1>1, <1>2 DEF OnlyFwd, SameRuns, Of
<1>4. ASSUME NEW m \in 1 .. started, Of(fwds[m], t, r)
      PROVE  AllFits(entry[t], starts[t], sup[t][r], m, fwds'[m], session, open, made)
  <2>1. CASE m = n
    BY <1>3, <2>1
  <2>2. CASE m # n
    BY <1>1, <1>2, <1>4, <2>2 DEF RunFits, OnlyFwd
  <2>3. QED
    BY <2>1, <2>2
<1>5. RunFits(entry[t], starts[t], sup[t][r], fwds', started, t, r, session, open, made)
  BY <1>1, <1>3, <1>4, ForwardsMove, Zenon
<1>6. /\ fwds' \in [1 .. started -> Fwds]
      /\ \A m \in 1 .. started : /\ fwds'[m].t = fwds[m].t /\ fwds'[m].r = fwds[m].r
                                 /\ ~Of(fwds[m], t, r) => fwds'[m] = fwds[m]
  BY <1>1, <1>2, <1>3 DEF OnlyFwd, SameRuns
<1>7. /\ entry' \in [Tunnels -> Entries] /\ sup' \in [Tunnels -> [Runs -> Sups]]
      /\ \A x \in Tunnels : x # t => entry'[x] = entry[x]
      /\ \A x \in Tunnels, q \in Runs : x # t \/ q # r => sup'[x][q] = sup[x][q]
      /\ entry'[t].kind = entry[t].kind /\ entry'[t].run = entry[t].run
      /\ entry'[t] = entry[t] /\ sup'[t][r].conn = sup[t][r].conn
      /\ RunFits(entry'[t], starts[t], sup'[t][r], fwds', started, t, r, session, open, made)
  BY <1>5, Types
<1>8. QED
  BY <1>1, <1>6, <1>7, ForwardStep, Zenon

-----------------------------------------------------------------------------
(* The forwards.                                                             *)

(* It listens here.                                                          *)
LEMMA ListenBound ==
    ASSUME TunnelsInv, NEW n, n \in DOMAIN fwds, Listen(n), Move(n, "bound"), UNCHANGED <<entry, sup>>
    PROVE  TunnelsInv'
<1> DEFINE t == fwds[n].t
           r == fwds[n].r
           w == fwds[n]
           e == entry[t]
           s == sup[t][r]
           v == [fwds[n] EXCEPT !.at = "bound"]
<1>1. /\ n \in 1 .. started /\ n # 0 /\ w \in Fwds /\ r # 0 /\ r <= starts[t]
      /\ r \in Nat /\ starts[t] \in Nat /\ s \in Sups /\ e \in Entries
      /\ KeeperFits(e, starts[t], r, s, made)
      /\ FollowerFits(e, starts[t], r, s, session, open)
      /\ AllFits(e, starts[t], s, n, w, session, open, made)
  BY ForwardFacts
<1>2. /\ session \in 0 .. made /\ session \in 0 .. MaxConns /\ made \in Nat /\ made \in 0 .. MaxConns
      /\ open \in SUBSET (1 .. made)
  BY Types, TunnelsAssumption
<1>3. w.at = "start" /\ ~e.kind.remote
  BY DEF Listen, At, Remote
<1>4. UNCHANGED <<entry, sup, starts, started, session, open, made>>
  BY DEF Listen
<1>5. FwdTo(fwds, fwds', n, v)
  BY <1>1, <1>3 DEF Listen, Move, FwdTo, Fwds
<1>6. /\ v \in Fwds /\ v.t = t /\ v.r = r /\ v.stop = w.stop /\ v.at = "bound"
      /\ v.conn = w.conn /\ v.seen = w.seen /\ v.done = w.done
  <2>1. 0 \in 0 .. MaxConns /\ s.conn \in 0 .. MaxConns
    BY <1>1, TunnelsAssumption DEF Sups
  <2>2. QED
    BY <1>1, <1>2, <1>3, <2>1 DEF Fwds
<1>7. w.r = r
  OBVIOUS
<1> HIDE DEF t, r, w, e, s, v
<1>8. ForwardFits(e, starts[t], s, v, made)
  BY <1>1, <1>2, <1>3, <1>6, <1>7 DEF AllFits, ForwardFits
<1>9. OwnFits(e, s, v)
  <2> SUFFICES ASSUME ~e.kind.tied, r = e.run PROVE OwnFits(e, s, v)
    BY <1>6 DEF OwnFits
  <2>1. /\ OwnFits(e, s, w) /\ w.stop = s.stop
    BY <1>1 DEF AllFits, ForwardFits
  <2>2. QED
    BY <1>1, <1>3, <1>6, <1>7, <2>1 DEF OwnFits, KeeperFits, Leaves
<1>10. TiedFits(e, s, n, v, session, open)
  <2> SUFFICES ASSUME e.kind.tied PROVE TiedFits(e, s, n, v, session, open)
    BY DEF TiedFits
  <2>1. TiedFits(e, s, n, w, session, open) /\ s.at \in {"tied", "over"} /\ (s.at = "over" => s.stop)
    BY <1>1 DEF AllFits, FollowerFits
  <2>2. QED
    BY <1>1, <1>2, <1>3, <1>6, <1>7, <2>1 DEF TiedFits, Opening
<1>11. AllFits(e, starts[t], s, n, v, session, open, made)
  BY <1>8, <1>9, <1>10 DEF AllFits
<1>12. ~e.kind.remote /\ v.at \in Opening => w.at \in Opening
  BY <1>3, <1>6 DEF Opening
<1> USE DEF t, r, w, e, s
<1>13. QED
  BY <1>4, <1>5, <1>6, <1>11, <1>12, ForwardMoves, Zenon

(* It stops listening here.                                                  *)
LEMMA ListenStopsStep ==
    ASSUME TunnelsInv, NEW n, n \in DOMAIN fwds, ListenStops(n)
    PROVE  TunnelsInv'
<1> DEFINE t == fwds[n].t
           r == fwds[n].r
           w == fwds[n]
           e == entry[t]
           s == sup[t][r]
           v == [fwds[n] EXCEPT !.at = "over"]
<1>1. /\ n \in 1 .. started /\ n # 0 /\ w \in Fwds /\ r # 0 /\ r <= starts[t]
      /\ r \in Nat /\ starts[t] \in Nat /\ s \in Sups /\ e \in Entries
      /\ KeeperFits(e, starts[t], r, s, made)
      /\ FollowerFits(e, starts[t], r, s, session, open)
      /\ AllFits(e, starts[t], s, n, w, session, open, made)
  BY ForwardFacts
<1>2. /\ session \in 0 .. made /\ session \in 0 .. MaxConns /\ made \in Nat /\ made \in 0 .. MaxConns
      /\ open \in SUBSET (1 .. made)
  BY Types, TunnelsAssumption
<1>3. w.at = "listening" /\ ~e.kind.remote /\ w.stop
  BY DEF ListenStops, At, Remote
<1>4. UNCHANGED <<entry, sup, starts, started, session, open, made>>
  BY DEF ListenStops
<1>5. FwdTo(fwds, fwds', n, v)
  BY <1>1, <1>3 DEF ListenStops, Move, FwdTo, Fwds
<1>6. /\ v \in Fwds /\ v.t = t /\ v.r = r /\ v.stop = w.stop /\ v.at = "over"
      /\ v.conn = w.conn /\ v.seen = w.seen /\ v.done = w.done
  <2>1. 0 \in 0 .. MaxConns /\ s.conn \in 0 .. MaxConns
    BY <1>1, TunnelsAssumption DEF Sups
  <2>2. QED
    BY <1>1, <1>2, <1>3, <2>1 DEF Fwds
<1>7. w.r = r
  OBVIOUS
<1> HIDE DEF t, r, w, e, s, v
<1>8. ForwardFits(e, starts[t], s, v, made)
  BY <1>1, <1>2, <1>3, <1>6, <1>7 DEF AllFits, ForwardFits
<1>9. OwnFits(e, s, v)
  <2> SUFFICES ASSUME ~e.kind.tied, r = e.run PROVE OwnFits(e, s, v)
    BY <1>6 DEF OwnFits
  <2>1. /\ OwnFits(e, s, w) /\ w.stop = s.stop
    BY <1>1 DEF AllFits, ForwardFits
  <2>2. QED
    BY <1>1, <1>3, <1>6, <1>7, <2>1 DEF OwnFits, KeeperFits, Leaves
<1>10. TiedFits(e, s, n, v, session, open)
  <2> SUFFICES ASSUME e.kind.tied PROVE TiedFits(e, s, n, v, session, open)
    BY DEF TiedFits
  <2>1. TiedFits(e, s, n, w, session, open) /\ s.at \in {"tied", "over"} /\ (s.at = "over" => s.stop)
    BY <1>1 DEF AllFits, FollowerFits
  <2>2. QED
    BY <1>1, <1>2, <1>3, <1>6, <1>7, <2>1 DEF TiedFits, Opening
<1>11. AllFits(e, starts[t], s, n, v, session, open, made)
  BY <1>8, <1>9, <1>10 DEF AllFits
<1>12. ~e.kind.remote /\ v.at \in Opening => w.at \in Opening
  BY <1>3, <1>6 DEF Opening
<1> USE DEF t, r, w, e, s
<1>13. QED
  BY <1>4, <1>5, <1>6, <1>11, <1>12, ForwardMoves, Zenon

(* It asks the server to listen.                                            *)
LEMMA LookOpen ==
    ASSUME TunnelsInv, NEW n, n \in DOMAIN fwds, Look(n), Watch(n) \in open
    PROVE  TunnelsInv'
<1> DEFINE t == fwds[n].t
           r == fwds[n].r
           w == fwds[n]
           e == entry[t]
           s == sup[t][r]
           v == [fwds[n] EXCEPT !.at = "register", !.conn = Watch(n), !.seen = Watch(n)]
<1>1. /\ n \in 1 .. started /\ n # 0 /\ w \in Fwds /\ r # 0 /\ r <= starts[t]
      /\ r \in Nat /\ starts[t] \in Nat /\ s \in Sups /\ e \in Entries
      /\ KeeperFits(e, starts[t], r, s, made)
      /\ FollowerFits(e, starts[t], r, s, session, open)
      /\ AllFits(e, starts[t], s, n, w, session, open, made)
  BY ForwardFacts
<1>2. /\ session \in 0 .. made /\ session \in 0 .. MaxConns /\ made \in Nat /\ made \in 0 .. MaxConns
      /\ open \in SUBSET (1 .. made)
  BY Types, TunnelsAssumption
<1>3. /\ w.at = "start" /\ e.kind.remote /\ Watch(n) \in open /\ Watch(n) \in Nat
      /\ Watch(n) <= made /\ Watch(n) \in 0 .. MaxConns /\ (~e.kind.tied => Watch(n) = s.conn)
      /\ e.kind.tied => Watch(n) = session
  <2>1. w.at = "start" /\ e.kind.remote /\ Watch(n) \in open
    BY DEF Look, At, Remote
  <2>2. (e.kind.tied => Watch(n) = session) /\ (~e.kind.tied => Watch(n) = s.conn)
    BY DEF Watch, Tied
  <2>3. Watch(n) \in Nat /\ Watch(n) <= made /\ Watch(n) \in 0 .. MaxConns
    <3>1. \A x \in open : x \in 1 .. made
      BY <1>2
    <3>2. MaxConns \in Nat
      BY TunnelsAssumption
    <3>3. \A x \in open : x \in Nat /\ x <= made /\ x \in 0 .. MaxConns
      BY <1>2, <3>1, <3>2
    <3>4. QED
      BY <2>1, <3>3, Zenon
  <2>4. QED
    BY <2>1, <2>2, <2>3
<1>4. UNCHANGED <<entry, sup, starts, started, session, open, made>>
  BY DEF Look
<1>5. FwdTo(fwds, fwds', n, v)
  BY <1>1, <1>3 DEF Look, Move, FwdTo, Fwds
<1>6. /\ v \in Fwds /\ v.t = t /\ v.r = r /\ v.stop = w.stop /\ v.at = "register"
      /\ v.conn = Watch(n) /\ v.seen = Watch(n) /\ v.done = w.done
  <2>1. 0 \in 0 .. MaxConns /\ s.conn \in 0 .. MaxConns
    BY <1>1, TunnelsAssumption DEF Sups
  <2>2. QED
    BY <1>1, <1>2, <1>3, <2>1 DEF Fwds
<1>7. w.r = r
  OBVIOUS
<1> HIDE DEF t, r, w, e, s, v
<1>8. ForwardFits(e, starts[t], s, v, made)
  BY <1>1, <1>2, <1>3, <1>6, <1>7 DEF AllFits, ForwardFits
<1>9. OwnFits(e, s, v)
  <2> SUFFICES ASSUME ~e.kind.tied, r = e.run PROVE OwnFits(e, s, v)
    BY <1>6 DEF OwnFits
  <2>1. /\ OwnFits(e, s, w) /\ w.stop = s.stop
    BY <1>1 DEF AllFits, ForwardFits
  <2>2. s.at \notin Early /\ s.conn # 0 /\ ~w.stop
    BY <1>1, <1>2, <1>3, <1>7, <2>1 DEF KeeperFits, OwnFits, Early
  <2>3. QED
    BY <1>3, <1>6, <1>7, <2>1, <2>2 DEF OwnFits, Leaves
<1>10. TiedFits(e, s, n, v, session, open)
  <2> SUFFICES ASSUME e.kind.tied PROVE TiedFits(e, s, n, v, session, open)
    BY DEF TiedFits
  <2>1. TiedFits(e, s, n, w, session, open) /\ s.at \in {"tied", "over"} /\ (s.at = "over" => s.stop)
    BY <1>1 DEF AllFits, FollowerFits
  <2>2. QED
    BY <1>1, <1>2, <1>3, <1>6, <1>7, <2>1 DEF TiedFits, Opening
<1>11. AllFits(e, starts[t], s, n, v, session, open, made)
  BY <1>8, <1>9, <1>10 DEF AllFits
<1>12. ~e.kind.remote /\ v.at \in Opening => w.at \in Opening
  BY <1>3, <1>6 DEF Opening
<1> USE DEF t, r, w, e, s
<1>13. QED
  BY <1>4, <1>5, <1>6, <1>11, <1>12, ForwardMoves, Zenon

(* It lets go of what it listens for.                                        *)
LEMMA WakeListening ==
    ASSUME TunnelsInv, NEW n, n \in DOMAIN fwds, NEW done \in BOOLEAN, Wake(n, done), fwds[n].at = "listening"
    PROVE  TunnelsInv'
<1> DEFINE t == fwds[n].t
           r == fwds[n].r
           w == fwds[n]
           e == entry[t]
           s == sup[t][r]
           v == [fwds[n] EXCEPT !.at = "cancel", !.done = done]
<1>1. /\ n \in 1 .. started /\ n # 0 /\ w \in Fwds /\ r # 0 /\ r <= starts[t]
      /\ r \in Nat /\ starts[t] \in Nat /\ s \in Sups /\ e \in Entries
      /\ KeeperFits(e, starts[t], r, s, made)
      /\ FollowerFits(e, starts[t], r, s, session, open)
      /\ AllFits(e, starts[t], s, n, w, session, open, made)
  BY ForwardFacts
<1>2. /\ session \in 0 .. made /\ session \in 0 .. MaxConns /\ made \in Nat /\ made \in 0 .. MaxConns
      /\ open \in SUBSET (1 .. made)
  BY Types, TunnelsAssumption
<1>3. /\ w.at = "listening" /\ e.kind.remote /\ done \in BOOLEAN
      /\ done => w.stop \/ s.at = "over"
  BY DEF Wake, Remote, Supervisor
<1>4. UNCHANGED <<entry, sup, starts, started, session, open, made>>
  BY DEF Wake
<1>5. FwdTo(fwds, fwds', n, v)
  BY <1>1, <1>3 DEF Wake, Move, FwdTo, Fwds
<1>6. /\ v \in Fwds /\ v.t = t /\ v.r = r /\ v.stop = w.stop /\ v.at = "cancel"
      /\ v.conn = w.conn /\ v.seen = w.seen /\ v.done = done
  <2>1. 0 \in 0 .. MaxConns /\ s.conn \in 0 .. MaxConns
    BY <1>1, TunnelsAssumption DEF Sups
  <2>2. QED
    BY <1>1, <1>2, <1>3, <2>1 DEF Fwds
<1>7. w.r = r
  OBVIOUS
<1> HIDE DEF t, r, w, e, s, v
<1>8. ForwardFits(e, starts[t], s, v, made)
  BY <1>1, <1>2, <1>3, <1>6, <1>7 DEF AllFits, ForwardFits
<1>9. OwnFits(e, s, v)
  <2> SUFFICES ASSUME ~e.kind.tied, r = e.run PROVE OwnFits(e, s, v)
    BY <1>6 DEF OwnFits
  <2>1. /\ OwnFits(e, s, w) /\ w.stop = s.stop
    BY <1>1 DEF AllFits, ForwardFits
  <2>2. QED
    BY <1>1, <1>3, <1>6, <1>7, <2>1 DEF OwnFits, KeeperFits, Leaves
<1>10. TiedFits(e, s, n, v, session, open)
  <2> SUFFICES ASSUME e.kind.tied PROVE TiedFits(e, s, n, v, session, open)
    BY DEF TiedFits
  <2>1. TiedFits(e, s, n, w, session, open) /\ s.at \in {"tied", "over"} /\ (s.at = "over" => s.stop)
    BY <1>1 DEF AllFits, FollowerFits
  <2>2. QED
    BY <1>1, <1>2, <1>3, <1>6, <1>7, <2>1 DEF TiedFits, Opening
<1>11. AllFits(e, starts[t], s, n, v, session, open, made)
  BY <1>8, <1>9, <1>10 DEF AllFits
<1>12. ~e.kind.remote /\ v.at \in Opening => w.at \in Opening
  BY <1>3, <1>6 DEF Opening
<1> USE DEF t, r, w, e, s
<1>13. QED
  BY <1>4, <1>5, <1>6, <1>11, <1>12, ForwardMoves, Zenon

(* It ends.                                                                  *)
LEMMA WakeEnds ==
    ASSUME TunnelsInv, NEW n, n \in DOMAIN fwds, Wake(n, TRUE), fwds[n].at = "idle"
    PROVE  TunnelsInv'
<1> DEFINE t == fwds[n].t
           r == fwds[n].r
           w == fwds[n]
           e == entry[t]
           s == sup[t][r]
           v == [fwds[n] EXCEPT !.at = "over"]
<1>1. /\ n \in 1 .. started /\ n # 0 /\ w \in Fwds /\ r # 0 /\ r <= starts[t]
      /\ r \in Nat /\ starts[t] \in Nat /\ s \in Sups /\ e \in Entries
      /\ KeeperFits(e, starts[t], r, s, made)
      /\ FollowerFits(e, starts[t], r, s, session, open)
      /\ AllFits(e, starts[t], s, n, w, session, open, made)
  BY ForwardFacts
<1>2. /\ session \in 0 .. made /\ session \in 0 .. MaxConns /\ made \in Nat /\ made \in 0 .. MaxConns
      /\ open \in SUBSET (1 .. made)
  BY Types, TunnelsAssumption
<1>3. /\ w.at = "idle" /\ e.kind.remote
      /\ w.stop \/ s.at = "over"
  BY DEF Wake, Remote, Supervisor
<1>4. UNCHANGED <<entry, sup, starts, started, session, open, made>>
  BY DEF Wake
<1>5. FwdTo(fwds, fwds', n, v)
  BY <1>1, <1>3 DEF Wake, Move, FwdTo, Fwds
<1>6. /\ v \in Fwds /\ v.t = t /\ v.r = r /\ v.stop = w.stop /\ v.at = "over"
      /\ v.conn = w.conn /\ v.seen = w.seen /\ v.done = w.done
  <2>1. 0 \in 0 .. MaxConns /\ s.conn \in 0 .. MaxConns
    BY <1>1, TunnelsAssumption DEF Sups
  <2>2. QED
    BY <1>1, <1>2, <1>3, <2>1 DEF Fwds
<1>7. w.r = r
  OBVIOUS
<1> HIDE DEF t, r, w, e, s, v
<1>8. ForwardFits(e, starts[t], s, v, made)
  BY <1>1, <1>2, <1>3, <1>6, <1>7 DEF AllFits, ForwardFits
<1>9. OwnFits(e, s, v)
  <2> SUFFICES ASSUME ~e.kind.tied, r = e.run PROVE OwnFits(e, s, v)
    BY <1>6 DEF OwnFits
  <2>1. /\ OwnFits(e, s, w) /\ w.stop = s.stop
    BY <1>1 DEF AllFits, ForwardFits
  <2>2. QED
    BY <1>1, <1>3, <1>6, <1>7, <2>1 DEF OwnFits, KeeperFits, Leaves
<1>10. TiedFits(e, s, n, v, session, open)
  <2> SUFFICES ASSUME e.kind.tied PROVE TiedFits(e, s, n, v, session, open)
    BY DEF TiedFits
  <2>1. TiedFits(e, s, n, w, session, open) /\ s.at \in {"tied", "over"} /\ (s.at = "over" => s.stop)
    BY <1>1 DEF AllFits, FollowerFits
  <2>2. QED
    BY <1>1, <1>2, <1>3, <1>6, <1>7, <2>1 DEF TiedFits, Opening
<1>11. AllFits(e, starts[t], s, n, v, session, open, made)
  BY <1>8, <1>9, <1>10 DEF AllFits
<1>12. ~e.kind.remote /\ v.at \in Opening => w.at \in Opening
  BY <1>3, <1>6 DEF Opening
<1> USE DEF t, r, w, e, s
<1>13. QED
  BY <1>4, <1>5, <1>6, <1>11, <1>12, ForwardMoves, Zenon

(* It looks again.                                                           *)
LEMMA WakeLooks ==
    ASSUME TunnelsInv, NEW n, n \in DOMAIN fwds, Wake(n, FALSE), fwds[n].at = "idle"
    PROVE  TunnelsInv'
<1> DEFINE t == fwds[n].t
           r == fwds[n].r
           w == fwds[n]
           e == entry[t]
           s == sup[t][r]
           v == [fwds[n] EXCEPT !.at = "start"]
<1>1. /\ n \in 1 .. started /\ n # 0 /\ w \in Fwds /\ r # 0 /\ r <= starts[t]
      /\ r \in Nat /\ starts[t] \in Nat /\ s \in Sups /\ e \in Entries
      /\ KeeperFits(e, starts[t], r, s, made)
      /\ FollowerFits(e, starts[t], r, s, session, open)
      /\ AllFits(e, starts[t], s, n, w, session, open, made)
  BY ForwardFacts
<1>2. /\ session \in 0 .. made /\ session \in 0 .. MaxConns /\ made \in Nat /\ made \in 0 .. MaxConns
      /\ open \in SUBSET (1 .. made)
  BY Types, TunnelsAssumption
<1>3. /\ w.at = "idle" /\ e.kind.remote
      /\ ~e.kind.tied => s.conn # w.seen
  BY DEF Wake, Remote, Watch, Tied
<1>4. UNCHANGED <<entry, sup, starts, started, session, open, made>>
  BY DEF Wake
<1>5. FwdTo(fwds, fwds', n, v)
  BY <1>1, <1>3 DEF Wake, Move, FwdTo, Fwds
<1>6. /\ v \in Fwds /\ v.t = t /\ v.r = r /\ v.stop = w.stop /\ v.at = "start"
      /\ v.conn = w.conn /\ v.seen = w.seen /\ v.done = w.done
  <2>1. 0 \in 0 .. MaxConns /\ s.conn \in 0 .. MaxConns
    BY <1>1, TunnelsAssumption DEF Sups
  <2>2. QED
    BY <1>1, <1>2, <1>3, <2>1 DEF Fwds
<1>7. w.r = r
  OBVIOUS
<1> HIDE DEF t, r, w, e, s, v
<1>8. ForwardFits(e, starts[t], s, v, made)
  BY <1>1, <1>2, <1>3, <1>6, <1>7 DEF AllFits, ForwardFits
<1>9. OwnFits(e, s, v)
  <2> SUFFICES ASSUME ~e.kind.tied, r = e.run PROVE OwnFits(e, s, v)
    BY <1>6 DEF OwnFits
  <2>1. /\ OwnFits(e, s, w) /\ w.stop = s.stop
    BY <1>1 DEF AllFits, ForwardFits
  <2>2. QED
    BY <1>1, <1>3, <1>6, <1>7, <2>1 DEF OwnFits, KeeperFits, Leaves
<1>10. TiedFits(e, s, n, v, session, open)
  <2> SUFFICES ASSUME e.kind.tied PROVE TiedFits(e, s, n, v, session, open)
    BY DEF TiedFits
  <2>1. TiedFits(e, s, n, w, session, open) /\ s.at \in {"tied", "over"} /\ (s.at = "over" => s.stop)
    BY <1>1 DEF AllFits, FollowerFits
  <2>2. QED
    BY <1>1, <1>2, <1>3, <1>6, <1>7, <2>1 DEF TiedFits, Opening
<1>11. AllFits(e, starts[t], s, n, v, session, open, made)
  BY <1>8, <1>9, <1>10 DEF AllFits
<1>12. ~e.kind.remote /\ v.at \in Opening => w.at \in Opening
  BY <1>3, <1>6 DEF Opening
<1> USE DEF t, r, w, e, s
<1>13. QED
  BY <1>4, <1>5, <1>6, <1>11, <1>12, ForwardMoves, Zenon

(* The server has let go of it.                                              *)
LEMMA UnregisteredStep ==
    ASSUME TunnelsInv, NEW n, n \in DOMAIN fwds, Unregistered(n)
    PROVE  TunnelsInv'
<1> DEFINE t == fwds[n].t
           r == fwds[n].r
           w == fwds[n]
           e == entry[t]
           s == sup[t][r]
           v == [fwds[n] EXCEPT !.at = IF fwds[n].done THEN "over" ELSE "start", !.conn = 0]
<1>1. /\ n \in 1 .. started /\ n # 0 /\ w \in Fwds /\ r # 0 /\ r <= starts[t]
      /\ r \in Nat /\ starts[t] \in Nat /\ s \in Sups /\ e \in Entries
      /\ KeeperFits(e, starts[t], r, s, made)
      /\ FollowerFits(e, starts[t], r, s, session, open)
      /\ AllFits(e, starts[t], s, n, w, session, open, made)
  BY ForwardFacts
<1>2. /\ session \in 0 .. made /\ session \in 0 .. MaxConns /\ made \in Nat /\ made \in 0 .. MaxConns
      /\ open \in SUBSET (1 .. made)
  BY Types, TunnelsAssumption
<1>3. w.at = "cancel" /\ w.done \in BOOLEAN /\ e.kind.remote
  BY <1>1 DEF Unregistered, At, Fwds, AllFits, ForwardFits
<1>4. UNCHANGED <<entry, sup, starts, started, session, open, made>>
  BY DEF Unregistered
<1>5. FwdTo(fwds, fwds', n, v)
  BY <1>1, <1>3 DEF Unregistered, Move, FwdTo, Fwds
<1>6. /\ v \in Fwds /\ v.t = t /\ v.r = r /\ v.stop = w.stop /\ v.at = (IF w.done THEN "over" ELSE "start")
      /\ v.conn = 0 /\ v.seen = w.seen /\ v.done = w.done
  <2>1. 0 \in 0 .. MaxConns /\ s.conn \in 0 .. MaxConns
    BY <1>1, TunnelsAssumption DEF Sups
  <2>2. QED
    BY <1>1, <1>2, <1>3, <2>1 DEF Fwds
<1>7. w.r = r
  OBVIOUS
<1> HIDE DEF t, r, w, e, s, v
<1>8. ForwardFits(e, starts[t], s, v, made)
  BY <1>1, <1>2, <1>3, <1>6, <1>7 DEF AllFits, ForwardFits
<1>9. OwnFits(e, s, v)
  <2> SUFFICES ASSUME ~e.kind.tied, r = e.run PROVE OwnFits(e, s, v)
    BY <1>6 DEF OwnFits
  <2>1. /\ OwnFits(e, s, w) /\ w.stop = s.stop
    BY <1>1 DEF AllFits, ForwardFits
  <2>2. QED
    BY <1>1, <1>3, <1>6, <1>7, <2>1 DEF OwnFits, KeeperFits, Leaves
<1>10. TiedFits(e, s, n, v, session, open)
  <2> SUFFICES ASSUME e.kind.tied PROVE TiedFits(e, s, n, v, session, open)
    BY DEF TiedFits
  <2>1. TiedFits(e, s, n, w, session, open) /\ s.at \in {"tied", "over"} /\ (s.at = "over" => s.stop)
    BY <1>1 DEF AllFits, FollowerFits
  <2>2. QED
    BY <1>1, <1>2, <1>3, <1>6, <1>7, <2>1 DEF TiedFits, Opening
<1>11. AllFits(e, starts[t], s, n, v, session, open, made)
  BY <1>8, <1>9, <1>10 DEF AllFits
<1>12. ~e.kind.remote /\ v.at \in Opening => w.at \in Opening
  BY <1>3, <1>6 DEF Opening
<1> USE DEF t, r, w, e, s
<1>13. QED
  BY <1>4, <1>5, <1>6, <1>11, <1>12, ForwardMoves, Zenon

LEMMA RowHears ==
    ASSUME entry \in [Tunnels -> Entries], NEW t \in Tunnels, NEW r, r = entry[t].run
    PROVE  /\ Reported(t, r, TRUE) =>
                RowTo(entry, entry', t, [entry[t] EXCEPT !.listening = TRUE, !.waiting = FALSE,
                                                         !.failed = FALSE])
           /\ Reported(t, r, FALSE) => RowTo(entry, entry', t, [entry[t] EXCEPT !.waiting = TRUE])
<1>1. ASSUME Reported(t, r, TRUE)
      PROVE  RowTo(entry, entry', t, [entry[t] EXCEPT !.listening = TRUE, !.waiting = FALSE,
                                                      !.failed = FALSE])
  <2>1. entry' = [entry EXCEPT ![t].listening = TRUE, ![t].waiting = FALSE, ![t].failed = FALSE]
    BY <1>1 DEF Reported, Current
  <2>2. QED
    BY <2>1 DEF RowTo, Entries
<1>2. ASSUME Reported(t, r, FALSE)
      PROVE  RowTo(entry, entry', t, [entry[t] EXCEPT !.waiting = TRUE])
  <2>1. entry' = [entry EXCEPT ![t].waiting = TRUE]
    BY <1>2 DEF Reported, Current
  <2>2. QED
    BY <2>1 DEF RowTo, Entries
<1>3. QED
  BY <1>1, <1>2

(* A forward tells its row that it listens.                                  *)
ListensRow(e, e2) ==
    /\ e2.kind = e.kind /\ e2.on = e.on /\ e2.run = e.run /\ e2.link = e.link /\ e2.ask = e.ask
    /\ e2.listening /\ ~e2.waiting /\ ~e2.failed

LEMMA ListensRun ==
    ASSUME NEW e, NEW st, NEW s, NEW fw, NEW nf, NEW t, NEW r, NEW c, NEW o, NEW mk,
           RunFits(e, st, s, fw, nf, t, r, c, o, mk), NEW n \in 1 .. nf, Of(fw[n], t, r),
           NEW v, NEW fw2, OnlyFwd(fw, fw2, nf, n, v), v.t = t, v.r = r, v.at = "listening",
           v.stop = fw[n].stop, v.conn = fw[n].conn, v.seen = fw[n].seen,
           fw[n].at \in {"bound", "register"}, NEW e2, ListensRow(e, e2), r = e.run, r <= st
    PROVE  RunFits(e2, st, s, fw2, nf, t, r, c, o, mk)
<1>1. /\ RowFits(e, st) /\ KeeperFits(e, st, r, s, mk) /\ FollowerFits(e, st, r, s, c, o)
      /\ AllFits(e, st, s, n, fw[n], c, o, mk)
  BY DEF RunFits
<1>2. (e.kind.tied /\ e.kind.remote) \/ ~s.stop
  <2>1. CASE e.kind.tied
    BY <1>1, <2>1 DEF AllFits, ForwardFits, TiedFits, Opening, Of
  <2>2. CASE ~e.kind.tied
    BY <1>1, <2>2 DEF AllFits, ForwardFits, OwnFits, Of
  <2>3. QED
    BY <2>1, <2>2
<1>3. RowFits(e2, st)
  BY <1>1 DEF RowFits, ListensRow
<1>4. KeeperFits(e2, st, r, s, mk)
  BY <1>1, <1>2 DEF KeeperFits, ListensRow
<1>5. FollowerFits(e2, st, r, s, c, o)
  BY <1>1, <1>2 DEF FollowerFits, ListensRow
<1>6. ASSUME NEW m \in 1 .. nf, Of(fw[m], t, r)
      PROVE  AllFits(e2, st, s, m, fw2[m], c, o, mk)
  <2>1. AllFits(e, st, s, m, fw[m], c, o, mk)
    BY <1>6 DEF RunFits
  <2>2. CASE m # n
    <3>1. fw2[m] = fw[m] /\ e.kind.tied
      BY <1>6, <2>2 DEF OnlyFwd, RunFits, Alone
    <3>2. ForwardFits(e2, st, s, fw[m], mk)
      BY <2>1 DEF AllFits, ForwardFits, ListensRow
    <3>3. OwnFits(e2, s, fw[m])
      BY <3>1 DEF OwnFits, ListensRow
    <3>4. TiedFits(e2, s, m, fw[m], c, o)
      BY <2>1 DEF AllFits, TiedFits, ListensRow
    <3>5. QED
      BY <3>1, <3>2, <3>3, <3>4 DEF AllFits
  <2>3. CASE m = n
    <3>1. fw2[m] = v
      BY <2>3 DEF OnlyFwd
    <3>2. fw[n].r = r
      BY DEF Of
    <3>3. ForwardFits(e2, st, s, v, mk)
      BY <1>1, <3>2 DEF AllFits, ForwardFits, ListensRow
    <3>4. OwnFits(e2, s, v)
      <4>1. ~e.kind.tied => ~v.stop
        BY <1>1, <1>2 DEF AllFits, ForwardFits
      <4>2. QED
        BY <4>1 DEF OwnFits, ListensRow, Leaves
    <3>5. TiedFits(e2, s, n, v, c, o)
      BY <1>1, <3>2 DEF AllFits, TiedFits, ListensRow, Opening
    <3>6. QED
      BY <2>3, <3>1, <3>3, <3>4, <3>5 DEF AllFits
  <2>4. QED
    BY <2>2, <2>3
<1>7. SameRuns(fw, fw2, nf, n) /\ fw2[n].at \notin Opening /\ e2.kind = e.kind
  BY DEF OnlyFwd, SameRuns, Of, Opening, ListensRow
<1>8. QED
  BY <1>3, <1>4, <1>5, <1>6, <1>7, ForwardsMove, Zenon

LEMMA ListensStep ==
    ASSUME TunnelsInv, NEW n, n \in DOMAIN fwds, fwds[n].at \in {"bound", "register"},
           Move(n, "listening"), Reported(fwds[n].t, fwds[n].r, TRUE),
           UNCHANGED <<sup, starts, started, session, open, made>>
    PROVE  TunnelsInv'
<1> DEFINE t == fwds[n].t
           r == fwds[n].r
           w == fwds[n]
           e == entry[t]
           s == sup[t][r]
           v == [fwds[n] EXCEPT !.at = "listening"]
<1>1. /\ n \in 1 .. started /\ n # 0 /\ w \in Fwds /\ t \in Tunnels /\ r \in Runs /\ r # 0
      /\ r <= starts[t] /\ r \in Nat /\ starts[t] \in Nat /\ s \in Sups /\ e \in Entries
      /\ RunFits(e, starts[t], s, fwds, started, t, r, session, open, made)
      /\ RowFits(e, starts[t]) /\ KeeperFits(e, starts[t], r, s, made)
      /\ FollowerFits(e, starts[t], r, s, session, open)
      /\ AllFits(e, starts[t], s, n, w, session, open, made) /\ Of(w, t, r)
  BY ForwardFacts
<1>2. /\ session \in 0 .. made /\ session \in 0 .. MaxConns /\ made \in Nat
      /\ open \in SUBSET (1 .. made) /\ entry \in [Tunnels -> Entries]
      /\ sup \in [Tunnels -> [Runs -> Sups]] /\ fwds \in [1 .. started -> Fwds]
  BY Types, TunnelsAssumption
<1>3. /\ v \in Fwds /\ v.t = t /\ v.r = r /\ v.stop = w.stop /\ v.at = "listening"
      /\ v.conn = w.conn /\ v.seen = w.seen /\ w.at \in {"bound", "register"}
      /\ FwdTo(fwds, fwds', n, v)
  BY <1>1 DEF Fwds, Move, FwdTo
<1> HIDE DEF v
<1>4. OnlyFwd(fwds, fwds', started, n, v)
  BY <1>1, <1>2, <1>3, FwdSet, Zenon
<1>5. CASE r # e.run
  <2>1. entry' = entry
    BY <1>5 DEF Reported, Current
  <2> HIDE DEF t, r, w, e, s
  <2>2. ForwardFits(e, starts[t], s, v, made)
    BY <1>1, <1>3, <1>5 DEF AllFits, ForwardFits
  <2>3. OwnFits(e, s, v)
    BY <1>3, <1>5 DEF OwnFits
  <2>4. TiedFits(e, s, n, v, session, open)
    BY <1>1, <1>3, <1>5 DEF AllFits, TiedFits, Opening
  <2>5. AllFits(e, starts[t], s, n, v, session, open, made)
    BY <2>2, <2>3, <2>4 DEF AllFits
  <2>6. v.at \notin Opening
    BY <1>3 DEF Opening
  <2> USE DEF t, r, w, e, s
  <2>7. UNCHANGED <<entry, sup, starts, started, session, open, made>>
    BY <2>1
  <2>8. QED
    BY <1>3, <2>5, <2>6, <2>7, ForwardMoves, Zenon
<1>6. CASE r = e.run
  <2> DEFINE f == [entry[t] EXCEPT !.listening = TRUE, !.waiting = FALSE, !.failed = FALSE]
  <2>1. RowTo(entry, entry', t, f)
    BY <1>1, <1>2, <1>6, RowHears, Zenon
  <2>2. f \in Entries /\ ListensRow(e, f)
    BY <1>1 DEF Entries, ListensRow
  <2> HIDE DEF f
  <2>3. OnlyRow(entry, entry', t, f)
    BY <1>1, <1>2, <2>1, <2>2, RowSet, Zenon
  <2>4. /\ entry' \in [Tunnels -> Entries] /\ entry'[t] = f
        /\ \A x \in Tunnels : x # t => entry'[x] = entry[x]
    BY <2>3 DEF OnlyRow
  <2>5. RunFits(f, starts[t], s, fwds', started, t, r, session, open, made)
    BY <1>1, <1>3, <1>4, <1>6, <2>2, ListensRun, Zenon
  <2>6. /\ fwds' \in [1 .. started -> Fwds]
        /\ \A m \in 1 .. started : /\ fwds'[m].t = fwds[m].t /\ fwds'[m].r = fwds[m].r
                                   /\ ~Of(fwds[m], t, r) => fwds'[m] = fwds[m]
    BY <1>1, <1>3, <1>4 DEF OnlyFwd
  <2>7. f.kind = e.kind /\ f.run = e.run
    BY <2>2 DEF ListensRow
  <2>8. /\ sup' \in [Tunnels -> [Runs -> Sups]]
        /\ \A x \in Tunnels, q \in Runs : x # t \/ q # r => sup'[x][q] = sup[x][q]
        /\ sup'[t][r] = s /\ sup'[t][r].conn = s.conn
    BY <1>2
  <2>9. RunFits(entry'[t], starts[t], sup'[t][r], fwds', started, t, r, session, open, made)
    BY <2>4, <2>5, <2>8
  <2>10. /\ entry'[t].kind = entry[t].kind /\ entry'[t].run = entry[t].run
         /\ entry'[t] = entry[t] \/ entry[t].run = r
         /\ sup'[t][r].conn = sup[t][r].conn
         /\ UNCHANGED <<starts, started, session, open, made>>
    BY <1>6, <2>4, <2>7, <2>8
  <2>11. QED
    BY <1>1, <2>4, <2>6, <2>8, <2>9, <2>10, ForwardStep, Zenon
<1>7. QED
  BY <1>5, <1>6

(* A remote forward tells its row that it waits for a connection.            *)
WaitsRow(e, e2) ==
    /\ e2.kind = e.kind /\ e2.on = e.on /\ e2.run = e.run /\ e2.link = e.link /\ e2.ask = e.ask
    /\ e2.listening = e.listening /\ e2.waiting /\ e2.failed = e.failed

LEMMA WaitsRun ==
    ASSUME NEW e, NEW st, NEW s, NEW fw, NEW nf, NEW t, NEW r, NEW c, NEW o, NEW mk,
           RunFits(e, st, s, fw, nf, t, r, c, o, mk), NEW n \in 1 .. nf, Of(fw[n], t, r),
           NEW v, NEW fw2, OnlyFwd(fw, fw2, nf, n, v), v.t = t, v.r = r, v.at = "idle",
           v.stop = fw[n].stop, v.conn = fw[n].conn, v.seen <= mk, v.seen \notin o,
           fw[n].at = "start", e.kind.remote, e.kind.tied => v.seen = c,
           ~e.kind.tied => v.seen = s.conn,
           NEW e2, WaitsRow(e, e2), r = e.run, r <= st
    PROVE  RunFits(e2, st, s, fw2, nf, t, r, c, o, mk)
<1>1. /\ RowFits(e, st) /\ KeeperFits(e, st, r, s, mk) /\ FollowerFits(e, st, r, s, c, o)
      /\ AllFits(e, st, s, n, fw[n], c, o, mk)
  BY DEF RunFits
<1>3. RowFits(e2, st)
  BY <1>1 DEF RowFits, WaitsRow
<1>4. KeeperFits(e2, st, r, s, mk)
  BY <1>1 DEF KeeperFits, WaitsRow
<1>5. FollowerFits(e2, st, r, s, c, o)
  BY <1>1 DEF FollowerFits, WaitsRow
<1>6. ASSUME NEW m \in 1 .. nf, Of(fw[m], t, r)
      PROVE  AllFits(e2, st, s, m, fw2[m], c, o, mk)
  <2>1. AllFits(e, st, s, m, fw[m], c, o, mk)
    BY <1>6 DEF RunFits
  <2>2. CASE m # n
    <3>1. fw2[m] = fw[m] /\ e.kind.tied
      BY <1>6, <2>2 DEF OnlyFwd, RunFits, Alone
    <3>2. ForwardFits(e2, st, s, fw[m], mk)
      BY <2>1 DEF AllFits, ForwardFits, WaitsRow
    <3>3. OwnFits(e2, s, fw[m])
      BY <3>1 DEF OwnFits, WaitsRow
    <3>4. TiedFits(e2, s, m, fw[m], c, o)
      BY <2>1, <3>1 DEF AllFits, TiedFits, WaitsRow
    <3>5. QED
      BY <3>1, <3>2, <3>3, <3>4 DEF AllFits
  <2>3. CASE m = n
    <3>1. fw2[m] = v
      BY <2>3 DEF OnlyFwd
    <3>2. fw[n].r = r
      BY DEF Of
    <3>3. ForwardFits(e2, st, s, v, mk)
      BY <1>1, <3>2 DEF AllFits, ForwardFits, WaitsRow
    <3>4. OwnFits(e2, s, v)
      BY <1>1, <3>2 DEF AllFits, OwnFits, WaitsRow, Leaves
    <3>5. TiedFits(e2, s, n, v, c, o)
      BY <1>1, <3>2 DEF AllFits, TiedFits, WaitsRow, Opening
    <3>6. QED
      BY <2>3, <3>1, <3>3, <3>4, <3>5 DEF AllFits
  <2>4. QED
    BY <2>2, <2>3
<1>7. SameRuns(fw, fw2, nf, n) /\ fw2[n].at \notin Opening /\ e2.kind = e.kind
  BY DEF OnlyFwd, SameRuns, Of, Opening, WaitsRow
<1>8. QED
  BY <1>3, <1>4, <1>5, <1>6, <1>7, ForwardsMove, Zenon

LEMMA LookWaits ==
    ASSUME TunnelsInv, NEW n, n \in DOMAIN fwds, Look(n), Watch(n) \notin open
    PROVE  TunnelsInv'
<1> DEFINE t == fwds[n].t
           r == fwds[n].r
           w == fwds[n]
           e == entry[t]
           s == sup[t][r]
           v == [fwds[n] EXCEPT !.at = "idle", !.seen = Watch(n)]
<1>1. /\ n \in 1 .. started /\ n # 0 /\ w \in Fwds /\ t \in Tunnels /\ r \in Runs /\ r # 0
      /\ r <= starts[t] /\ r \in Nat /\ starts[t] \in Nat /\ s \in Sups /\ e \in Entries
      /\ RunFits(e, starts[t], s, fwds, started, t, r, session, open, made)
      /\ RowFits(e, starts[t]) /\ KeeperFits(e, starts[t], r, s, made)
      /\ FollowerFits(e, starts[t], r, s, session, open)
      /\ AllFits(e, starts[t], s, n, w, session, open, made) /\ Of(w, t, r)
  BY ForwardFacts
<1>2. /\ session \in 0 .. made /\ session \in 0 .. MaxConns /\ made \in Nat
      /\ open \in SUBSET (1 .. made) /\ entry \in [Tunnels -> Entries]
      /\ sup \in [Tunnels -> [Runs -> Sups]] /\ fwds \in [1 .. started -> Fwds]
  BY Types, TunnelsAssumption
<1>3. /\ w.at = "start" /\ e.kind.remote /\ Watch(n) \notin open
      /\ (e.kind.tied => Watch(n) = session) /\ (~e.kind.tied => Watch(n) = s.conn)
      /\ UNCHANGED <<sup, starts, started, session, open, made>>
      /\ Reported(fwds[n].t, fwds[n].r, FALSE)
  BY DEF Look, At, Remote, Watch, Tied
<1>4. Watch(n) \in Nat /\ Watch(n) <= made /\ Watch(n) \in 0 .. MaxConns
  <2>1. s.conn \in Nat /\ s.conn <= made /\ s.conn \in 0 .. MaxConns
    BY <1>1 DEF Sups, KeeperFits
  <2>2. session \in Nat /\ session <= made /\ session \in 0 .. MaxConns
    BY <1>2
  <2>3. QED
    BY <1>3, <2>1, <2>2
<1>0. /\ v \in Fwds /\ v.t = t /\ v.r = r /\ v.stop = w.stop /\ v.at = "idle"
      /\ v.conn = w.conn /\ v.seen = Watch(n)
  BY <1>1, <1>4 DEF Fwds
<1>8. FwdTo(fwds, fwds', n, v)
  BY <1>1 DEF Look, FwdTo, Fwds
<1> HIDE DEF v
<1>9. OnlyFwd(fwds, fwds', started, n, v)
  BY <1>0, <1>1, <1>2, <1>8, FwdSet, Zenon
<1>5. CASE r # e.run
  <2>1. entry' = entry
    BY <1>3, <1>5 DEF Reported, Current
  <2> HIDE DEF t, r, w, e, s
  <2>2. ForwardFits(e, starts[t], s, v, made)
    BY <1>0, <1>1, <1>3, <1>4, <1>5 DEF AllFits, ForwardFits
  <2>3. OwnFits(e, s, v)
    BY <1>0, <1>5 DEF OwnFits
  <2>4. TiedFits(e, s, n, v, session, open)
    BY <1>0, <1>1, <1>3, <1>5 DEF AllFits, TiedFits, Opening
  <2>5. AllFits(e, starts[t], s, n, v, session, open, made)
    BY <2>2, <2>3, <2>4 DEF AllFits
  <2>6. v.at \notin Opening
    BY <1>0 DEF Opening
  <2> USE DEF t, r, w, e, s
  <2>7. UNCHANGED <<entry, sup, starts, started, session, open, made>>
    BY <1>3, <2>1
  <2>8. QED
    BY <1>0, <1>8, <2>5, <2>6, <2>7, ForwardMoves, Zenon
<1>6. CASE r = e.run
  <2> DEFINE f == [entry[t] EXCEPT !.waiting = TRUE]
  <2>1. RowTo(entry, entry', t, f)
    BY <1>1, <1>2, <1>3, <1>6, RowHears, Zenon
  <2>2. f \in Entries /\ WaitsRow(e, f)
    BY <1>1 DEF Entries, WaitsRow
  <2> HIDE DEF f
  <2>3. OnlyRow(entry, entry', t, f)
    BY <1>1, <1>2, <2>1, <2>2, RowSet, Zenon
  <2>4. /\ entry' \in [Tunnels -> Entries] /\ entry'[t] = f
        /\ \A x \in Tunnels : x # t => entry'[x] = entry[x]
    BY <2>3 DEF OnlyRow
  <2>5. RunFits(f, starts[t], s, fwds', started, t, r, session, open, made)
    <3>1. /\ v.seen <= made /\ v.seen \notin open /\ (e.kind.tied => v.seen = session)
          /\ (~e.kind.tied => v.seen = s.conn)
      BY <1>0, <1>3, <1>4
    <3>2. QED
      BY <1>0, <1>1, <1>3, <1>6, <1>9, <2>2, <3>1, WaitsRun, Zenon
  <2>6. /\ fwds' \in [1 .. started -> Fwds]
        /\ \A m \in 1 .. started : /\ fwds'[m].t = fwds[m].t /\ fwds'[m].r = fwds[m].r
                                   /\ ~Of(fwds[m], t, r) => fwds'[m] = fwds[m]
    BY <1>1, <1>3, <1>0, <1>9 DEF OnlyFwd
  <2>7. f.kind = e.kind /\ f.run = e.run
    BY <2>2 DEF WaitsRow
  <2>8. /\ sup' \in [Tunnels -> [Runs -> Sups]]
        /\ \A x \in Tunnels, q \in Runs : x # t \/ q # r => sup'[x][q] = sup[x][q]
        /\ sup'[t][r] = s /\ sup'[t][r].conn = s.conn
    BY <1>2, <1>3
  <2>9. RunFits(entry'[t], starts[t], sup'[t][r], fwds', started, t, r, session, open, made)
    BY <2>4, <2>5, <2>8
  <2>10. /\ entry'[t].kind = entry[t].kind /\ entry'[t].run = entry[t].run
         /\ entry'[t] = entry[t] \/ entry[t].run = r
         /\ sup'[t][r].conn = sup[t][r].conn
         /\ UNCHANGED <<starts, started, session, open, made>>
    BY <1>3, <1>6, <2>4, <2>7, <2>8
  <2>11. QED
    BY <1>1, <2>4, <2>6, <2>8, <2>9, <2>10, ForwardStep, Zenon
<1>7. QED
  BY <1>5, <1>6

(* A forward tells its row that it failed: the whole run is stopped.         *)
FailedRow(e, e2) ==
    /\ e2.kind = e.kind /\ e2.on = e.on /\ e2.run = e.run /\ e2.link = e.link /\ e2.ask = 0
    /\ e2.listening = e.listening /\ e2.waiting = e.waiting /\ e2.failed

StoppedKeeper(s, s2) ==
    s2.at = s.at /\ s2.stop = TRUE /\ s2.conn = s.conn /\ s2.seen = s.seen /\ s2.fwd = s.fwd

(* It could not listen here, or the server did not.                          *)
Fails(e, w, u) ==
    /\ u.t = w.t /\ u.r = w.r /\ u.stop = w.stop /\ u.seen = w.seen
    /\ \/ w.at = "start" /\ ~e.kind.remote /\ u.at = "over" /\ u.conn = w.conn
       \/ w.at = "register" /\ u.at = "idle" /\ u.conn = 0

StopOf(e, u, v) ==
    /\ v.t = u.t /\ v.r = u.r /\ v.at = u.at /\ v.seen = u.seen /\ v.conn = u.conn
    /\ v.stop = IF e.kind.tied THEN u.stop ELSE TRUE

OthersStay(fw, fw2, nf, n, e, t, r) ==
    \A m \in 1 .. nf : m # n /\ Of(fw[m], t, r) /\ e.kind.tied => fw2[m] = fw[m]

(* Forward n of the current run fails with u: what all its tasks become.     *)
RunFails(e, st, s, fw, nf, n, u, fw2, e2, s2, t, r) ==
    /\ n \in 1 .. nf /\ Of(fw[n], t, r) /\ n # 0
    /\ r = e.run /\ r \in Nat /\ st \in Nat /\ r <= st
    /\ Fails(e, fw[n], u) /\ StopOf(e, u, fw2[n]) /\ SameRuns(fw, fw2, nf, n)
    /\ OthersStay(fw, fw2, nf, n, e, t, r)
    /\ FailedRow(e, e2) /\ StoppedKeeper(s, s2)

LEMMA FailsRun ==
    ASSUME NEW e, NEW st, NEW s, NEW fw, NEW nf, NEW t, NEW r, NEW c, NEW o, NEW mk,
           RunFits(e, st, s, fw, nf, t, r, c, o, mk), mk \in Nat,
           NEW n, NEW u, NEW fw2, NEW e2, NEW s2,
           RunFails(e, st, s, fw, nf, n, u, fw2, e2, s2, t, r)
    PROVE  RunFits(e2, st, s2, fw2, nf, t, r, c, o, mk)
<1> n \in 1 .. nf /\ Of(fw[n], t, r) /\ n # 0
  BY DEF RunFails
<1> r = e.run /\ r \in Nat /\ st \in Nat /\ r <= st
  BY DEF RunFails
<1> /\ Fails(e, fw[n], u) /\ StopOf(e, u, fw2[n]) /\ SameRuns(fw, fw2, nf, n)
    /\ OthersStay(fw, fw2, nf, n, e, t, r)
  BY DEF RunFails
<1> FailedRow(e, e2) /\ StoppedKeeper(s, s2)
  BY DEF RunFails
<1>1. /\ RowFits(e, st) /\ KeeperFits(e, st, r, s, mk) /\ FollowerFits(e, st, r, s, c, o)
      /\ AllFits(e, st, s, n, fw[n], c, o, mk) /\ fw[n].r = r
  BY DEF RunFits, Of
<1>2. RowFits(e2, st)
  BY <1>1 DEF RowFits, FailedRow
<1>3. KeeperFits(e2, st, r, s2, mk)
  BY <1>1 DEF KeeperFits, FailedRow, StoppedKeeper
<1>4. FollowerFits(e2, st, r, s2, c, o)
  <2>1. e.kind.tied /\ ~e.kind.remote => n = s.fwd \/ c \notin o
    BY <1>1 DEF AllFits, ForwardFits, TiedFits, Opening, Fails
  <2>2. QED
    BY <1>1, <2>1 DEF FollowerFits, FailedRow, StoppedKeeper
<1>5. ASSUME NEW m \in 1 .. nf, Of(fw[m], t, r)
      PROVE  AllFits(e2, st, s2, m, fw2[m], c, o, mk)
  <2>1. AllFits(e, st, s, m, fw[m], c, o, mk)
    BY <1>5 DEF RunFits
  <2>2. CASE m # n
    <3>1. e.kind.tied /\ Alone(e, fw[n], fw[m])
      BY <1>5, <2>2 DEF RunFits, Alone
    <3>0. fw2[m] = fw[m]
      BY <1>5, <2>2, <3>1 DEF OthersStay
    <3>2. ForwardFits(e2, st, s2, fw[m], mk)
      BY <2>1, <3>1 DEF AllFits, ForwardFits, FailedRow, StoppedKeeper
    <3>3. OwnFits(e2, s2, fw[m])
      BY <3>1 DEF OwnFits, FailedRow
    <3>4. ~e.kind.remote => fw[m].at \notin Opening
      BY <1>1, <3>1 DEF Alone, Fails, AllFits, ForwardFits, Opening
    <3>5. TiedFits(e2, s2, m, fw[m], c, o)
      BY <2>1, <3>4 DEF AllFits, TiedFits, FailedRow, StoppedKeeper
    <3>6. QED
      BY <3>0, <3>2, <3>3, <3>5 DEF AllFits
  <2>3. CASE m = n
    <3> DEFINE w == fw[n]
               v == fw2[n]
    <3>1. Fails(e, w, u) /\ StopOf(e, u, v) /\ AllFits(e, st, s, n, w, c, o, mk) /\ w.r = r
      BY <1>1
    <3> HIDE DEF v, w
    <3>2. ForwardFits(e2, st, s2, v, mk)
      <4>1. ForwardFits(e, st, s, w, mk)
        BY <3>1 DEF AllFits
      <4>2. ~e.kind.tied => v.stop = s2.stop
        BY <3>1 DEF StopOf, StoppedKeeper
      <4>3. v.r <= st /\ s2.at # "none" /\ v.seen <= mk
        BY <3>1, <4>1 DEF ForwardFits, StoppedKeeper, Fails, StopOf
      <4>4. v.conn <= mk
        BY <3>1, <4>1 DEF ForwardFits, Fails, StopOf
      <4>5. v.at \in {"over", "idle"} /\ (~e.kind.remote => v.at = "over")
        BY <3>1, <4>1 DEF ForwardFits, Fails, StopOf
      <4>6. QED
        BY <4>2, <4>3, <4>4, <4>5 DEF ForwardFits, FailedRow
    <3>3. OwnFits(e2, s2, v)
      BY <3>1 DEF AllFits, ForwardFits, OwnFits, FailedRow, StoppedKeeper, Fails, StopOf, Leaves
    <3>4. TiedFits(e2, s2, n, v, c, o)
      BY <3>1 DEF AllFits, ForwardFits, TiedFits, FailedRow, StoppedKeeper, Fails, StopOf, Opening
    <3>5. AllFits(e2, st, s2, n, v, c, o, mk)
      BY <3>2, <3>3, <3>4 DEF AllFits
    <3>6. QED
      BY <2>3, <3>5 DEF v
  <2>4. QED
    BY <2>2, <2>3
<1>6. /\ s2.at = s.at /\ s2.fwd = s.fwd /\ e2.kind = e.kind
      /\ ~e.kind.remote /\ fw2[n].at \in Opening => fw[n].at \in Opening
  BY DEF FailedRow, StoppedKeeper, Fails, StopOf, Opening
<1>7. QED
  BY <1>2, <1>3, <1>4, <1>5, <1>6, ForwardsMove, Zenon

(* What stopping run r of tunnel t makes of the forwards f, and of the       *)
(* keepers.                                                                  *)
FwdsStopped(f, f2, t, r) == f2 = StoppedFwds(f, t, r)

SupStopped(su, su2, t, r) == su2 = StoppedSup(su, t, r)

OnlyStopped(f, f2, nf, e, t, r) ==
    /\ f2 \in [1 .. nf -> Fwds]
    /\ \A m \in 1 .. nf : /\ f2[m].t = f[m].t /\ f2[m].r = f[m].r /\ f2[m].at = f[m].at
                          /\ f2[m].seen = f[m].seen /\ f2[m].conn = f[m].conn
                          /\ f2[m].done = f[m].done
                          /\ ~Of(f[m], t, r) \/ e.kind.tied => f2[m] = f[m]
                          /\ Of(f[m], t, r) =>
                               f2[m].stop = IF e.kind.tied THEN f[m].stop ELSE TRUE

LEMMA StoppedForwards ==
    ASSUME NEW t, NEW r, NEW nf, NEW f, f \in [1 .. nf -> Fwds], NEW f2, FwdsStopped(f, f2, t, r)
    PROVE  OnlyStopped(f, f2, nf, entry[t], t, r)
<1>1. DOMAIN f = 1 .. nf
  OBVIOUS
<1>2. ASSUME NEW m \in 1 .. nf
      PROVE  /\ f2[m] \in Fwds
             /\ f2[m].t = f[m].t /\ f2[m].r = f[m].r /\ f2[m].at = f[m].at
             /\ f2[m].seen = f[m].seen /\ f2[m].conn = f[m].conn /\ f2[m].done = f[m].done
             /\ ~Of(f[m], t, r) \/ entry[t].kind.tied => f2[m] = f[m]
             /\ Of(f[m], t, r) => f2[m].stop = IF entry[t].kind.tied THEN f[m].stop ELSE TRUE
  <2>1. f[m] \in Fwds
    OBVIOUS
  <2>2. f2[m] = IF Of(f[m], t, r) /\ ~entry[t].kind.tied THEN [f[m] EXCEPT !.stop = TRUE] ELSE f[m]
    BY <1>1 DEF FwdsStopped, StoppedFwds, Of, Tied
  <2> DEFINE w == f[m]
             v == f2[m]
  <2>3. w \in Fwds /\ v = IF Of(w, t, r) /\ ~entry[t].kind.tied THEN [w EXCEPT !.stop = TRUE] ELSE w
    BY <2>1, <2>2
  <2> HIDE DEF w, v
  <2>4. CASE Of(w, t, r) /\ ~entry[t].kind.tied
    <3>1. /\ v \in Fwds /\ v.t = w.t /\ v.r = w.r /\ v.at = w.at /\ v.seen = w.seen /\ v.conn = w.conn
          /\ v.done = w.done /\ v.stop = TRUE
      BY <2>3, <2>4 DEF Fwds
    <3>2. QED
      BY <2>4, <3>1 DEF v, w
  <2>5. CASE ~(Of(w, t, r) /\ ~entry[t].kind.tied)
    <3>1. v = w
      BY <2>3, <2>5
    <3>2. QED
      BY <2>1, <2>5, <3>1 DEF v, w
  <2>6. QED
    BY <2>4, <2>5
<1>3. f2 \in [1 .. nf -> Fwds]
  <2>1. f2 = [m \in 1 .. nf |-> f2[m]]
    BY <1>1 DEF FwdsStopped, StoppedFwds
  <2>2. QED
    BY <1>2, <2>1
<1>4. QED
  BY <1>2, <1>3 DEF OnlyStopped

LEMMA StoppedKeepers ==
    ASSUME NEW su, su \in [Tunnels -> [Runs -> Sups]], NEW t \in Tunnels, NEW r \in Runs, r # 0,
           NEW su2, SupStopped(su, su2, t, r)
    PROVE  /\ OnlySup(su, su2, t, r, su2[t][r]) /\ StoppedKeeper(su[t][r], su2[t][r])
<1> DEFINE v == [su[t][r] EXCEPT !.stop = TRUE]
<1>1. SetTo(su, su2, t, r, v)
  BY DEF SupStopped, StoppedSup, SetTo
<1>2. v \in Sups /\ StoppedKeeper(su[t][r], v)
  <2>1. su[t][r] \in Sups
    OBVIOUS
  <2>2. QED
    BY <2>1 DEF Sups, StoppedKeeper
<1> HIDE DEF v
<1>3. OnlySup(su, su2, t, r, v)
  BY <1>1, <1>2, SupSet, Zenon
<1>4. QED
  BY <1>2, <1>3, Zenon DEF OnlySup

LEMMA FailsStep ==
    ASSUME TunnelsInv, NEW n, n \in DOMAIN fwds, NEW t, t = fwds[n].t, NEW r, r = fwds[n].r,
           NEW u, u \in Fwds, Fails(entry[t], fwds[n], u), NEW f, FwdTo(fwds, f, n, u),
           ReportedFailed(t, r, f), UNCHANGED <<starts, started, session, open, made>>
    PROVE  TunnelsInv'
<1> DEFINE w == fwds[n]
           e == entry[t]
           s == sup[t][r]
<1>1. /\ n \in 1 .. started /\ n # 0 /\ w \in Fwds /\ t \in Tunnels /\ r \in Runs /\ r # 0
      /\ r <= starts[t] /\ r \in Nat /\ starts[t] \in Nat /\ s \in Sups /\ e \in Entries
      /\ RunFits(e, starts[t], s, fwds, started, t, r, session, open, made)
      /\ RowFits(e, starts[t]) /\ KeeperFits(e, starts[t], r, s, made)
      /\ FollowerFits(e, starts[t], r, s, session, open)
      /\ AllFits(e, starts[t], s, n, w, session, open, made) /\ Of(w, t, r)
  BY ForwardFacts
<1>2. /\ made \in Nat /\ entry \in [Tunnels -> Entries]
      /\ sup \in [Tunnels -> [Runs -> Sups]] /\ fwds \in [1 .. started -> Fwds]
  BY Types
<1>3. OnlyFwd(fwds, f, started, n, u)
  BY <1>1, <1>2, FwdSet, Zenon
<1>4. u.t = t /\ u.r = r /\ w.t = t /\ w.r = r
  BY DEF Fails
<1>5. CASE r # e.run
  <2>1. entry' = entry /\ sup' = sup /\ fwds' = f
    BY <1>5 DEF ReportedFailed, Current
  <2>2. /\ Fails(e, w, u) /\ AllFits(e, starts[t], s, n, w, session, open, made)
        /\ made \in Nat /\ r # e.run
    BY <1>1, <1>2, <1>5
  <2> HIDE DEF w, e, s
  <2>3. ForwardFits(e, starts[t], s, u, made)
    BY <1>4, <2>2 DEF AllFits, ForwardFits, Fails
  <2>4. OwnFits(e, s, u)
    BY <1>4, <1>5 DEF OwnFits
  <2>5. TiedFits(e, s, n, u, session, open)
    BY <1>4, <2>2 DEF AllFits, TiedFits, Opening, Fails
  <2>6. AllFits(e, starts[t], s, n, u, session, open, made) /\ u.at \notin Opening
    BY <2>2, <2>3, <2>4, <2>5 DEF AllFits, Fails, Opening
  <2> USE DEF w, e, s
  <2>7. UNCHANGED <<entry, sup, starts, started, session, open, made>> /\ FwdTo(fwds, fwds', n, u)
    BY <2>1
  <2>8. QED
    BY <1>4, <2>6, <2>7, ForwardMoves, Zenon
<1>6. CASE r = e.run
  <2>1. FwdsStopped(f, fwds', t, r) /\ SupStopped(sup, sup', t, r)
    BY <1>6 DEF ReportedFailed, Current, FwdsStopped, SupStopped
  <2>2. f \in [1 .. started -> Fwds] /\ f[n] = u /\ \A m \in 1 .. started : m # n => f[m] = fwds[m]
    BY <1>3 DEF OnlyFwd
  <2>3. OnlyStopped(f, fwds', started, e, t, r)
    BY <2>1, <2>2, StoppedForwards, Zenon
  <2>4. /\ sup' \in [Tunnels -> [Runs -> Sups]] /\ StoppedKeeper(s, sup'[t][r])
        /\ \A x \in Tunnels, q \in Runs : x # t \/ q # r => sup'[x][q] = sup[x][q]
    <3>1. OnlySup(sup, sup', t, r, sup'[t][r]) /\ StoppedKeeper(s, sup'[t][r])
      BY <1>1, <1>2, <2>1, StoppedKeepers, Zenon
    <3>2. QED
      BY <3>1, Zenon DEF OnlySup
  <2>5. /\ FailedRow(e, entry'[t]) /\ entry' \in [Tunnels -> Entries]
        /\ \A x \in Tunnels : x # t => entry'[x] = entry[x]
    <3> DEFINE v == [entry[t] EXCEPT !.failed = TRUE, !.ask = 0]
    <3>1. entry' = [entry EXCEPT ![t].failed = TRUE, ![t].ask = 0]
      BY <1>6 DEF ReportedFailed, Current
    <3>2. RowTo(entry, entry', t, v)
      BY <1>1, <1>2, <3>1 DEF RowTo, Entries
    <3>3. 0 \in 0 .. MaxRuns
      BY TunnelsAssumption
    <3>4. v \in Entries /\ FailedRow(e, v)
      BY <1>1, <3>3 DEF FailedRow, Entries
    <3> HIDE DEF v
    <3>5. OnlyRow(entry, entry', t, v)
      BY <1>1, <1>2, <3>2, <3>4, RowSet, Zenon
    <3>6. QED
      BY <3>4, <3>5, Zenon DEF OnlyRow
  <2>6. StopOf(e, u, fwds'[n])
    <3>1. Of(f[n], t, r)
      BY <1>4, <2>2 DEF Of
    <3>2. QED
      BY <1>1, <2>2, <2>3, <3>1 DEF StopOf, OnlyStopped
  <2>7. ASSUME NEW m \in 1 .. started
        PROVE  /\ fwds'[m].t = fwds[m].t /\ fwds'[m].r = fwds[m].r
               /\ m # n => fwds'[m].at = fwds[m].at
               /\ ~Of(fwds[m], t, r) \/ (m # n /\ e.kind.tied) => fwds'[m] = fwds[m]
    <3>1. CASE m = n
      BY <1>1, <1>4, <2>2, <2>3, <3>1 DEF OnlyStopped
    <3>2. CASE m # n
      BY <2>2, <2>3, <3>2 DEF OnlyStopped
    <3>3. QED
      BY <3>1, <3>2
  <2>8. /\ SameRuns(fwds, fwds', started, n)
        /\ OthersStay(fwds, fwds', started, n, e, t, r)
        /\ \A m \in 1 .. started : /\ fwds'[m].t = fwds[m].t /\ fwds'[m].r = fwds[m].r
                                   /\ ~Of(fwds[m], t, r) => fwds'[m] = fwds[m]
    BY <2>7 DEF SameRuns, OthersStay
  <2>9. RunFits(entry'[t], starts[t], sup'[t][r], fwds', started, t, r, session, open, made)
    <3>1. RunFits(e, starts[t], s, fwds, started, t, r, session, open, made) /\ Of(fwds[n], t, r)
      BY <1>1
    <3>2. Fails(e, fwds[n], u)
      OBVIOUS
    <3>3. FailedRow(e, entry'[t]) /\ StoppedKeeper(s, sup'[t][r])
      BY <2>4, <2>5
    <3>4. RunFails(e, starts[t], s, fwds, started, n, u, fwds', entry'[t], sup'[t][r], t, r)
      <4>1. r = e.run /\ SameRuns(fwds, fwds', started, n)
        BY <1>6, <2>8, Zenon
      <4> HIDE DEF e, s, w
      <4>2. QED
        BY <1>1, <2>6, <2>8, <3>1, <3>2, <3>3, <4>1, Zenon DEF RunFails
    <3> HIDE DEF e, s, w
    <3>5. QED
      BY <1>2, <3>1, <3>4, FailsRun, Zenon
  <2>10. /\ entry'[t].kind = entry[t].kind /\ entry'[t].run = entry[t].run
         /\ entry'[t] = entry[t] \/ entry[t].run = r
         /\ sup'[t][r].conn = sup[t][r].conn
    BY <1>6, <2>4, <2>5 DEF FailedRow, StoppedKeeper
  <2>12. fwds' \in [1 .. started -> Fwds]
    BY <2>3 DEF OnlyStopped
  <2>11. QED
    BY <1>1, <2>12, <2>4, <2>5, <2>8, <2>9, <2>10, ForwardStep, Zenon
<1>7. QED
  BY <1>5, <1>6

LEMMA ListenStep ==
    ASSUME TunnelsInv, NEW n, Listen(n)
    PROVE  TunnelsInv'
<1>1. n \in DOMAIN fwds /\ fwds[n].at = "start" /\ ~entry[fwds[n].t].kind.remote
  BY DEF Listen, At, Remote
<1>2. CASE Move(n, "bound") /\ UNCHANGED <<entry, sup>>
  BY <1>1, <1>2, ListenBound, Zenon
<1> DEFINE f == [fwds EXCEPT ![n].at = "over"]
           u == [fwds[n] EXCEPT !.at = "over"]
<1>3. CASE ReportedFailed(fwds[n].t, fwds[n].r, f)
  <2>1. FwdTo(fwds, f, n, u)
    BY DEF FwdTo
  <2>2. fwds[n] \in Fwds
    BY <1>1, Types
  <2>3. u \in Fwds /\ Fails(entry[fwds[n].t], fwds[n], u)
    BY <1>1, <2>2 DEF Fwds, Fails
  <2>4. UNCHANGED <<starts, started, session, open, made>>
    BY DEF Listen
  <2> HIDE DEF f, u
  <2>5. QED
    BY <1>1, <1>3, <2>1, <2>3, <2>4, FailsStep, Zenon
<1>4. QED
  BY <1>2, <1>3 DEF Listen

LEMMA BoundStep ==
    ASSUME TunnelsInv, NEW n, Bound(n)
    PROVE  TunnelsInv'
<1>1. /\ n \in DOMAIN fwds /\ fwds[n].at \in {"bound", "register"}
      /\ Move(n, "listening") /\ Reported(fwds[n].t, fwds[n].r, TRUE)
      /\ UNCHANGED <<sup, starts, started, session, open, made>>
  BY DEF Bound, At
<1>2. QED
  BY <1>1, ListensStep, Zenon

LEMMA RegisteredStep ==
    ASSUME TunnelsInv, NEW n, Registered(n)
    PROVE  TunnelsInv'
<1>1. /\ n \in DOMAIN fwds /\ fwds[n].at \in {"bound", "register"}
      /\ Move(n, "listening") /\ Reported(fwds[n].t, fwds[n].r, TRUE)
      /\ UNCHANGED <<sup, starts, started, session, open, made>>
  BY DEF Registered, At
<1>2. QED
  BY <1>1, ListensStep, Zenon

LEMMA LookStep ==
    ASSUME TunnelsInv, NEW n, Look(n)
    PROVE  TunnelsInv'
<1>1. n \in DOMAIN fwds
  BY DEF Look, At
<1>2. CASE Watch(n) \in open
  BY <1>1, <1>2, LookOpen, Zenon
<1>3. CASE Watch(n) \notin open
  BY <1>1, <1>3, LookWaits, Zenon
<1>4. QED
  BY <1>2, <1>3

LEMMA RegisterFailsStep ==
    ASSUME TunnelsInv, NEW n, RegisterFails(n)
    PROVE  TunnelsInv'
<1> DEFINE f == [fwds EXCEPT ![n].at = "idle", ![n].conn = 0]
           u == [fwds[n] EXCEPT !.at = "idle", !.conn = 0]
<1>1. /\ n \in DOMAIN fwds /\ fwds[n].at = "register" /\ ReportedFailed(fwds[n].t, fwds[n].r, f)
      /\ UNCHANGED <<starts, started, session, open, made>>
  BY DEF RegisterFails, At
<1>2. fwds[n] \in Fwds /\ 0 \in 0 .. MaxConns
  BY <1>1, Types, TunnelsAssumption
<1>3. FwdTo(fwds, f, n, u)
  BY <1>1, <1>2 DEF FwdTo, Fwds
<1>4. u \in Fwds /\ Fails(entry[fwds[n].t], fwds[n], u)
  BY <1>1, <1>2 DEF Fwds, Fails
<1> HIDE DEF f, u
<1>5. QED
  BY <1>1, <1>3, <1>4, FailsStep, Zenon

LEMMA WakeStep ==
    ASSUME TunnelsInv, NEW n, NEW done \in BOOLEAN, Wake(n, done)
    PROVE  TunnelsInv'
<1>1. n \in DOMAIN fwds /\ fwds[n].at \in {"idle", "listening"}
  BY DEF Wake
<1>2. CASE fwds[n].at = "listening"
  BY <1>1, <1>2, WakeListening, Zenon
<1>3. CASE fwds[n].at = "idle" /\ done = TRUE
  BY <1>1, <1>3, WakeEnds
<1>4. CASE fwds[n].at = "idle" /\ done = FALSE
  BY <1>1, <1>4, WakeLooks
<1>5. QED
  BY <1>1, <1>2, <1>3, <1>4

-----------------------------------------------------------------------------
(* The followers of tied tunnels.                                            *)

(* What letting go of forward k makes of the forwards.                       *)
StopTo(f, f2, k) == f2 = StopForward(f, k)

LetGo(f, f2, nf, k) ==
    /\ f2 \in [1 .. nf -> Fwds]
    /\ \A m \in 1 .. nf : /\ f2[m].t = f[m].t /\ f2[m].r = f[m].r /\ f2[m].at = f[m].at
                          /\ f2[m].seen = f[m].seen /\ f2[m].conn = f[m].conn
                          /\ f2[m].done = f[m].done
                          /\ IF m = k THEN f2[m].stop ELSE f2[m] = f[m]

LEMMA LetsGo ==
    ASSUME NEW nf, NEW f, f \in [1 .. nf -> Fwds], NEW k, k # 0 => k \in 1 .. nf, nf \in Nat,
           NEW f2, StopTo(f, f2, k)
    PROVE  LetGo(f, f2, nf, k)
<1>1. CASE k = 0
  <2>1. f2 = f
    BY <1>1 DEF StopTo, StopForward
  <2>2. \A m \in 1 .. nf : m # k
    BY <1>1
  <2>3. QED
    BY <2>1, <2>2 DEF LetGo
<1>2. CASE k # 0
  <2> DEFINE v == [f[k] EXCEPT !.stop = TRUE]
  <2>1. FwdTo(f, f2, k, v)
    BY <1>2 DEF StopTo, StopForward, FwdTo
  <2>2. f[k] \in Fwds /\ k \in 1 .. nf
    BY <1>2
  <2>3. /\ v \in Fwds /\ v.stop /\ v.t = f[k].t /\ v.r = f[k].r /\ v.at = f[k].at
        /\ v.seen = f[k].seen /\ v.conn = f[k].conn /\ v.done = f[k].done
    BY <2>2 DEF Fwds
  <2> HIDE DEF v
  <2>4. OnlyFwd(f, f2, nf, k, v)
    BY <2>1, <2>2, <2>3, FwdSet, Zenon
  <2>5. QED
    BY <2>2, <2>3, <2>4 DEF OnlyFwd, LetGo
<1>3. QED
  BY <1>1, <1>2

(* The follower lets go of its forward: its session is gone, or it ends.     *)
Loosens(s, s2, c, o) ==
    /\ s.at = "tied" /\ s2.conn = s.conn /\ s2.stop = s.stop
    /\ \/ s2.at = "tied" /\ s2.fwd = 0 /\ s2.seen = c /\ c \notin o
       \/ s2.at = "over" /\ s2.fwd = s.fwd /\ s2.seen = s.seen /\ s.stop

LEMMA LooseRun ==
    ASSUME NEW e, NEW st, NEW s, NEW fw, NEW nf, NEW t, NEW r, NEW c, NEW o, NEW mk,
           RunFits(e, st, s, fw, nf, t, r, c, o, mk), mk \in Nat, c \in 0 .. mk,
           r \in Nat, st \in Nat, r <= st, nf \in Nat,
           NEW s2, Loosens(s, s2, c, o), NEW fw2, LetGo(fw, fw2, nf, s.fwd)
    PROVE  RunFits(e, st, s2, fw2, nf, t, r, c, o, mk)
<1>1. /\ RowFits(e, st) /\ KeeperFits(e, st, r, s, mk) /\ FollowerFits(e, st, r, s, c, o)
  BY DEF RunFits
<1>2. e.kind.tied /\ s.at = "tied"
  BY <1>1 DEF KeeperFits, Loosens
<1>3. KeeperFits(e, st, r, s2, mk)
  BY <1>1, <1>2 DEF KeeperFits, Loosens
<1>4. FollowerFits(e, st, r, s2, c, o)
  BY <1>1, <1>2 DEF FollowerFits, Loosens
<1>5. \A m \in 1 .. nf : Of(fw2[m], t, r) <=> Of(fw[m], t, r)
  BY DEF LetGo, Of
<1>6. ASSUME NEW m \in 1 .. nf, Of(fw2[m], t, r)
      PROVE  AllFits(e, st, s2, m, fw2[m], c, o, mk)
  <2> DEFINE w == fw[m]
             v == fw2[m]
  <2>1. AllFits(e, st, s, m, w, c, o, mk)
    BY <1>5, <1>6 DEF RunFits
  <2>2. /\ v.t = w.t /\ v.r = w.r /\ v.at = w.at /\ v.seen = w.seen /\ v.conn = w.conn
        /\ v.done = w.done /\ m # 0
    BY DEF LetGo
  <2>3. v.stop
    BY <1>2, <2>1 DEF LetGo, AllFits, TiedFits
  <2> HIDE DEF w, v
  <2>4. ForwardFits(e, st, s2, v, mk)
    BY <1>2, <2>1, <2>2 DEF AllFits, ForwardFits, Loosens
  <2>5. OwnFits(e, s2, v)
    BY <1>2 DEF OwnFits
  <2>6. TiedFits(e, s2, m, v, c, o)
    BY <1>2, <2>1, <2>2, <2>3 DEF AllFits, TiedFits, Loosens
  <2>7. AllFits(e, st, s2, m, v, c, o, mk)
    BY <2>4, <2>5, <2>6 DEF AllFits
  <2>8. QED
    BY <2>7 DEF v
<1>7. \A m, l \in 1 .. nf :
        m # l /\ Of(fw2[m], t, r) /\ Of(fw2[l], t, r) => Alone(e, fw2[m], fw2[l])
  BY <1>5 DEF RunFits, Alone, LetGo
<1>8. s2.fwd # 0 => s2.fwd \in 1 .. nf /\ Of(fw2[s2.fwd], t, r)
  BY <1>5 DEF RunFits, Loosens
<1>9. QED
  BY <1>1, <1>2, <1>3, <1>4, <1>6, <1>7, <1>8 DEF RunFits

(* The follower sees the session it has a forward for.                       *)
LEMMA SeesRun ==
    ASSUME NEW e, NEW st, NEW s, NEW fw, NEW nf, NEW t, NEW r, NEW c, NEW o, NEW mk,
           RunFits(e, st, s, fw, nf, t, r, c, o, mk), mk \in Nat, c \in 0 .. mk,
           r \in Nat, st \in Nat, r <= st, c # 0,
           NEW s2, s2.at = s.at, s2.stop = s.stop, s2.conn = s.conn, s2.fwd = s.fwd, s2.seen = c,
           s.at = "tied", s.fwd # 0
    PROVE  RunFits(e, st, s2, fw, nf, t, r, c, o, mk)
<1>1. /\ RowFits(e, st) /\ KeeperFits(e, st, r, s, mk) /\ FollowerFits(e, st, r, s, c, o)
  BY DEF RunFits
<1>2. e.kind.tied
  BY <1>1 DEF KeeperFits
<1>3. KeeperFits(e, st, r, s2, mk)
  BY <1>1, <1>2 DEF KeeperFits
<1>4. FollowerFits(e, st, r, s2, c, o)
  BY <1>1, <1>2 DEF FollowerFits
<1>5. ASSUME NEW m \in 1 .. nf, Of(fw[m], t, r)
      PROVE  AllFits(e, st, s2, m, fw[m], c, o, mk)
  <2>1. AllFits(e, st, s, m, fw[m], c, o, mk)
    BY <1>5 DEF RunFits
  <2>2. ForwardFits(e, st, s2, fw[m], mk)
    BY <2>1 DEF AllFits, ForwardFits
  <2>3. OwnFits(e, s2, fw[m])
    BY <1>2 DEF OwnFits
  <2>4. TiedFits(e, s2, m, fw[m], c, o)
    BY <2>1 DEF AllFits, TiedFits
  <2>5. QED
    BY <2>2, <2>3, <2>4 DEF AllFits
<1>6. QED
  BY <1>1, <1>2, <1>3, <1>4, <1>5 DEF RunFits

(* What starting a forward makes of the forwards.                            *)
AddTo(f, f2, v) == f2 = With(f, v)

Added(f, f2, nf, v) ==
    f2 \in [1 .. nf + 1 -> Fwds] /\ f2[nf + 1] = v /\ \A m \in 1 .. nf : f2[m] = f[m]

LEMMA Adds ==
    ASSUME started \in Nat, NEW f, f \in [1 .. started -> Fwds], NEW v, v \in Fwds, NEW f2, AddTo(f, f2, v)
    PROVE  Added(f, f2, started, v)
<1>1. f2 = [n \in 1 .. started + 1 |-> IF n = started + 1 THEN v ELSE f[n]]
  BY DEF AddTo, With
<1>2. \A n \in 1 .. started + 1 : n # started + 1 => n \in 1 .. started
  OBVIOUS
<1>3. started + 1 \in 1 .. started + 1 /\ \A n \in 1 .. started : n \in 1 .. started + 1 /\ n # started + 1
  OBVIOUS
<1>4. f2 \in [1 .. started + 1 -> Fwds]
  BY <1>1, <1>2
<1>5. f2[started + 1] = v /\ \A m \in 1 .. started : f2[m] = f[m]
  BY <1>1, <1>3
<1>6. QED
  BY <1>4, <1>5 DEF Added

LEMMA NewOf ==
    ASSUME NEW t \in Tunnels, NEW r \in Runs
    PROVE  NewForward(t, r) \in Fwds /\ Of(NewForward(t, r), t, r)
BY TunnelsAssumption DEF NewForward, Fwds, Of

(* The follower sees a session and starts a forward for it.                  *)
LEMMA FollowsRun ==
    ASSUME NEW e, NEW st, NEW s, NEW fw, NEW nf, NEW t, NEW r, NEW c, NEW o, NEW mk,
           RunFits(e, st, s, fw, nf, t, r, c, o, mk), mk \in Nat, c \in 0 .. mk,
           r \in Nat, st \in Nat, r <= st, nf \in Nat, c # 0, c \in o,
           NEW s2, s2.at = s.at, s2.stop = s.stop, s2.conn = s.conn, s2.fwd = nf + 1, s2.seen = c,
           s.at = "tied", s.fwd = 0, NEW fw2, Added(fw, fw2, nf, NewForward(t, r))
    PROVE  RunFits(e, st, s2, fw2, nf + 1, t, r, c, o, mk)
<1> DEFINE v == NewForward(t, r)
<1>1. /\ RowFits(e, st) /\ KeeperFits(e, st, r, s, mk) /\ FollowerFits(e, st, r, s, c, o)
  BY DEF RunFits
<1>2. e.kind.tied
  BY <1>1 DEF KeeperFits
<1>3. KeeperFits(e, st, r, s2, mk)
  BY <1>1, <1>2 DEF KeeperFits
<1>4. FollowerFits(e, st, r, s2, c, o)
  BY <1>1, <1>2 DEF FollowerFits
<1>5. /\ v.t = t /\ v.r = r /\ v.at = "start" /\ v.stop = FALSE /\ v.conn = 0 /\ v.seen = 0
      /\ v.done = FALSE /\ Of(v, t, r)
  BY DEF NewForward, Of
<1>6. fw2[nf + 1] = v /\ \A m \in 1 .. nf : fw2[m] = fw[m]
  BY DEF Added
<1>7. \A m \in 1 .. nf + 1 : m \in 1 .. nf \/ m = nf + 1
  OBVIOUS
<1> HIDE DEF v
<1>8. \A m \in 1 .. nf : Of(fw[m], t, r) /\ ~e.kind.remote => fw[m].at \notin Opening
  <2> SUFFICES ASSUME NEW m \in 1 .. nf, Of(fw[m], t, r), ~e.kind.remote
               PROVE  fw[m].at \notin Opening
    OBVIOUS
  <2>1. TiedFits(e, s, m, fw[m], c, o)
    BY DEF RunFits, AllFits
  <2>2. QED
    BY <1>2, <2>1 DEF TiedFits
<1>9. ASSUME NEW m \in 1 .. nf, Of(fw[m], t, r)
      PROVE  AllFits(e, st, s2, m, fw[m], c, o, mk)
  <2>1. AllFits(e, st, s, m, fw[m], c, o, mk)
    BY <1>9 DEF RunFits
  <2>2. ForwardFits(e, st, s2, fw[m], mk)
    BY <2>1 DEF AllFits, ForwardFits
  <2>3. OwnFits(e, s2, fw[m])
    BY <1>2 DEF OwnFits
  <2>4. m # nf + 1 /\ m # 0 /\ (~e.kind.remote => fw[m].at \notin Opening)
    BY <1>8, <1>9
  <2>5. TiedFits(e, s2, m, fw[m], c, o)
    BY <1>2, <2>1, <2>4 DEF AllFits, TiedFits
  <2>6. QED
    BY <2>2, <2>3, <2>5 DEF AllFits
<1>10. AllFits(e, st, s2, nf + 1, v, c, o, mk)
  <2>1. ForwardFits(e, st, s2, v, mk)
    BY <1>2, <1>5 DEF ForwardFits
  <2>2. OwnFits(e, s2, v)
    BY <1>2 DEF OwnFits
  <2>3. ~e.kind.remote /\ r = e.run => ~s.stop
    BY <1>1, <1>2 DEF FollowerFits
  <2>4. TiedFits(e, s2, nf + 1, v, c, o)
    BY <1>5, <2>3 DEF TiedFits, Opening
  <2>5. QED
    BY <2>1, <2>2, <2>4 DEF AllFits
<1>11. ASSUME NEW m \in 1 .. nf + 1, Of(fw2[m], t, r)
       PROVE  AllFits(e, st, s2, m, fw2[m], c, o, mk)
  BY <1>6, <1>7, <1>9, <1>10, <1>11
<1>12. ASSUME NEW m \in 1 .. nf + 1, NEW l \in 1 .. nf + 1, m # l, Of(fw2[m], t, r), Of(fw2[l], t, r)
       PROVE  Alone(e, fw2[m], fw2[l])
  <2>1. CASE m \in 1 .. nf /\ l \in 1 .. nf
    BY <1>6, <1>12, <2>1 DEF RunFits
  <2>2. CASE m \in 1 .. nf /\ l = nf + 1
    BY <1>2, <1>6, <1>8, <1>12, <2>2 DEF Alone
  <2>3. CASE m = nf + 1 /\ l \in 1 .. nf
    BY <1>2, <1>6, <1>8, <1>12, <2>3 DEF Alone
  <2>4. QED
    BY <1>7, <1>12, <2>1, <2>2, <2>3
<1>13. s2.fwd # 0 => s2.fwd \in 1 .. nf + 1 /\ Of(fw2[s2.fwd], t, r)
  BY <1>5, <1>6
<1>14. QED
  BY <1>1, <1>2, <1>3, <1>4, <1>11, <1>12, <1>13 DEF RunFits

(* A step of a follower.                                                     *)
LEMMA FollowerStep ==
    ASSUME TunnelsInv, NEW t \in Tunnels, NEW r \in Runs,
           UNCHANGED <<entry, starts, session, open, made>>,
           NEW v, OnlySup(sup, sup', t, r, v), v.conn = sup[t][r].conn,
           started' \in 0 .. MaxForwards, started <= started', fwds' \in [1 .. started' -> Fwds],
           ForwardsOf(fwds, started, fwds', started', t, r),
           RunFits(entry[t], starts[t], v, fwds', started', t, r, session, open, made)
    PROVE  TunnelsInv'
<1>1. /\ sup' \in [Tunnels -> [Runs -> Sups]] /\ sup'[t][r] = v
      /\ \A x \in Tunnels, q \in Runs : x # t \/ q # r => sup'[x][q] = sup[x][q]
  BY DEF OnlySup
<1>2. NoneReopened(open, made, open') /\ ConnOf(open, sup[t][r], open', sup'[t][r], session)
  BY <1>1, NothingOpened
<1>3. OnlyRun(entry, starts, sup, entry', starts', sup', t, r)
  BY <1>1 DEF OnlyRun
<1>4. Typed(entry', starts', sup', fwds', started', session, open', made')
  BY <1>1, Types DEF Typed
<1>5. session' = session /\ made <= made'
  BY Types
<1>6. RunFits(entry'[t], starts'[t], sup'[t][r], fwds', started', t, r, session, open', made')
  BY <1>1
<1>7. QED
  BY <1>2, <1>3, <1>4, <1>5, <1>6, StepOfRun, Zenon

LEMMA FollowerFacts ==
    ASSUME TunnelsInv, NEW t \in Tunnels, NEW r \in Runs, sup[t][r].at = "tied"
    PROVE  /\ RunFits(entry[t], starts[t], sup[t][r], fwds, started, t, r, session, open, made)
           /\ sup[t][r] \in Sups /\ r \in Nat /\ starts[t] \in Nat /\ r <= starts[t]
           /\ sup[t][r].fwd # 0 => sup[t][r].fwd \in 1 .. started /\ Of(fwds[sup[t][r].fwd], t, r)
<1>1. RunFits(entry[t], starts[t], sup[t][r], fwds, started, t, r, session, open, made)
  BY RunOf, Zenon
<1>2. sup[t][r] \in Sups /\ r \in Nat /\ starts[t] \in Nat
  BY Types, TunnelsAssumption DEF Runs
<1>3. r <= starts[t]
  BY <1>1, <1>2 DEF RunFits, KeeperFits, NoSup
<1>4. sup[t][r].fwd # 0 => sup[t][r].fwd \in 1 .. started /\ Of(fwds[sup[t][r].fwd], t, r)
  BY <1>1 DEF RunFits
<1>5. QED
  BY <1>1, <1>2, <1>3, <1>4

LEMMA LooseStep ==
    ASSUME TunnelsInv, NEW t \in Tunnels, NEW r \in Runs, sup[t][r].at = "tied",
           NEW v, v \in Sups, SetTo(sup, sup', t, r, v), Loosens(sup[t][r], v, session, open),
           StopTo(fwds, fwds', sup[t][r].fwd),
           UNCHANGED <<entry, starts, started, session, open, made>>
    PROVE  TunnelsInv'
<1>1. /\ RunFits(entry[t], starts[t], sup[t][r], fwds, started, t, r, session, open, made)
      /\ sup[t][r] \in Sups /\ r \in Nat /\ starts[t] \in Nat /\ r <= starts[t]
      /\ sup[t][r].fwd # 0 => sup[t][r].fwd \in 1 .. started /\ Of(fwds[sup[t][r].fwd], t, r)
  BY FollowerFacts, Zenon
<1>2. /\ fwds \in [1 .. started -> Fwds] /\ started \in Nat /\ started \in 0 .. MaxForwards
      /\ made \in Nat /\ session \in 0 .. made /\ sup \in [Tunnels -> [Runs -> Sups]]
  BY Types
<1>3. OnlySup(sup, sup', t, r, v)
  BY <1>2, SupSet, Zenon
<1>4. LetGo(fwds, fwds', started, sup[t][r].fwd)
  BY <1>1, <1>2, LetsGo, Zenon
<1>5. RunFits(entry[t], starts[t], v, fwds', started, t, r, session, open, made)
  BY <1>1, <1>2, <1>4, LooseRun, Zenon
<1>6. ForwardsOf(fwds, started, fwds', started, t, r)
  <2>1. \A m \in 1 .. started : ~Of(fwds[m], t, r) => m # sup[t][r].fwd
    BY <1>1, <1>2
  <2>2. QED
    BY <1>2, <1>4, <2>1 DEF LetGo, ForwardsOf
<1>7. /\ started' \in 0 .. MaxForwards /\ started <= started' /\ fwds' \in [1 .. started' -> Fwds]
      /\ ForwardsOf(fwds, started, fwds', started', t, r)
      /\ RunFits(entry[t], starts[t], v, fwds', started', t, r, session, open, made)
      /\ UNCHANGED <<entry, starts, session, open, made>> /\ v.conn = sup[t][r].conn
  BY <1>2, <1>4, <1>5, <1>6 DEF LetGo, Loosens
<1>8. QED
  BY <1>3, <1>7, FollowerStep, Zenon

LEMMA TiedStopsStep ==
    ASSUME TunnelsInv, NEW t \in Tunnels, NEW r \in Runs, TiedStops(t, r)
    PROVE  TunnelsInv'
<1> DEFINE v == [sup[t][r] EXCEPT !.at = "over"]
<1>1. sup[t][r].at = "tied" /\ sup[t][r].stop
  BY DEF TiedStops, Supervisor
<1>2. sup[t][r] \in Sups
  BY <1>1, FollowerFacts
<1>3. v \in Sups /\ Loosens(sup[t][r], v, session, open)
  BY <1>1, <1>2 DEF Sups, Loosens
<1>4. SetTo(sup, sup', t, r, v) /\ StopTo(fwds, fwds', sup[t][r].fwd)
  BY DEF TiedStops, SetTo, StopTo
<1>5. UNCHANGED <<entry, starts, started, session, open, made>>
  BY DEF TiedStops
<1> HIDE DEF v
<1>6. QED
  BY <1>1, <1>3, <1>4, <1>5, LooseStep, Zenon

LEMMA TiedLooksStep ==
    ASSUME TunnelsInv, NEW t \in Tunnels, NEW r \in Runs, TiedLooks(t, r)
    PROVE  TunnelsInv'
<1>1. sup[t][r].at = "tied" /\ UNCHANGED <<entry, starts, session, open, made>>
  BY DEF TiedLooks, Supervisor
<1>2. /\ RunFits(entry[t], starts[t], sup[t][r], fwds, started, t, r, session, open, made)
      /\ sup[t][r] \in Sups /\ r \in Nat /\ starts[t] \in Nat /\ r <= starts[t]
  BY <1>1, FollowerFacts, Zenon
<1>3. /\ fwds \in [1 .. started -> Fwds] /\ started \in Nat /\ started \in 0 .. MaxForwards
      /\ made \in Nat /\ session \in 0 .. made /\ sup \in [Tunnels -> [Runs -> Sups]]
      /\ session \in 0 .. MaxConns /\ open \in SUBSET (1 .. made) /\ 0 \in 0 .. MaxForwards
  BY Types, TunnelsAssumption
<1>4. session \in open => session # 0
  BY <1>3
<1>5. CASE /\ session \in open /\ sup[t][r].fwd = 0 /\ started < MaxForwards /\ started' = started + 1
           /\ fwds' = With(fwds, NewForward(t, r))
           /\ sup' = [sup EXCEPT ![t][r].seen = session, ![t][r].fwd = started + 1]
  <2> DEFINE v == [sup[t][r] EXCEPT !.seen = session, !.fwd = started + 1]
  <2>1. SetTo(sup, sup', t, r, v) /\ AddTo(fwds, fwds', NewForward(t, r))
    BY <1>3, <1>5 DEF SetTo, AddTo, Sups
  <2>2. started + 1 \in 0 .. MaxForwards /\ started + 1 \in Nat /\ started <= started + 1
    BY <1>3, <1>5, TunnelsAssumption
  <2>3. /\ v \in Sups /\ v.at = sup[t][r].at /\ v.stop = sup[t][r].stop /\ v.conn = sup[t][r].conn
        /\ v.seen = session /\ v.fwd = started + 1
    BY <1>2, <1>3, <2>2 DEF Sups
  <2> HIDE DEF v
  <2>4. OnlySup(sup, sup', t, r, v)
    BY <1>3, <2>1, <2>3, SupSet, Zenon
  <2>5. NewForward(t, r) \in Fwds /\ Of(NewForward(t, r), t, r)
    BY NewOf
  <2>6. Added(fwds, fwds', started, NewForward(t, r))
    BY <1>3, <2>1, <2>5, Adds, Zenon
  <2>7. RunFits(entry[t], starts[t], v, fwds', started + 1, t, r, session, open, made)
    BY <1>1, <1>2, <1>3, <1>4, <1>5, <2>3, <2>6, FollowsRun, Zenon
  <2>8. ForwardsOf(fwds, started, fwds', started + 1, t, r)
    <3>1. \A m \in 1 .. started + 1 : m > started => m = started + 1
      BY <1>3
    <3>2. QED
      BY <2>2, <2>5, <2>6, <3>1 DEF ForwardsOf, Added
  <2>9. /\ started' \in 0 .. MaxForwards /\ started <= started' /\ fwds' \in [1 .. started' -> Fwds]
        /\ ForwardsOf(fwds, started, fwds', started', t, r)
        /\ RunFits(entry[t], starts[t], v, fwds', started', t, r, session, open, made)
    BY <1>5, <2>2, <2>6, <2>7, <2>8 DEF Added
  <2>10. QED
    BY <1>1, <2>3, <2>4, <2>9, FollowerStep, Zenon
<1>6. CASE /\ session \notin open /\ fwds' = StopForward(fwds, sup[t][r].fwd)
           /\ sup' = [sup EXCEPT ![t][r].seen = session, ![t][r].fwd = 0] /\ UNCHANGED started
  <2> DEFINE v == [sup[t][r] EXCEPT !.seen = session, !.fwd = 0]
  <2>1. SetTo(sup, sup', t, r, v) /\ StopTo(fwds, fwds', sup[t][r].fwd)
    BY <1>3, <1>6 DEF SetTo, StopTo, Sups
  <2>2. v \in Sups /\ Loosens(sup[t][r], v, session, open)
    BY <1>1, <1>2, <1>3, <1>6 DEF Sups, Loosens
  <2> HIDE DEF v
  <2>3. UNCHANGED <<entry, starts, started, session, open, made>>
    BY <1>1, <1>6
  <2>4. QED
    BY <1>1, <2>1, <2>2, <2>3, LooseStep, Zenon
<1>7. CASE /\ session \in open /\ sup[t][r].fwd # 0 /\ UNCHANGED <<fwds, started>>
           /\ sup' = [sup EXCEPT ![t][r].seen = session]
  <2> DEFINE v == [sup[t][r] EXCEPT !.seen = session]
  <2>1. SetTo(sup, sup', t, r, v)
    BY <1>7 DEF SetTo
  <2>2. /\ v \in Sups /\ v.at = sup[t][r].at /\ v.stop = sup[t][r].stop /\ v.conn = sup[t][r].conn
        /\ v.seen = session /\ v.fwd = sup[t][r].fwd
    BY <1>2, <1>3 DEF Sups
  <2> HIDE DEF v
  <2>3. OnlySup(sup, sup', t, r, v)
    BY <1>3, <2>1, <2>2, SupSet, Zenon
  <2>4. RunFits(entry[t], starts[t], v, fwds, started, t, r, session, open, made)
    BY <1>1, <1>2, <1>3, <1>4, <1>7, <2>2, SeesRun, Zenon
  <2>5. /\ started' \in 0 .. MaxForwards /\ started <= started' /\ fwds' \in [1 .. started' -> Fwds]
        /\ ForwardsOf(fwds, started, fwds', started', t, r)
        /\ RunFits(entry[t], starts[t], v, fwds', started', t, r, session, open, made)
    BY <1>3, <1>7, <2>4 DEF ForwardsOf
  <2>6. QED
    BY <1>1, <2>2, <2>3, <2>5, FollowerStep, Zenon
<1>8. QED
  BY <1>5, <1>6, <1>7 DEF TiedLooks

-----------------------------------------------------------------------------
(* Halting a run and starting one.                                           *)

LEMMA HaltRun ==
    ASSUME NEW e, NEW st, NEW s, NEW fw, NEW nf, NEW t, NEW r, NEW c, NEW o, NEW mk,
           RunFits(e, st, s, fw, nf, t, r, c, o, mk), r = e.run, r # 0, r \in Nat, st \in Nat,
           NEW s2, StoppedKeeper(s, s2), NEW fw2, OnlyStopped(fw, fw2, nf, e, t, r)
    PROVE  RunFits(Off(e.kind), st, s2, fw2, nf, t, r, c, o, mk)
<1> DEFINE e2 == Off(e.kind)
<1>1. /\ RowFits(e, st) /\ KeeperFits(e, st, r, s, mk) /\ FollowerFits(e, st, r, s, c, o)
      /\ r <= st
  BY DEF RunFits, RowFits
<1>2. /\ e2.kind = e.kind /\ e2.on = FALSE /\ e2.run = 0 /\ e2.link = "none" /\ e2.ask = 0
      /\ e2.waiting = FALSE
  BY DEF Off
<1> HIDE DEF e2
<1>3. RowFits(e2, st)
  BY <1>2 DEF RowFits
<1>4. KeeperFits(e2, st, r, s2, mk)
  BY <1>1, <1>2 DEF KeeperFits, StoppedKeeper
<1>5. FollowerFits(e2, st, r, s2, c, o)
  BY <1>1, <1>2 DEF FollowerFits, StoppedKeeper
<1>6. \A m \in 1 .. nf : Of(fw2[m], t, r) <=> Of(fw[m], t, r)
  BY DEF OnlyStopped, Of
<1>7. ASSUME NEW m \in 1 .. nf, Of(fw2[m], t, r)
      PROVE  AllFits(e2, st, s2, m, fw2[m], c, o, mk)
  <2> DEFINE w == fw[m]
             v == fw2[m]
  <2>1. AllFits(e, st, s, m, w, c, o, mk) /\ Of(w, t, r)
    BY <1>6, <1>7 DEF RunFits
  <2>2. /\ v.t = w.t /\ v.r = w.r /\ v.at = w.at /\ v.seen = w.seen /\ v.conn = w.conn
        /\ v.done = w.done /\ v.stop = IF e.kind.tied THEN w.stop ELSE TRUE
    BY <2>1 DEF OnlyStopped
  <2>3. v.r = r /\ v.r # e2.run
    BY <1>2, <1>7 DEF Of
  <2> HIDE DEF w, v
  <2>4. ForwardFits(e2, st, s2, v, mk)
    BY <1>2, <2>1, <2>2, <2>3 DEF AllFits, ForwardFits, StoppedKeeper
  <2>5. OwnFits(e2, s2, v)
    BY <2>3 DEF OwnFits
  <2>6. TiedFits(e2, s2, m, v, c, o)
    BY <1>2, <2>1, <2>2, <2>3 DEF AllFits, TiedFits, StoppedKeeper
  <2>7. AllFits(e2, st, s2, m, v, c, o, mk)
    BY <2>4, <2>5, <2>6 DEF AllFits
  <2>8. QED
    BY <2>7 DEF v
<1>8. \A m, l \in 1 .. nf :
        m # l /\ Of(fw2[m], t, r) /\ Of(fw2[l], t, r) => Alone(e2, fw2[m], fw2[l])
  BY <1>2, <1>6 DEF RunFits, Alone, OnlyStopped
<1>9. /\ s2.fwd # 0 => s2.fwd \in 1 .. nf /\ Of(fw2[s2.fwd], t, r)
      /\ ~e2.kind.tied /\ s2.at # "none" => \E m \in 1 .. nf : Of(fw2[m], t, r)
  BY <1>2, <1>6 DEF RunFits, StoppedKeeper
<1>10. RunFits(e2, st, s2, fw2, nf, t, r, c, o, mk)
  BY <1>3, <1>4, <1>5, <1>7, <1>8, <1>9 DEF RunFits
<1>11. QED
  BY <1>10 DEF e2

LEMMA HaltNone ==
    ASSUME NEW e, NEW st, NEW s, NEW fw, NEW nf, NEW t, NEW r, NEW c, NEW o, NEW mk,
           RunFits(e, st, s, fw, nf, t, r, c, o, mk), e.run = 0, r # 0, st \in Nat
    PROVE  RunFits(Off(e.kind), st, s, fw, nf, t, r, c, o, mk)
<1> DEFINE e2 == Off(e.kind)
<1>1. /\ RowFits(e, st) /\ KeeperFits(e, st, r, s, mk) /\ FollowerFits(e, st, r, s, c, o)
  BY DEF RunFits
<1>2. /\ e2.kind = e.kind /\ e2.on = FALSE /\ e2.run = 0 /\ e2.link = "none" /\ e2.ask = 0
      /\ e2.waiting = FALSE
  BY DEF Off
<1> HIDE DEF e2
<1>3. RowFits(e2, st)
  BY <1>2 DEF RowFits
<1>4. KeeperFits(e2, st, r, s, mk)
  BY <1>1, <1>2 DEF KeeperFits
<1>5. FollowerFits(e2, st, r, s, c, o)
  BY <1>1, <1>2 DEF FollowerFits
<1>6. ASSUME NEW m \in 1 .. nf, Of(fw[m], t, r)
      PROVE  AllFits(e2, st, s, m, fw[m], c, o, mk)
  <2> DEFINE w == fw[m]
  <2>1. AllFits(e, st, s, m, w, c, o, mk) /\ w.r = r
    BY <1>6 DEF RunFits, Of
  <2> HIDE DEF w
  <2>2. ForwardFits(e2, st, s, w, mk)
    BY <1>2, <2>1 DEF AllFits, ForwardFits
  <2>3. OwnFits(e2, s, w)
    BY <1>2, <2>1 DEF OwnFits
  <2>4. TiedFits(e2, s, m, w, c, o)
    BY <1>2, <2>1 DEF AllFits, TiedFits
  <2>5. AllFits(e2, st, s, m, w, c, o, mk)
    BY <2>2, <2>3, <2>4 DEF AllFits
  <2>6. QED
    BY <2>5 DEF w
<1>7. \A m, l \in 1 .. nf :
        m # l /\ Of(fw[m], t, r) /\ Of(fw[l], t, r) => Alone(e2, fw[m], fw[l])
  BY <1>2 DEF RunFits, Alone
<1>8. /\ s.fwd # 0 => s.fwd \in 1 .. nf /\ Of(fw[s.fwd], t, r)
      /\ ~e2.kind.tied /\ s.at # "none" => \E m \in 1 .. nf : Of(fw[m], t, r)
  BY <1>2 DEF RunFits
<1>9. RunFits(e2, st, s, fw, nf, t, r, c, o, mk)
  BY <1>3, <1>4, <1>5, <1>6, <1>7, <1>8 DEF RunFits
<1>10. QED
  BY <1>9 DEF e2

(* The tunnel t with its current run, if it has one, halted: q is any run.   *)
LEMMA HaltStep ==
    ASSUME TunnelsInv, NEW t \in Tunnels, NEW q \in Runs,
           NEW en1, RowTo(entry, en1, t, Off(entry[t].kind)),
           NEW su1, SupStopped(sup, su1, t, entry[t].run),
           NEW fw1, FwdsStopped(fwds, fw1, t, entry[t].run)
    PROVE  /\ Fit(en1, starts, su1, fw1, started, session, open, made)
           /\ OnlyRow(entry, en1, t, Off(entry[t].kind))
           /\ OnlyStopped(fwds, fw1, started, entry[t], t, entry[t].run)
<1> DEFINE e == entry[t]
<1>1. /\ entry \in [Tunnels -> Entries] /\ e \in Entries /\ starts[t] \in Nat
      /\ sup \in [Tunnels -> [Runs -> Sups]] /\ fwds \in [1 .. started -> Fwds]
      /\ made \in Nat /\ started \in Nat /\ starts \in [Tunnels -> 0 .. MaxRuns]
  BY Types, TunnelsAssumption
<1>2. Off(e.kind) \in Entries
  BY <1>1, TunnelsAssumption DEF Off, Entries, Links
<1>3. OnlyRow(entry, en1, t, Off(e.kind))
  BY <1>1, <1>2, RowSet, Zenon
<1>4. OnlyStopped(fwds, fw1, started, e, t, e.run)
  BY <1>1, StoppedForwards, Zenon
<1>5. Fit(entry, starts, sup, fwds, started, session, open, made)
  BY DEF TunnelsInv
<1>6. CASE e.run # 0
  <2> DEFINE r == e.run
  <2>1. r \in Runs /\ r \in Nat /\ r # 0
    BY <1>1, <1>6, TunnelsAssumption DEF Entries, Runs
  <2>2. RunFits(e, starts[t], sup[t][r], fwds, started, t, r, session, open, made)
    BY <2>1, RunOf, Zenon
  <2>3. OnlySup(sup, su1, t, r, su1[t][r]) /\ StoppedKeeper(sup[t][r], su1[t][r])
    BY <1>1, <2>1, StoppedKeepers, Zenon
  <2>4. RunFits(Off(e.kind), starts[t], su1[t][r], fw1, started, t, r, session, open, made)
    <3>1. r = e.run
      OBVIOUS
    <3> HIDE DEF e, r
    <3>2. OnlyStopped(fwds, fw1, started, e, t, r)
      BY <1>4, <3>1
    <3>3. QED
      BY <1>1, <2>1, <2>2, <2>3, <3>1, <3>2, HaltRun, Zenon
  <2>5. RunFits(en1[t], starts[t], su1[t][r], fw1, started, t, r, session, open, made)
    BY <1>3, <2>4 DEF OnlyRow
  <2>6. OnlyRun(entry, starts, sup, en1, starts, su1, t, r)
    BY <1>3, <2>3 DEF OnlyRow, OnlySup, OnlyRun, Off
  <2>7. ForwardsOf(fwds, started, fw1, started, t, r)
    <3>1. \A m \in 1 .. started : /\ fw1[m].t = fwds[m].t /\ fw1[m].r = fwds[m].r
                                  /\ ~Of(fwds[m], t, r) => fw1[m] = fwds[m]
      BY <1>4, Zenon DEF OnlyStopped
    <3>2. started <= started /\ \A m \in 1 .. started : ~(m > started)
      BY <1>1
    <3>3. QED
      BY <3>1, <3>2, Zenon DEF ForwardsOf
  <2>8. NoneReopened(open, made, open) /\ ConnOf(open, sup[t][r], open, su1[t][r], session)
    BY <2>3, NothingOpened DEF StoppedKeeper
  <2>9. Typed(en1, starts, su1, fw1, started, session, open, made) /\ made <= made
    BY <1>3, <1>4, <2>3, <1>5 DEF OnlyRow, OnlyStopped, OnlySup, Fit, Typed
  <2> HIDE DEF e, r
  <2>10. Fit(en1, starts, su1, fw1, started, session, open, made)
    BY <1>5, <2>1, <2>5, <2>6, <2>7, <2>8, <2>9, RunStep, Zenon
  <2> USE DEF e
  <2>11. QED
    BY <1>3, <1>4, <2>10
<1>7. CASE e.run = 0
  <2>1. su1 = sup
    BY <1>7 DEF SupStopped, StoppedSup
  <2>2. fw1 = fwds
    <3>1. \A m \in 1 .. started : ~Of(fwds[m], t, e.run)
      <4> SUFFICES ASSUME NEW m \in 1 .. started PROVE fwds[m].r # 0
        BY <1>7 DEF Of
      <4>1. fwds[m].r \in Runs
        BY <1>1 DEF Fwds
      <4>2. QED
        BY <4>1 DEF Runs
    <3>2. \A m \in 1 .. started : fw1[m] = fwds[m]
      BY <1>4, <3>1 DEF OnlyStopped
    <3>3. fw1 \in [1 .. started -> Fwds]
      BY <1>4 DEF OnlyStopped
    <3>4. QED
      BY <1>1, <3>2, <3>3
  <2>3. q \in Runs /\ q # 0
    BY DEF Runs
  <2>4. RunFits(e, starts[t], sup[t][q], fwds, started, t, q, session, open, made)
    BY <2>3, RunOf, Zenon
  <2>5. RunFits(Off(e.kind), starts[t], sup[t][q], fwds, started, t, q, session, open, made)
    <3> HIDE DEF e
    <3>1. QED
      BY <1>1, <1>7, <2>3, <2>4, HaltNone, Zenon
  <2>6. RunFits(en1[t], starts[t], su1[t][q], fw1, started, t, q, session, open, made)
    BY <1>3, <2>1, <2>2, <2>5 DEF OnlyRow
  <2>7. OnlyRun(entry, starts, sup, en1, starts, su1, t, q)
    BY <1>3, <1>7, <2>1 DEF OnlyRow, OnlyRun, Off
  <2>8. ForwardsOf(fwds, started, fw1, started, t, q)
    BY <1>1, <2>2 DEF ForwardsOf
  <2>9. NoneReopened(open, made, open) /\ ConnOf(open, sup[t][q], open, su1[t][q], session)
    BY <2>1, NothingOpened
  <2>10. Typed(en1, starts, su1, fw1, started, session, open, made) /\ made <= made
    BY <1>3, <2>1, <2>2, <1>5 DEF OnlyRow, Fit, Typed
  <2>11. Fit(en1, starts, su1, fw1, started, session, open, made)
    BY <1>5, <2>3, <2>6, <2>7, <2>8, <2>9, <2>10, RunStep, Zenon
  <2>12. QED
    BY <1>3, <1>4, <2>11
<1>8. QED
  BY <1>6, <1>7

LEMMA SwitchOffStep ==
    ASSUME TunnelsInv, NEW t \in Tunnels, SwitchOff(t)
    PROVE  TunnelsInv'
<1>1. entry[t] \in Entries /\ RowFits(entry[t], starts[t]) /\ entry[t].on
  BY Types DEF TunnelsInv, Fit, RowsFit, SwitchOff
<1>2. entry[t].run \in Runs
  BY <1>1, TunnelsAssumption DEF RowFits, Entries, Runs
<1>3. /\ RowTo(entry, entry', t, Off(entry[t].kind))
      /\ SupStopped(sup, sup', t, entry[t].run) /\ FwdsStopped(fwds, fwds', t, entry[t].run)
  BY DEF SwitchOff, RowTo, SupStopped, FwdsStopped
<1>4. Fit(entry', starts, sup', fwds', started, session, open, made)
  BY <1>2, <1>3, HaltStep, Zenon
<1>5. UNCHANGED <<starts, started, session, open, made>>
  BY DEF SwitchOff
<1>6. QED
  BY <1>4, <1>5 DEF TunnelsInv

StartedRow(kind, r, link, e) ==
    /\ e.kind = kind /\ e.on = TRUE /\ e.run = r /\ e.link = link /\ e.listening = FALSE
    /\ e.waiting = FALSE /\ e.failed = FALSE /\ e.ask = 0

NewKeeper(at, s) == s.at = at /\ s.stop = FALSE /\ s.conn = 0 /\ s.seen = 0 /\ s.fwd = 0

(* A new run without a forward: a follower, or one that ended at once.       *)
LEMMA EmptyRun ==
    ASSUME NEW e, NEW st, NEW s, NEW fw, NEW nf, NEW t, NEW r, NEW c, NEW o, NEW mk,
           st \in Nat, r = st, r # 0, mk \in Nat, c = 0 => c \notin o,
           NEW kind, NEW link, NEW at, StartedRow(kind, r, link, e), NewKeeper(at, s),
           \/ kind.tied /\ link = "none" /\ at = "tied"
           \/ ~kind.tied /\ link = "ended" /\ at = "none",
           \A m \in 1 .. nf : ~Of(fw[m], t, r)
    PROVE  RunFits(e, st, s, fw, nf, t, r, c, o, mk)
<1>1. RowFits(e, st)
  BY DEF RowFits, StartedRow
<1>2. KeeperFits(e, st, r, s, mk)
  BY DEF KeeperFits, StartedRow, NewKeeper
<1>3. FollowerFits(e, st, r, s, c, o)
  BY DEF FollowerFits, StartedRow, NewKeeper
<1>4. s.fwd = 0 /\ (~e.kind.tied => s.at = "none")
  BY DEF StartedRow, NewKeeper
<1>5. QED
  BY <1>1, <1>2, <1>3, <1>4 DEF RunFits

(* A new run with its forward.                                               *)
LEMMA BegunRun ==
    ASSUME NEW e, NEW st, NEW s, NEW fw, NEW nf, NEW t, NEW r, NEW c, NEW o, NEW mk,
           st \in Nat, r = st, r # 0, mk \in Nat, nf \in Nat, nf # 0,
           NEW kind, StartedRow(kind, r, "none", e), NewKeeper("begin", s), ~kind.tied,
           fw[nf] = NewForward(t, r), \A m \in 1 .. nf : Of(fw[m], t, r) => m = nf
    PROVE  RunFits(e, st, s, fw, nf, t, r, c, o, mk)
<1> DEFINE v == fw[nf]
<1>0. ~e.kind.tied
  BY DEF StartedRow
<1>1. RowFits(e, st)
  BY DEF RowFits, StartedRow
<1>2. KeeperFits(e, st, r, s, mk)
  BY DEF KeeperFits, StartedRow, NewKeeper
<1>3. FollowerFits(e, st, r, s, c, o)
  BY <1>0 DEF FollowerFits
<1>4. /\ v.t = t /\ v.r = r /\ v.at = "start" /\ v.stop = FALSE /\ v.conn = 0 /\ v.seen = 0
      /\ v.done = FALSE /\ Of(v, t, r)
  BY DEF NewForward, Of
<1> HIDE DEF v
<1>5. ForwardFits(e, st, s, v, mk)
  <2>1. v.r <= st /\ v.seen <= mk /\ v.conn <= mk
    BY <1>4
  <2>2. v.stop = s.stop /\ s.at # "none"
    BY <1>4 DEF NewKeeper
  <2>3. v.at = "start"
    BY <1>4
  <2>4. QED
    BY <2>1, <2>2, <2>3 DEF ForwardFits
<1>6. OwnFits(e, s, v)
  BY <1>4 DEF OwnFits, Leaves
<1>7. TiedFits(e, s, nf, v, c, o)
  BY <1>0 DEF TiedFits
<1>8. AllFits(e, st, s, nf, v, c, o, mk)
  BY <1>5, <1>6, <1>7 DEF AllFits
<1>9. s.fwd = 0 /\ nf \in 1 .. nf
  BY DEF NewKeeper
<1> USE DEF v
<1>10. QED
  BY <1>1, <1>2, <1>3, <1>4, <1>8, <1>9 DEF RunFits

(* A step that starts run r of a tunnel that has none.                       *)
LEMMA StartStep ==
    ASSUME NEW en, NEW st, NEW su, NEW fw, NEW nf, NEW c, NEW o, NEW mk,
           Fit(en, st, su, fw, nf, c, o, mk), NEW t \in Tunnels, NEW r \in Runs,
           r = st[t] + 1, en[t].run = 0,
           NEW en2, NEW st2, NEW su2, NEW fw2, NEW nf2, NEW f, NEW v,
           OnlyRow(en, en2, t, f), st2 = [st EXCEPT ![t] = r], OnlySup(su, su2, t, r, v),
           f.kind = en[t].kind, f.run = r, v.conn = 0,
           nf2 \in 0 .. MaxForwards, fw2 \in [1 .. nf2 -> Fwds],
           ForwardsOf(fw, nf, fw2, nf2, t, r),
           RunFits(f, r, v, fw2, nf2, t, r, c, o, mk)
    PROVE  Fit(en2, st2, su2, fw2, nf2, c, o, mk)
<1>1. /\ st \in [Tunnels -> 0 .. MaxRuns] /\ mk \in Nat /\ mk \in 0 .. MaxConns
      /\ c \in 0 .. mk /\ o \in SUBSET (1 .. mk) /\ mk <= mk
  BY TunnelsAssumption DEF Fit, Typed
<1>2. /\ st2 \in [Tunnels -> 0 .. MaxRuns] /\ st2[t] = r
      /\ \A x \in Tunnels : x # t => st2[x] = st[x]
  <2>1. r \in 0 .. MaxRuns
    BY DEF Runs
  <2>2. QED
    BY <1>1, <2>1
<1>3. Typed(en2, st2, su2, fw2, nf2, c, o, mk)
  BY <1>1, <1>2 DEF Typed, OnlyRow, OnlySup
<1>4. OnlyRun(en, st, su, en2, st2, su2, t, r)
  BY <1>2 DEF OnlyRun, OnlyRow, OnlySup
<1>5. RunFits(en2[t], st2[t], su2[t][r], fw2, nf2, t, r, c, o, mk)
  BY <1>2 DEF OnlyRow, OnlySup
<1>6. NoneReopened(o, mk, o) /\ ConnOf(o, su[t][r], o, su2[t][r], c)
  <2>1. su[t][r].conn = 0
    <3>1. KeeperFits(en[t], st[t], r, su[t][r], mk)
      BY DEF Fit, KeepersFit
    <3>2. r > st[t]
      BY <1>1, TunnelsAssumption
    <3>3. QED
      BY <3>1, <3>2 DEF KeeperFits, NoSup
  <2>2. su2[t][r].conn = 0
    BY DEF OnlySup
  <2>3. QED
    BY <2>1, <2>2, NothingOpened
<1>7. QED
  BY <1>1, <1>3, <1>4, <1>5, <1>6, RunStep, Zenon

LEMMA StartRunStep ==
    ASSUME TunnelsInv, NEW t \in Tunnels, StartRun(t), UNCHANGED <<session, open, made>>
    PROVE  TunnelsInv'
<1> DEFINE r == starts[t] + 1
           kind == entry[t].kind
           en1 == [entry EXCEPT ![t] = Off(kind)]
           su1 == StoppedSup(sup, t, entry[t].run)
           fw1 == StoppedFwds(fwds, t, entry[t].run)
           new == [Off(kind) EXCEPT !.on = TRUE, !.run = r]
           gone == [new EXCEPT !.link = "ended"]
<1>1. /\ entry \in [Tunnels -> Entries] /\ entry[t] \in Entries /\ starts[t] \in Nat
      /\ fwds \in [1 .. started -> Fwds] /\ started \in Nat /\ started \in 0 .. MaxForwards
      /\ starts[t] \in 0 .. MaxRuns /\ made \in Nat /\ session \in 0 .. made
      /\ open \in SUBSET (1 .. made)
  BY Types, TunnelsAssumption
<1>2. r \in Runs /\ r \in Nat /\ r # 0 /\ r \in 0 .. MaxRuns /\ starts' = [starts EXCEPT ![t] = r]
  BY <1>1, TunnelsAssumption DEF StartRun, Runs
<1>3. /\ RowTo(entry, en1, t, Off(kind)) /\ SupStopped(sup, su1, t, entry[t].run)
      /\ FwdsStopped(fwds, fw1, t, entry[t].run)
  BY DEF RowTo, SupStopped, FwdsStopped
<1>4. kind \in Kinds /\ Off(kind).kind = kind /\ Off(kind).run = 0
  BY <1>1 DEF Off, Entries
<1>5. new \in Entries /\ StartedRow(kind, r, "none", new)
  <2>1. 0 \in 0 .. MaxRuns
    BY TunnelsAssumption
  <2>2. QED
    BY <1>2, <1>4, <2>1 DEF Off, Entries, Links, StartedRow
<1>6. gone \in Entries /\ StartedRow(kind, r, "ended", gone)
  BY <1>5 DEF Entries, Links, StartedRow
<1>7. /\ Tied(t) <=> kind.tied
      /\ \/ /\ kind.tied /\ RowTo(entry, entry', t, new) /\ SetTo(su1, sup', t, r, [su1[t][r] EXCEPT !.at = "tied"])
            /\ UNCHANGED <<fwds, started>>
         \/ /\ ~kind.tied /\ started < MaxForwards /\ RowTo(entry, entry', t, new)
            /\ SetTo(su1, sup', t, r, [su1[t][r] EXCEPT !.at = "begin"])
            /\ started' = started + 1 /\ AddTo(fw1, fwds', NewForward(t, r))
         \/ /\ ~kind.tied /\ RowTo(entry, entry', t, gone) /\ sup' = su1 /\ fwds' = fw1
            /\ UNCHANGED started
  BY DEF StartRun, Tied, RowTo, SetTo, AddTo
<1> HIDE DEF r, kind, en1, su1, fw1, new, gone
<1>8. /\ Fit(en1, starts, su1, fw1, started, session, open, made)
      /\ OnlyRow(entry, en1, t, Off(kind))
      /\ OnlyStopped(fwds, fw1, started, entry[t], t, entry[t].run)
  BY <1>2, <1>3, HaltStep, Zenon DEF kind
<1>9. /\ en1[t].kind = kind /\ en1[t].run = 0
      /\ su1 \in [Tunnels -> [Runs -> Sups]] /\ fw1 \in [1 .. started -> Fwds]
  BY <1>4, <1>8 DEF OnlyRow, OnlyStopped, Fit, Typed
<1>10. su1[t][r] = NoSup /\ r > starts[t]
  <2>1. KeeperFits(en1[t], starts[t], r, su1[t][r], made)
    BY <1>2, <1>8 DEF Fit, KeepersFit
  <2>2. r > starts[t]
    BY <1>1 DEF r
  <2>3. QED
    BY <2>1, <2>2 DEF KeeperFits
<1>11. \A m \in 1 .. started : ~Of(fw1[m], t, r)
  <2> SUFFICES ASSUME NEW m \in 1 .. started, Of(fw1[m], t, r) PROVE FALSE
    OBVIOUS
  <2>1. fw1[m].r <= starts[t]
    BY <1>8 DEF Fit, ForwardsFit, AllFits, ForwardFits, Of
  <2>2. QED
    BY <1>1, <1>2, <1>10, <2>1 DEF Of
<1>12. ASSUME NEW f, f \in Entries, RowTo(entry, entry', t, f)
       PROVE  OnlyRow(en1, entry', t, f)
  <2>1. OnlyRow(entry, entry', t, f)
    BY <1>1, <1>12, RowSet, Zenon
  <2>2. QED
    BY <1>8, <2>1, Zenon DEF OnlyRow
<1>13. ASSUME NEW at, at \in {"tied", "begin"}, SetTo(su1, sup', t, r, [su1[t][r] EXCEPT !.at = at])
       PROVE  OnlySup(su1, sup', t, r, sup'[t][r]) /\ NewKeeper(at, sup'[t][r])
  <2> DEFINE v == [su1[t][r] EXCEPT !.at = at]
  <2>1. v \in Sups /\ NewKeeper(at, v)
    <3> DEFINE s == su1[t][r]
    <3>1. s \in Sups
      BY <1>2, <1>9
    <3>2. s.stop = FALSE /\ s.conn = 0 /\ s.seen = 0 /\ s.fwd = 0
      BY <1>10 DEF NoSup
    <3> HIDE DEF s
    <3>3. [s EXCEPT !.at = at] \in Sups /\ NewKeeper(at, [s EXCEPT !.at = at])
      BY <1>13, <3>1, <3>2 DEF Sups, NewKeeper
    <3>4. QED
      BY <3>3 DEF s
  <2>2. SetTo(su1, sup', t, r, v)
    BY <1>13
  <2> HIDE DEF v
  <2>3. OnlySup(su1, sup', t, r, v)
    BY <1>2, <1>9, <2>1, <2>2, SupSet, Zenon
  <2>4. sup'[t][r] = v
    BY <2>3 DEF OnlySup
  <2>5. QED
    BY <2>1, <2>3, <2>4
<1>14. session = 0 => session \notin open
  BY <1>1
<1>15. r = starts[t] + 1
  BY DEF r
<1>16. CASE /\ kind.tied /\ RowTo(entry, entry', t, new)
            /\ SetTo(su1, sup', t, r, [su1[t][r] EXCEPT !.at = "tied"])
            /\ UNCHANGED <<fwds, started>>
  <2>1. OnlyRow(en1, entry', t, new)
    BY <1>5, <1>12, <1>16, Zenon
  <2>2. OnlySup(su1, sup', t, r, sup'[t][r]) /\ NewKeeper("tied", sup'[t][r])
    BY <1>13, <1>16
  <2>3. fwds = fw1
    <3>1. \A m \in 1 .. started : fw1[m] = fwds[m]
      BY <1>8, <1>16 DEF OnlyStopped, kind
    <3>2. QED
      BY <1>1, <1>9, <3>1
  <2>4. RunFits(new, r, sup'[t][r], fw1, started, t, r, session, open, made)
    <3>1. \/ kind.tied /\ "none" = "none" /\ "tied" = "tied"
          \/ ~kind.tied /\ "none" = "ended" /\ "tied" = "none"
      BY <1>16
    <3>2. r = r
      OBVIOUS
    <3>3. QED
      BY <1>1, <1>2, <1>5, <1>11, <1>14, <2>2, <3>1, <3>2, EmptyRun, Zenon
  <2>5. ForwardsOf(fw1, started, fw1, started, t, r)
    BY <1>1, <1>9 DEF ForwardsOf
  <2>6. new.kind = en1[t].kind /\ new.run = r /\ sup'[t][r].conn = 0
    BY <1>5, <1>9, <2>2 DEF StartedRow, NewKeeper
  <2>7. Fit(entry', starts', sup', fw1, started, session, open, made)
    BY <1>1, <1>2, <1>8, <1>9, <1>15, <2>1, <2>2, <2>4, <2>5, <2>6, StartStep, Zenon
  <2>8. QED
    BY <1>16, <2>3, <2>7 DEF TunnelsInv
<1>17. CASE /\ ~kind.tied /\ started < MaxForwards /\ RowTo(entry, entry', t, new)
            /\ SetTo(su1, sup', t, r, [su1[t][r] EXCEPT !.at = "begin"])
            /\ started' = started + 1 /\ AddTo(fw1, fwds', NewForward(t, r))
  <2>1. OnlyRow(en1, entry', t, new)
    BY <1>5, <1>12, <1>17, Zenon
  <2>2. OnlySup(su1, sup', t, r, sup'[t][r]) /\ NewKeeper("begin", sup'[t][r])
    BY <1>13, <1>17
  <2>3. NewForward(t, r) \in Fwds /\ Of(NewForward(t, r), t, r)
    BY <1>2, NewOf
  <2>4. Added(fw1, fwds', started, NewForward(t, r))
    BY <1>1, <1>9, <1>17, <2>3, Adds, Zenon
  <2>5. /\ started' \in 0 .. MaxForwards /\ started' \in Nat /\ started' # 0 /\ started <= started'
        /\ \A m \in 1 .. started' : m \in 1 .. started \/ m = started'
        /\ \A m \in 1 .. started' : m > started => m = started'
    <3>1. started' = started + 1 /\ started < MaxForwards
      BY <1>17
    <3>2. MaxForwards \in Nat
      BY TunnelsAssumption
    <3>3. QED
      BY <1>1, <3>1, <3>2
  <2>6. /\ fwds' \in [1 .. started' -> Fwds] /\ fwds'[started'] = NewForward(t, r)
        /\ \A m \in 1 .. started : fwds'[m] = fw1[m]
    BY <1>17, <2>4 DEF Added
  <2>7. \A m \in 1 .. started' : Of(fwds'[m], t, r) => m = started'
    BY <1>11, <2>5, <2>6
  <2>8. RunFits(new, r, sup'[t][r], fwds', started', t, r, session, open, made)
    <3>1. r = r
      OBVIOUS
    <3>2. QED
      BY <1>1, <1>2, <1>5, <1>17, <2>2, <2>5, <2>6, <2>7, <3>1, BegunRun, Zenon
  <2>9. ForwardsOf(fw1, started, fwds', started', t, r)
    BY <2>3, <2>5, <2>6 DEF ForwardsOf
  <2>10. new.kind = en1[t].kind /\ new.run = r /\ sup'[t][r].conn = 0
    BY <1>5, <1>9, <2>2 DEF StartedRow, NewKeeper
  <2>11. Fit(entry', starts', sup', fwds', started', session, open, made)
    BY <1>1, <1>2, <1>8, <1>9, <1>15, <2>1, <2>2, <2>5, <2>6, <2>8, <2>9, <2>10, StartStep, Zenon
  <2>12. QED
    BY <1>17, <2>11 DEF TunnelsInv
<1>18. CASE /\ ~kind.tied /\ RowTo(entry, entry', t, gone) /\ sup' = su1 /\ fwds' = fw1
            /\ UNCHANGED started
  <2>1. OnlyRow(en1, entry', t, gone)
    BY <1>6, <1>12, <1>18, Zenon
  <2>2. OnlySup(su1, su1, t, r, NoSup) /\ NewKeeper("none", NoSup)
    BY <1>9, <1>10 DEF OnlySup, NewKeeper, NoSup
  <2>3. RunFits(gone, r, NoSup, fw1, started, t, r, session, open, made)
    <3>1. \/ kind.tied /\ "ended" = "none" /\ "none" = "tied"
          \/ ~kind.tied /\ "ended" = "ended" /\ "none" = "none"
      BY <1>18
    <3>2. r = r
      OBVIOUS
    <3>3. QED
      BY <1>1, <1>2, <1>6, <1>11, <1>14, <2>2, <3>1, <3>2, EmptyRun, Zenon
  <2>4. ForwardsOf(fw1, started, fw1, started, t, r)
    BY <1>1, <1>9 DEF ForwardsOf
  <2>5. gone.kind = en1[t].kind /\ gone.run = r /\ NoSup.conn = 0
    BY <1>6, <1>9 DEF StartedRow, NoSup
  <2>6. Fit(entry', starts', su1, fw1, started, session, open, made)
    BY <1>1, <1>2, <1>8, <1>9, <1>15, <2>1, <2>2, <2>3, <2>4, <2>5, StartStep, Zenon
  <2>7. QED
    BY <1>18, <2>6 DEF TunnelsInv
<1>19. QED
  BY <1>7, <1>16, <1>17, <1>18

-----------------------------------------------------------------------------
LEMMA LoseConnStep ==
    ASSUME TunnelsInv, NEW c, Lose(c)
    PROVE  TunnelsInv'
<1>1. Fit(entry, starts, sup, fwds, started, session, open, made) /\ open' \subseteq open
  BY DEF TunnelsInv, Lose
<1>2. Fit(entry, starts, sup, fwds, started, session, open', made)
  BY <1>1, LoseStep, Zenon
<1>3. QED
  BY <1>2 DEF TunnelsInv, Lose

LEMMA SessionUpStep ==
    ASSUME TunnelsInv, SessionUp
    PROVE  TunnelsInv'
<1>1. Fit(entry, starts, sup, fwds, started, session, open, made)
  BY DEF TunnelsInv
<1>2. /\ fwds \in [1 .. started -> Fwds] /\ made \in Nat /\ made < MaxConns /\ session = 0
      /\ open \in SUBSET (1 .. made) /\ made' = made + 1 /\ session' = made + 1
      /\ open' = open \cup {made + 1} /\ UNCHANGED <<entry, starts, sup, fwds, started>>
  BY Types DEF SessionUp
<1>3. /\ Typed(entry, starts, sup, fwds, started, session', open', made') /\ made <= made'
      /\ NoneReopened(open, made, open') /\ session' > made
  <2>1. MaxConns \in Nat
    BY TunnelsAssumption
  <2>2. made' \in 0 .. MaxConns /\ session' \in 0 .. made' /\ open' \subseteq 1 .. made'
    BY <1>2, <2>1
  <2>3. Typed(entry, starts, sup, fwds, started, session', open', made')
    BY <2>2, <1>1 DEF Fit, Typed
  <2>4. QED
    BY <1>2, <2>3 DEF NoneReopened
<1>4. OpenUsed(sup, session', open')
  <2>1. OpenUsed(sup, session, open) /\ session \notin open
    BY <1>1, <1>2 DEF Fit
  <2>2. QED
    BY <1>2, <2>1 DEF OpenUsed
<1>5. /\ \A n \in 1 .. started : fwds[n].at \notin Opening
      /\ \A t \in Tunnels, r \in Runs : sup[t][r].at = "tied" => ~sup[t][r].stop
  BY <1>2 DEF SessionUp, Opening
<1>6. Fit(entry, starts, sup, fwds, started, session', open', made')
  BY <1>1, <1>3, <1>4, <1>5, SessionStep, Zenon
<1>7. QED
  BY <1>2, <1>6 DEF TunnelsInv

LEMMA SessionGoneStep ==
    ASSUME TunnelsInv, SessionGone
    PROVE  TunnelsInv'
<1>1. Fit(entry, starts, sup, fwds, started, session, open, made)
  BY DEF TunnelsInv
<1>2. /\ made \in Nat /\ open \in SUBSET (1 .. made) /\ session' = 0 /\ session \notin open
      /\ UNCHANGED <<entry, starts, sup, fwds, started, open, made>>
  BY Types DEF SessionGone
<1>3. /\ Typed(entry, starts, sup, fwds, started, session', open, made) /\ made <= made
      /\ NoneReopened(open, made, open) /\ session' \notin open
  BY <1>1, <1>2 DEF Fit, Typed, NoneReopened
<1>4. OpenUsed(sup, session', open)
  BY <1>1, <1>2 DEF Fit, OpenUsed
<1>5. Fit(entry, starts, sup, fwds, started, session', open, made)
  BY <1>1, <1>3, <1>4, SessionStep, Zenon
<1>6. QED
  BY <1>2, <1>5 DEF TunnelsInv

LEMMA TunnelsStutter ==
    ASSUME TunnelsInv, UNCHANGED tunnelVars
    PROVE  TunnelsInv'
<1>1. UNCHANGED <<entry, starts, sup, fwds, started, session, open, made>>
  BY DEF tunnelVars
<1>2. QED
  BY <1>1 DEF TunnelsInv

(* The tunnels as settings and tasks: every step of a user, a keeper, a      *)
(* follower, a forward, the network or a session keeps rows, keepers,        *)
(* forwards and connections in agreement.                                    *)
THEOREM TunnelsInductive == TunnelsSpec => []TunnelsInv
<1>1. TunnelsInit => TunnelsInv
  BY TunnelsInitInv
<1>2. ASSUME TunnelsInv, [TunnelsNext]_tunnelVars
      PROVE  TunnelsInv'
  <2>1. ASSUME NEW t \in Tunnels, SwitchOn(t) PROVE TunnelsInv'
    <3>1. StartRun(t) /\ UNCHANGED <<session, open, made>>
      BY <2>1 DEF SwitchOn
    <3>2. QED
      BY <1>2, <3>1, StartRunStep, Zenon
  <2>2. ASSUME NEW t \in Tunnels, Change(t) PROVE TunnelsInv'
    <3>1. StartRun(t) /\ UNCHANGED <<session, open, made>>
      BY <2>2 DEF Change
    <3>2. QED
      BY <1>2, <3>1, StartRunStep, Zenon
  <2>3. ASSUME NEW t \in Tunnels, SwitchOff(t) PROVE TunnelsInv'
    BY <1>2, <2>3, SwitchOffStep, Zenon
  <2>4. ASSUME NEW t \in Tunnels, NEW cancel \in BOOLEAN, Answer(t, cancel) PROVE TunnelsInv'
    BY <1>2, <2>4, AnswerStep, Zenon
  <2>5. ASSUME NEW t \in Tunnels, NEW r \in Runs, Keeper(t, r) PROVE TunnelsInv'
    BY <1>2, <2>5, ConnectingStep, ConnectedStep, LossNoticedStep, KeeperStopsStep, TiedLooksStep,
       TiedStopsStep, Zenon DEF Keeper
  <2>6. ASSUME NEW t \in Tunnels, NEW r \in Runs, ConnectFails(t, r) PROVE TunnelsInv'
    BY <1>2, <2>6, ConnectFailsStep, Zenon
  <2>7. ASSUME NEW t \in Tunnels, NEW r \in Runs, Question(t, r) PROVE TunnelsInv'
    BY <1>2, <2>7, QuestionStep, Zenon
  <2>8. ASSUME NEW n \in Forwards, Forward(n) PROVE TunnelsInv'
    <3>1. ListenStops(n) => n \in DOMAIN fwds
      BY DEF ListenStops, At
    <3>2. Unregistered(n) => n \in DOMAIN fwds
      BY DEF Unregistered, At
    <3>3. QED
      BY <1>2, <2>8, <3>1, <3>2, ListenStep, BoundStep, ListenStopsStep, LookStep, RegisteredStep,
         RegisterFailsStep, UnregisteredStep, Zenon DEF Forward
  <2>9. ASSUME NEW n \in Forwards, NEW done \in BOOLEAN, Wake(n, done) PROVE TunnelsInv'
    BY <1>2, <2>9, WakeStep, Zenon
  <2>10. ASSUME NEW c \in Conns, Lose(c) PROVE TunnelsInv'
    BY <1>2, <2>10, LoseConnStep, Zenon
  <2>11. CASE SessionUp
    BY <1>2, <2>11, SessionUpStep, Zenon
  <2>12. CASE SessionGone
    BY <1>2, <2>12, SessionGoneStep, Zenon
  <2>13. CASE UNCHANGED tunnelVars
    BY <1>2, <2>13, TunnelsStutter, Zenon
  <2>14. QED
    BY <1>2, <2>1, <2>2, <2>3, <2>4, <2>5, <2>6, <2>7, <2>8, <2>9, <2>10, <2>11, <2>12, <2>13,
       Zenon DEF TunnelsNext
<1>3. QED
  BY <1>1, <1>2, PTL DEF TunnelsSpec

(* Whenever the tasks of a tunnel have settled, its row says running exactly *)
(* when a forward of its current run listens, and one that is off has left   *)
(* no forward and no connection behind (tunnels.rs, tunnel/mod.rs).          *)
THEOREM TunnelsSettleTrue == TunnelsSpec => []TunnelsTrue
<1>1. TunnelsInv => TunnelsTrue
  BY InvShows, InvLeaves DEF TunnelsTrue
<1>2. QED
  BY <1>1, TunnelsInductive, PTL
=============================================================================
