------------------------------ MODULE MCShared ------------------------------
(***************************************************************************)
(* Small instances of what several actors share: hosts.toml between two    *)
(* instances, and a tunnel between its tasks, its connection and the user. *)
(* `part` says which of the two a behaviour runs; the other one's          *)
(* variables stay as they are at first.                                    *)
(***************************************************************************)
EXTENDS SettingsSync, Tunnels, TLC

CONSTANTS Parts

VARIABLE part

\* Each of two instances edits a record of its own; nobody edits the third, so
\* the list is never empty.
Editors == ("a" :> "i1") @@ ("b" :> "i2") @@ ("kept" :> "nobody")
ThreeHosts == {Missing, ("a" :> 1) @@ ("b" :> Absent) @@ ("kept" :> 1)}

\* Without the third record.
TwoEditors == ("a" :> "i1") @@ ("b" :> "i2")
OneHost == {("a" :> 1) @@ ("b" :> Absent)}

\* Every kind of tunnel (reconnect is not looked at in a tied one).
AnyKind ==
    {kind \in [tied : BOOLEAN, remote : BOOLEAN, reconnect : BOOLEAN] :
        kind.tied => kind.reconnect}
OneAddress == [t \in Tunnels |-> "127.0.0.1:8080"]

Vars == <<part, vars, tunnelVars>>

MCInit ==
    /\ part \in Parts
    /\ Init /\ TunnelsInit
    /\ part # "files" => first = Missing
    /\ part # "tunnels" => \A t \in Tunnels : entry[t].kind = CHOOSE kind \in Kinds : TRUE

File(act) == part = "files" /\ act /\ UNCHANGED <<part, tunnelVars>>
Tunnel(act) == part = "tunnels" /\ act /\ UNCHANGED <<part, vars>>

MCNext == File(Next) \/ Tunnel(TunnelsNext)

\* The fairness each module states for itself: the writer threads run; so do the
\* tasks of a tunnel and both branches of its select, the user answers and the
\* terminal reconnects.  Only one part's disjunct is ever enabled.
FairMCSpec ==
    /\ MCInit /\ [][MCNext]_Vars
    /\ WF_Vars(File(Receive("i1")) \/ Tunnel(Keeper(1, 1)))
    /\ WF_Vars(File(Debounced("i1")) \/ Tunnel(Keeper(1, 2)))
    /\ WF_Vars(File(WriteAsGiven("i1") \/ Rename("i1") \/ WriteFails("i1")) \/ Tunnel(Forward(1)))
    /\ WF_Vars(File(LockAndRead("i1")) \/ Tunnel(Forward(2)))
    /\ WF_Vars(File(Remember("i1") \/ DirSyncFailed("i1")) \/ Tunnel(Wake(1, FALSE)))
    /\ WF_Vars(File(Receive("i2")) \/ Tunnel(Wake(2, FALSE)))
    /\ WF_Vars(File(Debounced("i2")) \/ Tunnel(Answer(1, FALSE)))
    /\ WF_Vars(File(WriteAsGiven("i2") \/ Rename("i2") \/ WriteFails("i2")) \/ Tunnel(SessionUp))
    /\ WF_Vars(File(LockAndRead("i2")) \/ Tunnel(SessionGone))
    /\ WF_Vars(File(Remember("i2") \/ DirSyncFailed("i2")))
    /\ SF_Vars(Tunnel(Wake(1, TRUE))) /\ SF_Vars(Tunnel(Wake(2, TRUE)))
=============================================================================
