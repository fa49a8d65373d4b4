--------------------------- MODULE BackendContract ---------------------------
(***************************************************************************)
(* What the terminal engine relies on from any backend                     *)
(* (opensesh-term/src/backend.rs, BackendEvent): a bounded channel carries *)
(* output and messages, at most one Exited, nothing after it, and then     *)
(* the channel closes.  The engine takes events in order and may go away,  *)
(* after which nothing is heard.                                           *)
(***************************************************************************)
EXTENDS Naturals, Sequences

CONSTANT QueueMax

VARIABLES queue,  \* events in flight
          phase,  \* "open", "exited" (Exited was sent), "closed"
          heard   \* the engine still receives

contractVars == <<queue, phase, heard>>

CInit == queue = <<>> /\ phase = "open" /\ heard = TRUE

Emit ==
    /\ phase = "open" /\ heard /\ Len(queue) < QueueMax
    /\ queue' = Append(queue, "output")
    /\ UNCHANGED <<phase, heard>>

Exit ==
    /\ phase = "open"
    /\ phase' = "exited"
    /\ IF heard THEN Len(queue) < QueueMax /\ queue' = Append(queue, "exited")
       ELSE UNCHANGED queue
    /\ UNCHANGED heard

\* The last sender is dropped: some backends close without an Exited.
CloseChannel ==
    /\ phase # "closed" /\ phase' = "closed" /\ UNCHANGED <<queue, heard>>

Take == heard /\ queue # <<>> /\ queue' = Tail(queue) /\ UNCHANGED <<phase, heard>>

Leave == heard /\ heard' = FALSE /\ queue' = <<>> /\ UNCHANGED phase

CNext == Emit \/ Exit \/ CloseChannel \/ Take \/ Leave

CSpec == CInit /\ [][CNext]_contractVars
=============================================================================
