----------------------------- MODULE RemoteEdit -----------------------------
(***************************************************************************)
(* A remote file being edited (bridge/transfers.rs, app/src/sftp.rs): its  *)
(* copy is downloaded, watched, and uploaded each time the editor saves    *)
(* it.  The work runs on the SSH runtime in steps; between two steps other *)
(* people may change the server's file, the user may save again, answer a  *)
(* dialog or stop, and the connection may drop.                            *)
(*                                                                         *)
(* Contents are numbers, a new one for each save or change; a stamp is the *)
(* modification time and size the server tells.  A change by others may    *)
(* leave it as it was (another content of the same size in the same        *)
(* second); it does not come back to an earlier one.                       *)
(***************************************************************************)
EXTENDS Naturals, FiniteSets

CONSTANTS
    None,
    Partial,     \* what a write that broke off leaves on the server
    MaxChanges,  \* bound: saves of the editor and changes by others
    MaxFailures  \* bound: steps that fail

VARIABLES
    server,      \* [content, stamp, refuses, ours]: the file on the server, whether it
                 \* refuses our uploads, and (history) whether we wrote it last
    copy,        \* the local copy, None when it is not there
    edit,        \* the Edit, None once stopped
    connected,   \* the pane has a file system
    jobs,        \* what runs on the runtime
    burst,       \* the watcher saw a change and waits for the burst to end
    posted,      \* calls of `saved` queued for the GUI thread
    dialog,      \* the questions open: "conflict", "denied"
    used,        \* contents given so far
    failures,    \* steps that failed so far
    foreign,     \* history: a change by others nobody here has seen, the stamp
                 \* shows and no upload's check was too early for
    discarded,   \* history: the user took the server's copy once
    blind        \* history: one of those was overwritten without asking

editVars == <<server, copy, edit, connected, jobs, burst, posted, dialog, used, failures, foreign, discarded, blind>>

\* struct Edit, and what runs for it.
NewEdit == [state |-> "downloading", known |-> None, watcher |-> FALSE, uploading |-> FALSE, again |-> FALSE]
Job(kind, step, known) == [kind |-> kind, step |-> step, known |-> known, bytes |-> None, stat |-> None]
Download(kind) == Job(kind, "stat", None)

\* `edit` has just been called on a pane: the download starts.
EInit ==
    /\ \E r \in BOOLEAN : server = [content |-> 1, stamp |-> 1, refuses |-> r, ours |-> FALSE]
    /\ copy = None
    /\ edit = NewEdit
    /\ connected = TRUE
    /\ jobs = {Download("open")}
    /\ burst = FALSE /\ posted = FALSE
    /\ dialog = {}
    /\ used = 1 /\ failures = 0
    /\ foreign = None /\ discarded = FALSE /\ blind = FALSE

Live == edit # None
Step(j, k) == jobs' = (jobs \ {j}) \cup {k}
Ends(j) == jobs' = jobs \ {j}
Fails == failures < MaxFailures /\ failures' = failures + 1

\* set_edit: nothing for an edit that was stopped; RemoteEditDialogs opens
\* the question of a conflict or a refusal, and "saved" closes a conflict's.
SetEdit(e, state) == IF e = None THEN None ELSE [e EXCEPT !.state = state]
Asks(state) ==
    CASE ~Live -> dialog
      [] state \in {"conflict", "denied"} -> dialog \cup {state}
      [] state = "saved" -> dialog \ {"conflict"}
      [] OTHER -> dialog

(***************************************************************************)
(* download                                                                *)
(***************************************************************************)
Downloads(j) == j \in jobs /\ j.kind \in {"open", "discard"}
DownloadStat(j) ==
    /\ Downloads(j) /\ j.step = "stat"
    /\ Step(j, [j EXCEPT !.step = "read", !.stat = server.stamp])
    /\ UNCHANGED <<server, copy, edit, connected, burst, posted, dialog, used, failures, foreign, discarded, blind>>
DownloadRead(j) ==
    /\ Downloads(j) /\ j.step = "read"
    /\ Step(j, [j EXCEPT !.step = "write", !.bytes = server.content])
    /\ foreign' = IF foreign = server.content THEN None ELSE foreign
    /\ UNCHANGED <<server, copy, edit, connected, burst, posted, dialog, used, failures, discarded, blind>>
\* The folder of the copy is gone with the edit: the write fails.
DownloadWrite(j) ==
    /\ Downloads(j) /\ j.step = "write"
    /\ Live
    /\ copy' = j.bytes
    /\ burst' = (burst \/ edit.watcher)
    /\ Step(j, [j EXCEPT !.step = "done"])
    /\ UNCHANGED <<server, edit, connected, posted, dialog, used, failures, foreign, discarded, blind>>
\* The closures of `edit` and of resolve_edit: known, watch, "watching".
DownloadDone(j) ==
    /\ Downloads(j) /\ j.step = "done"
    /\ edit' = IF Live THEN [edit EXCEPT !.known = j.stat, !.watcher = TRUE, !.state = "watching"] ELSE None
    /\ Ends(j)
    /\ UNCHANGED <<server, copy, connected, burst, posted, dialog, used, failures, foreign, discarded, blind>>
DownloadFails(j) ==
    /\ Downloads(j) /\ j.step # "done"
    /\ IF j.step = "write" /\ ~Live THEN UNCHANGED failures ELSE Fails
    /\ edit' = SetEdit(edit, "failed")
    /\ Ends(j)
    /\ UNCHANGED <<server, copy, connected, burst, posted, dialog, used, foreign, discarded, blind>>

(***************************************************************************)
(* Saves: the watcher's thread tells the GUI thread once a burst is over   *)
(***************************************************************************)
EditorSaves ==
    /\ Live /\ copy # None
    /\ used < MaxChanges
    /\ copy' = used + 1
    /\ used' = used + 1
    /\ burst' = (burst \/ edit.watcher)
    /\ UNCHANGED <<server, edit, connected, jobs, posted, dialog, failures, foreign, discarded, blind>>
WatcherTells ==
    /\ burst
    /\ burst' = FALSE
    /\ posted' = TRUE
    /\ UNCHANGED <<server, copy, edit, connected, jobs, dialog, used, failures, foreign, discarded, blind>>

\* upload_edit: one upload at a time; a save meanwhile uploads again.
StartsUpload(e, running, force) ==
    \/ /\ e = None \/ copy = None
       /\ edit' = e
       /\ jobs' = running /\ UNCHANGED dialog
    \/ /\ e # None /\ copy # None /\ ~connected
       /\ edit' = [e EXCEPT !.state = "failed"]
       /\ jobs' = running /\ UNCHANGED dialog
    \/ /\ e # None /\ copy # None /\ connected
       /\ edit' = [e EXCEPT !.state = "uploading", !.uploading = TRUE]
       /\ jobs' = running \cup {Job("upload", IF force THEN "read" ELSE "stat", e.known)}
       /\ UNCHANGED dialog
UploadEditForgets(force) ==
    IF Live /\ edit.uploading THEN UNCHANGED <<edit, jobs, dialog>> ELSE StartsUpload(edit, jobs, force)
UploadEdit(force) ==
    IF Live /\ edit.uploading
    THEN edit' = [edit EXCEPT !.again = TRUE] /\ UNCHANGED <<jobs, dialog>>
    ELSE StartsUpload(edit, jobs, force)

Saved ==
    /\ posted
    /\ posted' = FALSE
    /\ UploadEdit(FALSE)
    /\ UNCHANGED <<server, copy, connected, burst, used, failures, foreign, discarded, blind>>

(***************************************************************************)
(* upload                                                                  *)
(***************************************************************************)
Uploads(j) == j \in jobs /\ j.kind = "upload"
UploadStat(j) ==
    /\ Uploads(j) /\ j.step = "stat"
    /\ Step(j, [j EXCEPT !.step = IF server.stamp # j.known THEN "changed" ELSE "read"])
    /\ UNCHANGED <<server, copy, edit, connected, burst, posted, dialog, used, failures, foreign, discarded, blind>>
UploadRead(j) ==
    /\ Uploads(j) /\ j.step = "read"
    /\ Step(j, IF copy = None THEN [j EXCEPT !.step = "failed"] ELSE [j EXCEPT !.step = "write", !.bytes = copy])
    /\ UNCHANGED <<server, copy, edit, connected, burst, posted, dialog, used, failures, foreign, discarded, blind>>

\* Bytes reach the server's file, all of them or not.
Written(content, asked) ==
    /\ server' = [server EXCEPT !.content = content, !.stamp = @ + 1, !.ours = TRUE]
    /\ blind' = (blind \/ (foreign # None /\ foreign = server.content /\ ~asked))
    /\ foreign' = IF foreign = server.content THEN None ELSE foreign
\* An upload without `known` was forced: the user decided.
Forced(j) == j.known = None
UploadWrite(j) ==
    /\ Uploads(j) /\ j.step = "write"
    /\ \/ /\ server.refuses
          /\ Step(j, [j EXCEPT !.step = "denied"])
          /\ UNCHANGED <<server, failures, foreign, blind>>
       \/ /\ ~server.refuses
          /\ Written(j.bytes, Forced(j))
          /\ Step(j, [j EXCEPT !.step = "after"])
          /\ UNCHANGED failures
       \/ /\ ~server.refuses /\ Fails
          /\ Written(Partial, Forced(j))
          /\ Step(j, [j EXCEPT !.step = "failed"])
    /\ UNCHANGED <<copy, edit, connected, burst, posted, dialog, used, discarded>>
UploadAfter(j) ==
    /\ Uploads(j) /\ j.step = "after"
    /\ Step(j, [j EXCEPT !.step = "saved", !.stat = server.stamp])
    /\ UNCHANGED <<server, copy, edit, connected, burst, posted, dialog, used, failures, foreign, discarded, blind>>
UploadFails(j) ==
    /\ Uploads(j) /\ j.step \in {"stat", "read", "write", "after"}
    /\ Fails
    /\ Step(j, [j EXCEPT !.step = "failed"])
    /\ UNCHANGED <<server, copy, edit, connected, burst, posted, dialog, used, foreign, discarded, blind>>

\* The closure of upload_edit: what came out, then again if a save asked for it.
UploadDone(j) ==
    /\ Uploads(j) /\ j.step \in {"saved", "changed", "denied", "failed"}
    /\ LET state == IF j.step = "changed" THEN "conflict" ELSE j.step
           over == [edit EXCEPT !.uploading = FALSE, !.again = FALSE, !.state = state,
                                !.known = IF j.step = "saved" THEN j.stat ELSE @]
       IN IF ~Live THEN Ends(j) /\ UNCHANGED <<edit, dialog>>
          ELSE /\ dialog' = Asks(state)
               /\ IF edit.again /\ copy # None /\ connected
                  THEN /\ edit' = [over EXCEPT !.state = "uploading", !.uploading = TRUE]
                       /\ Step(j, Job("upload", "stat", over.known))
                  ELSE /\ edit' = IF edit.again /\ copy # None THEN [over EXCEPT !.state = "failed"] ELSE over
                       /\ Ends(j)
    /\ UNCHANGED <<server, copy, connected, burst, posted, used, failures, foreign, discarded, blind>>

(***************************************************************************)
(* What the user answers                                                   *)
(***************************************************************************)
\* resolve_edit.
Overwrite ==
    /\ "conflict" \in dialog
    /\ dialog' = dialog \ {"conflict"}
    /\ IF ~Live THEN UNCHANGED <<edit, jobs>>
       ELSE IF edit.uploading THEN edit' = [edit EXCEPT !.again = TRUE] /\ UNCHANGED jobs
       ELSE IF ~connected \/ copy = None
            THEN /\ edit' = IF copy = None THEN edit ELSE [edit EXCEPT !.state = "failed"]
                 /\ UNCHANGED jobs
       ELSE /\ edit' = [edit EXCEPT !.state = "uploading", !.uploading = TRUE]
            /\ jobs' = jobs \cup {Job("upload", "read", None)}
    /\ UNCHANGED <<server, copy, connected, burst, posted, used, failures, foreign, discarded, blind>>
\* Dropping the watcher ends its thread, and a burst it was waiting out.
Discard ==
    /\ "conflict" \in dialog
    /\ dialog' = dialog \ {"conflict"}
    /\ discarded' = TRUE
    /\ \/ (~Live \/ ~connected) /\ UNCHANGED <<edit, jobs, burst>>
       \/ /\ Live /\ connected
          /\ edit' = [edit EXCEPT !.watcher = FALSE]
          /\ burst' = FALSE
          /\ jobs' = jobs \cup {Download("discard")}
    /\ UNCHANGED <<server, copy, connected, posted, used, failures, foreign, blind>>
NotNow ==
    /\ \/ "conflict" \in dialog /\ dialog' = dialog \ {"conflict"} /\ edit' = SetEdit(edit, "watching")
       \/ "denied" \in dialog /\ dialog' = dialog \ {"denied"} /\ UNCHANGED edit
    /\ UNCHANGED <<server, copy, connected, jobs, burst, posted, used, failures, foreign, discarded, blind>>

\* save_with_sudo: not marked as uploading, and without the check of upload.
SaveWithSudo ==
    /\ "denied" \in dialog
    /\ dialog' = dialog \ {"denied"}
    /\ \/ ~Live /\ UNCHANGED <<edit, jobs>>
       \/ /\ Live /\ ~connected
          /\ edit' = SetEdit(edit, "failed")
          /\ UNCHANGED jobs
       \/ /\ Live /\ connected
          /\ edit' = SetEdit(edit, "uploading")
          /\ jobs' = jobs \cup {Job("sudo", "read", None)}
    /\ UNCHANGED <<server, copy, connected, burst, posted, used, failures, foreign, discarded, blind>>
SudoStep(j) ==
    /\ j \in jobs /\ j.kind = "sudo"
    /\ \/ /\ j.step = "read" /\ copy # None
          /\ Step(j, [j EXCEPT !.step = "write", !.bytes = copy])
          /\ UNCHANGED <<server, edit, failures, foreign, blind>>
       \/ /\ j.step = "write"
          /\ Written(j.bytes, FALSE)
          /\ Step(j, [j EXCEPT !.step = "after"])
          /\ UNCHANGED <<edit, failures>>
       \/ /\ j.step = "after"
          /\ Step(j, [j EXCEPT !.step = "saved", !.stat = server.stamp])
          /\ UNCHANGED <<server, edit, failures, foreign, blind>>
       \/ /\ j.step = "saved"
          /\ edit' = IF Live THEN [edit EXCEPT !.known = j.stat, !.state = "saved"] ELSE None
          /\ Ends(j)
          /\ UNCHANGED <<server, failures, foreign, blind>>
       \/ /\ j.step # "saved"
          /\ IF j.step = "read" /\ copy = None THEN UNCHANGED failures ELSE Fails
          /\ edit' = SetEdit(edit, "failed")
          /\ Ends(j)
          /\ UNCHANGED <<server, foreign, blind>>
    /\ dialog' = IF j.step = "saved" THEN Asks("saved") ELSE dialog
    /\ UNCHANGED <<copy, connected, burst, posted, used, discarded>>

\* stop_edit: the copy goes, and the watcher with the Edit.
StopEdit ==
    /\ Live
    /\ edit' = None /\ copy' = None
    /\ burst' = FALSE
    /\ UNCHANGED <<server, connected, jobs, posted, dialog, used, failures, foreign, discarded, blind>>

(***************************************************************************)
(* Around it                                                               *)
(***************************************************************************)
\* An upload is between its check and its last look at the server: what others
\* change now, it overwrites, or takes for its own.
Unchecked(j) == j.kind # "open" /\ j.kind # "discard" /\ j.step \in {"read", "write", "after"}
SomeoneElse(shows) ==
    /\ used < MaxChanges
    /\ used' = used + 1
    /\ server' = [server EXCEPT !.content = used + 1, !.ours = FALSE,
                                !.stamp = IF shows THEN @ + 1 ELSE @]
    /\ foreign' = IF (\E j \in jobs : Unchecked(j)) \/ ~(shows \/ foreign = server.content)
                  THEN foreign ELSE used + 1
    /\ UNCHANGED <<copy, edit, connected, jobs, burst, posted, dialog, failures, discarded, blind>>
\* register and unregister of the pane.
Connection ==
    /\ \/ connected /\ Fails
       \/ ~connected /\ UNCHANGED failures
    /\ connected' = ~connected
    /\ UNCHANGED <<server, copy, edit, jobs, burst, posted, dialog, used, foreign, discarded, blind>>

ENext ==
    \/ EditorSaves \/ WatcherTells \/ Saved
    \/ Overwrite \/ Discard \/ NotNow \/ SaveWithSudo \/ StopEdit
    \/ (\E shows \in BOOLEAN : SomeoneElse(shows)) \/ Connection
    \/ \E j \in jobs :
          \/ DownloadStat(j) \/ DownloadRead(j) \/ DownloadWrite(j) \/ DownloadDone(j) \/ DownloadFails(j)
          \/ UploadStat(j) \/ UploadRead(j) \/ UploadWrite(j) \/ UploadAfter(j) \/ UploadFails(j) \/ UploadDone(j)
          \/ SudoStep(j)

ESpec == EInit /\ [][ENext]_editVars

(***************************************************************************)
(* Properties                                                              *)
(***************************************************************************)
\* "saved" is the truth once nothing is under way: the server holds what the
\* editor saved last, however many saves met the upload of an earlier one,
\* unless someone else has changed the file since.  (A save through sudo is
\* outside: its server refuses the uploads that run beside it; and so is an
\* edit whose copy was thrown away for the server's: nothing watches the copy
\* while that download runs.)
SavedIsTrue ==
    Live /\ edit.state = "saved" /\ jobs = {} /\ ~burst /\ ~posted /\ ~server.refuses /\ server.ours /\ ~discarded
    => server.content = copy

\* "Before uploading, the server's copy is checked: if someone changed it
\* since, the user decides.": an upload never destroys a change nobody here
\* has seen, if it was made before the upload's check, or after the last look of
\* the one before, and the time (in seconds) or the size shows it.
NoBlindOverwrite == ~server.refuses => ~blind

=============================================================================
