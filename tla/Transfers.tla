----------------------------- MODULE Transfers -----------------------------
(***************************************************************************)
(* The transfer queue of opensesh-ssh/src/sftp/transfer.rs: jobs that copy  *)
(* files between two file systems, several at a time under one limit, with  *)
(* questions about files in the way, pauses, cancels, failures and retries. *)
(*                                                                          *)
(* A file is Size chunks.  What is at its destination is a sequence of      *)
(* marks, "new" for a chunk of the source and "old" for anything else, or   *)
(* Absent.  A file renamed because something was in its way has a second    *)
(* destination.  Each file copied runs as a task of its own.                *)
(***************************************************************************)
EXTENDS Integers, Sequences, FiniteSets, FiniteSetsExt

CONSTANTS
    Jobs,        \* the jobs
    Files,       \* the files
    JobOf,       \* the job of each file
    Size,        \* chunks in a file
    Found,       \* what may be at the destinations to start with
    Absent,      \* nothing is there
    None,        \* no file, no answer, no offset
    Requests,    \* the requests: policy (options.policy), resumes (Fs::can_resume of the
                 \* destination: FALSE for S3 storage), moves (remove_sources)
    Answers,     \* the policies the user can answer with
    MaxParallel, \* bound: the limit on files at a time
    MaxControls, \* bound: pauses, changes of the limit and retries
    MaxFailures, \* bound: files that fail
    MaxRetries   \* bound: retries of jobs

Policies == {"ask", "overwrite", "skip", "newer", "resume", "rename"}

(* What may be at a destination.                                             *)
Contents == Seq({"new", "old"}) \cup {Absent}

(* What Queue::answer and Queue::cancel send to the task that asked.         *)
Replies == [choice : (Policies \ {"ask"}) \cup {"cancel"}, forAll : BOOLEAN]

ASSUME TransfersAssumption ==
    /\ IsFiniteSet(Files)
    /\ JobOf \in [Files -> Jobs]
    /\ Size \in Nat \ {0}
    /\ \A there \in Found : DOMAIN there = Files /\ \A f \in Files : there[f] \in Contents
    /\ None \notin Files \cup Replies \cup {"skip", "rename"} /\ None \notin 0 .. Size
    /\ Requests \subseteq [policy : Policies, resumes : BOOLEAN, moves : BOOLEAN]
    /\ Answers \subseteq Policies \ {"ask"}
    /\ MaxParallel \in Nat \ {0}
    /\ MaxControls \in Nat /\ MaxFailures \in Nat /\ MaxRetries \in Nat

VARIABLES
    jobs,      \* per job: request, pc (where Queue::run is), state (Progress::state), control,
               \* changed (the control has a value run() has not looked at), policy,
               \* lock (the file whose task holds the policy lock), answer (the file whose
               \* question waits), bytes (Counters::bytes_done)
    tasks,     \* per file: at (where FileJob::copy is, or how it ended), resume
               \* (Item::resume_at), offset, written, alt (copying to a new name)
    dest,      \* per file: what is at its own destination and at its new name (and, for the
               \* properties, what was found there)
    permits,   \* permits of the semaphore that are free
    parallel,  \* Inner::parallel
    owed,      \* permits set_parallel still has to take back
    choice,    \* per file: the decision to keep what is in its way (a history variable)
    budget     \* controls, failures and retries so far

vars == <<jobs, tasks, dest, permits, parallel, owed, choice, budget>>

(* The phases in which a task runs, and holds its permit.                    *)
Running == {"decide", "lock", "ask", "answered", "open", "copy"}

NewTask == [at |-> "pending", resume |-> None, offset |-> 0, written |-> 0, alt |-> FALSE]

NewJob(request) ==
    [request |-> request, pc |-> "scan", state |-> "scanning", control |-> "run", changed |-> FALSE,
     policy |-> request.policy, lock |-> None, answer |-> None, reply |-> None, bytes |-> 0]

Init ==
    /\ \E request \in [Jobs -> Requests] : jobs = [j \in Jobs |-> NewJob(request[j])]
    /\ tasks = [f \in Files |-> NewTask]
    /\ \E there \in Found :
         dest = [f \in Files |-> [own |-> there[f], alt |-> Absent, found |-> there[f]]]
    /\ permits = MaxParallel
    /\ parallel = MaxParallel
    /\ owed = 0
    /\ choice = [f \in Files |-> None]
    /\ budget = [controls |-> 0, failures |-> 0, retries |-> 0]

FilesOf(j) == {f \in Files : JobOf[f] = j}

Finished(j) == jobs[j].state \in {"done", "failed", "cancelled"}

(* Fs::can_resume of the file's destination.                                 *)
CanResume(f) == jobs[JobOf[f]].request.resumes

(* Where FileJob::copy writes.                                               *)
Target(f) == IF tasks[f].alt THEN "alt" ELSE "own"

-----------------------------------------------------------------------------
(* Queue::run, one job's loop.                                               *)

End(j, state) ==
    jobs' = [jobs EXCEPT ![j].pc = "over", ![j].state = state]

(* scan: looks at the control only to see whether the job was cancelled.     *)
Scan(j) ==
    /\ jobs[j].pc = "scan"
    /\ IF jobs[j].control = "cancel"
       THEN End(j, "cancelled")
       ELSE jobs' = [jobs EXCEPT ![j].pc = "wait", ![j].state = "running"]
    /\ UNCHANGED <<tasks, dest, permits, parallel, owed, choice, budget>>

(* Walking the sources, or making a folder, fails.                           *)
ScanFails(j) ==
    /\ jobs[j].pc = "scan"
    /\ budget.failures < MaxFailures
    /\ budget' = [budget EXCEPT !.failures = @ + 1]
    /\ End(j, "failed")
    /\ UNCHANGED <<tasks, dest, permits, parallel, owed, choice>>

(* Mutant: a wait_running that goes on waiting when a paused job is          *)
(* cancelled.                                                                *)
WaitForRun(j) ==
    /\ jobs[j].pc = "wait"
    /\ \E f \in FilesOf(j) : tasks[f].at = "pending"
    /\ \/ /\ jobs[j].control = "run"
          /\ jobs' = [jobs EXCEPT ![j].pc = "hand", ![j].state = "running", ![j].changed = FALSE]
       \/ /\ jobs[j].control = "pause" /\ jobs[j].state # "paused"
          /\ jobs' = [jobs EXCEPT ![j].state = "paused", ![j].changed = FALSE]
    /\ UNCHANGED <<tasks, dest, permits, parallel, owed, choice, budget>>

(* wait_running, with files left to copy.                                    *)
WaitRunning(j) ==
    /\ jobs[j].pc = "wait"
    /\ \E f \in FilesOf(j) : tasks[f].at = "pending"
    /\ \/ /\ jobs[j].control = "run"
          /\ jobs' = [jobs EXCEPT ![j].pc = "hand", ![j].state = "running", ![j].changed = FALSE]
       \/ /\ jobs[j].control = "cancel"
          /\ End(j, "cancelled")
       \/ /\ jobs[j].control = "pause" /\ jobs[j].state # "paused"
          /\ jobs' = [jobs EXCEPT ![j].state = "paused", ![j].changed = FALSE]
    /\ UNCHANGED <<tasks, dest, permits, parallel, owed, choice, budget>>

(* The next file waits for a permit.                                         *)
Queue(j, f) ==
    /\ jobs[j].pc = "hand" /\ JobOf[f] = j /\ tasks[f].at = "pending"
    /\ jobs[j].control = "run"
    /\ \A g \in FilesOf(j) : tasks[g].at # "queued"
    /\ tasks' = [tasks EXCEPT ![f].at = "queued"]
    /\ UNCHANGED <<jobs, dest, permits, parallel, owed, choice, budget>>

(* It gets one and its task starts; a file that was paused goes on where it  *)
(* stopped, without deciding again.                                          *)
HandOut(j, f) ==
    /\ JobOf[f] = j /\ tasks[f].at = "queued"
    /\ permits > 0
    /\ permits' = permits - 1
    /\ tasks' = [tasks EXCEPT ![f].at = IF tasks[f].resume = None THEN "decide" ELSE "open",
                              ![f].offset = IF tasks[f].resume = None THEN 0 ELSE tasks[f].resume]
    /\ UNCHANGED <<jobs, dest, parallel, owed, choice, budget>>

(* A pause or a cancel stops handing out files, and any change of the        *)
(* control, one taken back included, stops the wait for a permit.            *)
Park(j, f) ==
    /\ jobs[j].pc = "hand" /\ JobOf[f] = j
    /\ \/ tasks[f].at = "pending" /\ jobs[j].control # "run" /\ UNCHANGED jobs
       \/ /\ tasks[f].at = "queued" /\ jobs[j].changed
          /\ jobs' = [jobs EXCEPT ![j].changed = FALSE]
    /\ tasks' = [tasks EXCEPT ![f].at = "parked"]
    /\ UNCHANGED <<dest, permits, parallel, owed, choice, budget>>

AllHandedOut(j) ==
    /\ jobs[j].pc = "hand"
    /\ \A f \in FilesOf(j) : tasks[f].at \notin {"pending", "queued"}
    /\ jobs' = [jobs EXCEPT ![j].pc = "join"]
    /\ UNCHANGED <<tasks, dest, permits, parallel, owed, choice, budget>>

(* Every task has ended: the first error decides, or the parked files are    *)
(* the next round.                                                           *)
Join(j) ==
    /\ jobs[j].pc = "join"
    /\ \A f \in FilesOf(j) : tasks[f].at \notin Running
    /\ LET errors == {"failed", "cancelled"} \cap {tasks[f].at : f \in FilesOf(j)}
       IN  IF errors # {}
           THEN /\ \E e \in errors : End(j, e)
                /\ UNCHANGED tasks
           ELSE /\ jobs' = [jobs EXCEPT ![j].pc = "wait"]
                /\ tasks' = [f \in Files |->
                               IF f \in FilesOf(j) /\ tasks[f].at = "parked"
                               THEN [tasks[f] EXCEPT !.at = "pending"] ELSE tasks[f]]
    /\ UNCHANGED <<dest, permits, parallel, owed, choice, budget>>

(* Nothing is left: a move removes its sources, and the job is done.         *)
Complete(j) ==
    /\ jobs[j].pc = "wait"
    /\ \A f \in FilesOf(j) : tasks[f].at # "pending"
    /\ jobs' = [jobs EXCEPT ![j].pc = "over", ![j].state = "done"]
    /\ UNCHANGED <<tasks, dest, permits, parallel, owed, choice, budget>>

(* Removing the sources fails (they are in one folder).                      *)
RemoveFails(j) ==
    /\ jobs[j].pc = "wait"
    /\ \A f \in FilesOf(j) : tasks[f].at # "pending"
    /\ jobs[j].request.moves
    /\ budget.failures < MaxFailures
    /\ budget' = [budget EXCEPT !.failures = @ + 1]
    /\ End(j, "failed")
    /\ UNCHANGED <<tasks, dest, permits, parallel, owed, choice>>

-----------------------------------------------------------------------------
(* FileJob::copy and FileJob::decide, one file's task.                       *)

(* The task ends with this outcome and its permit comes back.                *)
Return(f, task) ==
    /\ tasks' = [tasks EXCEPT ![f] = task]
    /\ permits' = permits + 1

(* Looks at the destination: nothing there, or ask the policy.               *)
Decide(f) ==
    /\ tasks[f].at = "decide"
    /\ tasks' = [tasks EXCEPT ![f].at = IF dest[f].own = Absent THEN "open" ELSE "lock",
                              ![f].offset = 0]
    /\ UNCHANGED <<jobs, dest, permits, parallel, owed, choice, budget>>

(* Mutant: a resume that trusts the length of what is there.                 *)
LengthIsEnough(f) == TRUE

(* tails_match: the last part of what is there (less than a chunk) is the    *)
(* source's.                                                                 *)
TailsMatch(f) == dest[f].own[Len(dest[f].own)] = "new"

(* What the policy says about a file in the way: where the copy starts.      *)
Start(f, policy) ==
    LET fresh == [tasks[f] EXCEPT !.at = "open", !.offset = 0]
        skip == [tasks[f] EXCEPT !.at = "skipped"]
        length == Len(dest[f].own)
    IN  CASE policy = "overwrite" -> {fresh}
          [] policy = "skip"      -> {skip}
          [] policy = "newer"     -> {fresh, skip}
          [] policy = "rename"    -> {[fresh EXCEPT !.alt = TRUE]}
          [] policy = "resume"    ->
               IF length > 0 /\ length <= Size /\ TailsMatch(f)
               THEN IF length = Size THEN {skip}
                    ELSE IF CanResume(f) THEN {[fresh EXCEPT !.offset = length]}
                    ELSE {fresh}
               ELSE {fresh}

(* The policies that leave what is in the way as it is.                      *)
Keeps == {"skip", "rename"}

(* The decision is taken.  A skipped file counts as copied.                  *)
Decided(f, policy, job) ==
    \E start \in Start(f, policy) :
        /\ choice' = IF policy \in Keeps THEN [choice EXCEPT ![f] = policy] ELSE choice
        /\ IF start.at = "skipped"
           THEN /\ Return(f, start)
                /\ jobs' = [jobs EXCEPT ![JobOf[f]] = [job EXCEPT !.bytes = @ + Size]]
           ELSE /\ tasks' = [tasks EXCEPT ![f] = start]
                /\ jobs' = [jobs EXCEPT ![JobOf[f]] = job]
                /\ UNCHANGED permits

(* The policy lock: with a policy the decision is taken at once; with Ask    *)
(* the question goes out, and the lock is kept until its answer.             *)
Lock(f) ==
    LET j == JobOf[f] IN
    /\ tasks[f].at = "lock"
    /\ jobs[j].lock = None
    /\ IF jobs[j].policy = "ask"
       THEN /\ tasks' = [tasks EXCEPT ![f].at = "ask"]
            /\ jobs' = [jobs EXCEPT ![j].lock = f, ![j].answer = f, ![j].state = "asking"]
            /\ UNCHANGED <<permits, choice>>
       ELSE Decided(f, jobs[j].policy, jobs[j])
    /\ UNCHANGED <<dest, parallel, owed, budget>>

(* The task wakes up with its answer, which it may keep for the next files.  *)
Answered(f) ==
    LET j == JobOf[f]
        reply == jobs[j].reply
        job == [jobs[j] EXCEPT !.state = "running", !.lock = None, !.reply = None]
    IN  /\ tasks[f].at = "answered"
        /\ IF reply.choice = "cancel"
           THEN /\ Return(f, [tasks[f] EXCEPT !.at = "cancelled"])
                /\ jobs' = [jobs EXCEPT ![j] = job]
                /\ UNCHANGED choice
           ELSE Decided(f, reply.choice,
                        IF reply.forAll THEN [job EXCEPT !.policy = reply.choice] ELSE job)
        /\ UNCHANGED <<dest, parallel, owed, budget>>

(* Opens both files; from the start, the destination is truncated (S3        *)
(* storage shows nothing before the upload is complete).  A resumed file     *)
(* counted its bytes before its pause.                                       *)
Open(f) ==
    /\ tasks[f].at = "open"
    /\ tasks' = [tasks EXCEPT ![f].at = "copy", ![f].written = tasks[f].offset]
    /\ dest' = IF tasks[f].offset = 0 /\ CanResume(f)
               THEN [dest EXCEPT ![f][Target(f)] = <<>>] ELSE dest
    /\ jobs' = [jobs EXCEPT ![JobOf[f]].bytes =
                  IF tasks[f].resume = None THEN @ + tasks[f].offset ELSE @]
    /\ UNCHANGED <<permits, parallel, owed, choice, budget>>

(* A chunk written at offset n of what is there.                             *)
WrittenAt(content, n) ==
    [i \in 1 .. Max({n + 1, Len(content)}) |->
        IF i = n + 1 THEN "new" ELSE IF i <= Len(content) THEN content[i] ELSE "old"]

CopyChunk(f) ==
    /\ tasks[f].at = "copy"
    /\ jobs[JobOf[f]].control = "run"
    /\ tasks[f].written < Size
    /\ tasks' = [tasks EXCEPT ![f].written = @ + 1]
    /\ dest' = IF CanResume(f)
               THEN [dest EXCEPT ![f][Target(f)] = WrittenAt(@, tasks[f].written)] ELSE dest
    /\ jobs' = [jobs EXCEPT ![JobOf[f]].bytes = @ + 1]
    /\ UNCHANGED <<permits, parallel, owed, choice, budget>>

CopyDone(f) ==
    /\ tasks[f].at = "copy"
    /\ jobs[JobOf[f]].control = "run"
    /\ tasks[f].written = Size
    /\ Return(f, [tasks[f] EXCEPT !.at = "done"])
    /\ dest' = IF CanResume(f) THEN dest
               ELSE [dest EXCEPT ![f][Target(f)] = [i \in 1 .. Size |-> "new"]]
    /\ UNCHANGED <<jobs, parallel, owed, choice, budget>>

(* A pause after the current chunk.  The item goes back with its offset and  *)
(* its own name; an upload that cannot be resumed starts over.               *)
CopyPaused(f) ==
    /\ tasks[f].at = "copy"
    /\ jobs[JobOf[f]].control = "pause"
    /\ Return(f, [NewTask EXCEPT !.at = "parked",
                                 !.resume = IF CanResume(f) THEN tasks[f].written ELSE 0])
    /\ jobs' = [jobs EXCEPT ![JobOf[f]].bytes =
                  IF CanResume(f) THEN @ ELSE @ - tasks[f].written]
    /\ UNCHANGED <<dest, parallel, owed, choice, budget>>

(* A cancel after the current chunk: a file written from its start goes.     *)
CopyCancelled(f) ==
    /\ tasks[f].at = "copy"
    /\ jobs[JobOf[f]].control = "cancel"
    /\ Return(f, [tasks[f] EXCEPT !.at = "cancelled"])
    /\ dest' = IF CanResume(f) /\ tasks[f].offset = 0
               THEN [dest EXCEPT ![f][Target(f)] = Absent] ELSE dest
    /\ UNCHANGED <<jobs, parallel, owed, choice, budget>>

(* Reading, writing or looking at a file fails.                              *)
FileFails(f) ==
    /\ tasks[f].at \in {"decide", "open", "copy"}
    /\ budget.failures < MaxFailures
    /\ budget' = [budget EXCEPT !.failures = @ + 1]
    /\ Return(f, [tasks[f] EXCEPT !.at = "failed"])
    /\ UNCHANGED <<jobs, dest, parallel, owed, choice>>

-----------------------------------------------------------------------------
(* What the user does, from the GUI thread.                                  *)

Control(j, control) ==
    /\ ~Finished(j)
    /\ jobs' = [jobs EXCEPT ![j].control = control, ![j].changed = TRUE]
    /\ UNCHANGED <<tasks, dest, permits, parallel, owed, choice>>

(* A pause and a resume take a cancel back that nothing has looked at yet.   *)
Pause(j) ==
    /\ budget.controls < MaxControls
    /\ budget' = [budget EXCEPT !.controls = @ + 1]
    /\ Control(j, "pause")

Resume(j) == Control(j, "run") /\ UNCHANGED budget

(* Queue::answer: the question's channel gets the choice.                    *)
Answer(j, reply) ==
    /\ jobs[j].answer # None
    /\ jobs' = [jobs EXCEPT ![j].answer = None, ![j].reply = reply]
    /\ tasks' = [tasks EXCEPT ![jobs[j].answer].at = "answered"]
    /\ UNCHANGED <<dest, permits, parallel, owed, choice, budget>>

(* Queue::cancel: a waiting question is answered, and the control set.       *)
Cancel(j) ==
    /\ ~Finished(j)
    /\ jobs' = [jobs EXCEPT ![j].control = "cancel", ![j].changed = TRUE, ![j].answer = None,
                  ![j].reply = IF jobs[j].answer = None THEN @
                               ELSE [choice |-> "cancel", forAll |-> FALSE]]
    /\ tasks' = IF jobs[j].answer = None THEN tasks
                ELSE [tasks EXCEPT ![jobs[j].answer].at = "answered"]
    /\ UNCHANGED <<dest, permits, parallel, owed, choice, budget>>

(* Queue::retry: the job starts over, resuming what is there.  It counts as  *)
(* a control, too.                                                           *)
Retry(j) ==
    /\ jobs[j].state \in {"failed", "cancelled"}
    /\ budget.retries < MaxRetries /\ budget.controls < MaxControls
    /\ budget' = [budget EXCEPT !.retries = @ + 1, !.controls = @ + 1]
    /\ jobs' = [jobs EXCEPT ![j] = NewJob([jobs[j].request EXCEPT !.policy = "resume"])]
    /\ tasks' = [f \in Files |-> IF f \in FilesOf(j) THEN NewTask ELSE tasks[f]]
    /\ UNCHANGED <<dest, permits, parallel, owed, choice>>

(* Mutant: a set_parallel that adds the permits it raises the limit by, and  *)
(* leaves the lowered limit to the files that come back.                     *)
SetParallelForgets(n) ==
    /\ n # parallel /\ budget.controls < MaxControls
    /\ budget' = [budget EXCEPT !.controls = @ + 1]
    /\ parallel' = n
    /\ permits' = IF n > parallel THEN permits + (n - parallel)
                  ELSE Max({0, permits - (parallel - n)})
    /\ UNCHANGED <<jobs, tasks, dest, owed, choice>>

(* Queue::set_parallel: what a lower limit takes back is left to a task.     *)
SetParallel(n) ==
    /\ n # parallel /\ budget.controls < MaxControls
    /\ budget' = [budget EXCEPT !.controls = @ + 1]
    /\ parallel' = n
    /\ IF n > parallel
       THEN permits' = permits + (n - parallel) /\ UNCHANGED owed
       ELSE owed' = owed + (parallel - n) /\ UNCHANGED permits
    /\ UNCHANGED <<jobs, tasks, dest, choice>>

(* The task: the permits that are free together, the others one by one.      *)
TakeBack ==
    \E n \in 1 .. owed :
        /\ n <= permits
        /\ owed' = owed - n
        /\ permits' = permits - n
        /\ UNCHANGED <<jobs, tasks, dest, parallel, choice, budget>>

-----------------------------------------------------------------------------
RunStep(j) ==
    \/ Scan(j) \/ WaitRunning(j) \/ AllHandedOut(j) \/ Join(j) \/ Complete(j)
    \/ \E f \in FilesOf(j) : Queue(j, f) \/ Park(j, f)

TaskStep(f) ==
    \/ Decide(f) \/ Lock(f) \/ Answered(f) \/ Open(f)
    \/ CopyChunk(f) \/ CopyDone(f) \/ CopyPaused(f) \/ CopyCancelled(f)

Works(j) == RunStep(j) \/ \E f \in FilesOf(j) : HandOut(j, f) \/ TaskStep(f)

UserAnswers(j) ==
    \E policy \in Answers \cup {"cancel"}, forAll \in BOOLEAN :
        Answer(j, [choice |-> policy, forAll |-> forAll])

Next ==
    \/ \E j \in Jobs :
         \/ Works(j)
         \/ ScanFails(j) \/ RemoveFails(j)
         \/ Pause(j) \/ Resume(j) \/ Cancel(j) \/ Retry(j)
         \/ UserAnswers(j)
    \/ \E f \in Files : FileFails(f)
    \/ \E n \in 1 .. MaxParallel : SetParallel(n)
    \/ TakeBack

Spec == Init /\ [][Next]_vars

-----------------------------------------------------------------------------
(* The file was to be copied under a new name, and then paused or retried:   *)
(* the new name was forgotten.                                               *)
Mislaid(f) == choice[f] = "rename" /\ ~tasks[f].alt

(* A job that is done copied every file whole, but for the ones a policy or  *)
(* an answer told it to skip: pauses, retries, resumed partial files and     *)
(* failures of other files leave no half-written file behind a "done".       *)
DoneIsComplete ==
    \A f \in Files :
        (jobs[JobOf[f]].state = "done" /\ tasks[f].at # "skipped" /\ ~Mislaid(f))
            => dest[f][Target(f)] = [i \in 1 .. Size |-> "new"]

(* A job that is done counted exactly the bytes of its files, whatever was   *)
(* paused, abandoned, resumed or skipped on the way: the progress bar ends   *)
(* at 100%.                                                                  *)
BytesAddUp ==
    \A j \in Jobs : jobs[j].state = "done" => jobs[j].bytes = Size * Cardinality(FilesOf(j))

(* No permit is lost or made up by a pause, a cancel, a failure or a change  *)
(* of the limit: free and used permits are the limit plus what is owed.      *)
PermitsExact ==
    permits + Cardinality({f \in Files : tasks[f].at \in Running}) = parallel + owed

(* A job that ended with an error still has no task running, and so nothing  *)
(* that writes behind the user's back, and no question left.                 *)
OverIsOver ==
    \A j \in Jobs : Finished(j) =>
        /\ jobs[j].answer = None /\ jobs[j].lock = None
        /\ \A f \in FilesOf(j) : tasks[f].at \notin Running

(* A job that is not over can go on unless it waits for the user, to answer  *)
(* a question or to resume it: no permit, policy lock or answer is lost so   *)
(* that run, its tasks and the waiting file wait for each other for ever.    *)
NeverStuck ==
    \A j \in Jobs : ~Finished(j) =>
        \E k \in Jobs : \/ jobs[k].answer # None \/ jobs[k].control = "pause"
                        \/ ENABLED Works(k)

(* A job that is done copied every file whole, every byte is counted once,   *)
(* and a job that ended has no task left.                                    *)
JobsSound == DoneIsComplete /\ BytesAddUp /\ OverIsOver

(* What Policy documents for Skip and Rename: what was in the way stays.     *)
ChoiceRespected ==
    \A f \in Files : choice[f] \in Keeps => dest[f].own = dest[f].found

-----------------------------------------------------------------------------
(***************************************************************************)
(* Small instances: one job, its first file there in part and another file *)
(* in the way of each other one.                                           *)
(***************************************************************************)
OneJob == [f \in Files |-> CHOOSE j \in Jobs : TRUE]

PartAndOld ==
    LET first == CHOOSE f \in Files : TRUE IN
    {[f \in Files |-> IF f = first THEN <<"new">> ELSE <<"old">>]}

(* Moves with every policy, to a storage that can resume and to S3 storage.  *)
AnyMove == [policy : Policies, resumes : BOOLEAN, moves : {TRUE}]

(* A plain copy that asks.                                                   *)
OneCopy == {[policy |-> "ask", resumes |-> TRUE, moves |-> FALSE]}

=============================================================================
