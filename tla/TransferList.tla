---------------------------- MODULE TransferList ----------------------------
(***************************************************************************)
(* The transfer list (bridge/transfers.rs) and the events the queue sends  *)
(* it (sftp/transfer.rs).  A job's task and its ticker run on two threads: *)
(* each takes a snapshot of the job under the queue's lock and sends it    *)
(* after unlocking, so that snapshots may arrive in another order.  What   *)
(* the files of a job do is Transfers; here a job only asks and ends.      *)
(***************************************************************************)
EXTENDS Naturals, FiniteSets, Sequences
LOCAL INSTANCE SequencesExt

CONSTANTS
    Jobs,
    None,
    MaxSteps   \* bound: questions, retries and ticks of each job

VARIABLES
    queue,     \* the queue's jobs: [state, answer, reply, cancelled, ask, files, at], None when unknown
    held,      \* a snapshot of each job's task on its way to the sink
    ticked,    \* a snapshot of each job's ticker on its way to the sink
    events,    \* events queued for the GUI thread
    list,      \* the job states shown, None when the job is not in the list
    conflicts, \* the questions to ask, the first one is shown
    told,      \* how often `finished` was signalled for each job
    ends,      \* history: how often each job ended
    steps

listVars == <<queue, held, ticked, events, list, conflicts, told, ends, steps>>

Over == {"done", "failed", "cancelled"}
Progress(j, state) == [kind |-> "progress", job |-> j, state |-> state]
Conflict(j) == [kind |-> "conflict", job |-> j, state |-> None]
Removed(j) == [kind |-> "removed", job |-> j, state |-> None]
NewJob(policy) == [state |-> "queued", asks |-> policy = "ask", answer |-> FALSE, reply |-> None,
                   cancelled |-> FALSE, at |-> "start"]

QInit ==
    /\ queue = [j \in Jobs |-> None]
    /\ held = [j \in Jobs |-> None]
    /\ ticked = [j \in Jobs |-> None]
    /\ events = <<>>
    /\ list = [j \in Jobs |-> None]
    /\ conflicts = <<>>
    /\ told = [j \in Jobs |-> 0]
    /\ ends = [j \in Jobs |-> 0]
    /\ steps = [j \in Jobs |-> 0]

Send(e) == events' = Append(events, e)
Budget(j) == steps[j] < MaxSteps /\ steps' = [steps EXCEPT ![j] = @ + 1]
Known(j) == queue[j] # None
Free(j) == Known(j) /\ held[j] = None

\* start: the job is put in the table, told, and its task spawned; no id comes twice.
Add(j, policy) ==
    /\ ~Known(j) /\ list[j] = None /\ ends[j] = 0
    /\ Budget(j)
    /\ queue' = [queue EXCEPT ![j] = NewJob(policy)]
    /\ Send(Progress(j, "queued"))
    /\ UNCHANGED <<held, ticked, list, conflicts, told, ends>>

\* update: the snapshot is taken under the lock...
SetState(j, state, at) ==
    /\ queue' = [queue EXCEPT ![j].state = state, ![j].at = at]
    /\ held' = [held EXCEPT ![j] = Progress(j, state)]
    /\ UNCHANGED <<ticked, events, list, conflicts, told, steps>>
\* ...and sent after it was unlocked.
TaskSends(j) ==
    /\ held[j] # None
    /\ Send(held[j])
    /\ held' = [held EXCEPT ![j] = None]
    /\ UNCHANGED <<queue, ticked, list, conflicts, told, ends, steps>>

Runs(j) ==
    /\ Free(j) /\ queue[j].at = "start"
    /\ SetState(j, "running", "copy")
    /\ UNCHANGED ends
\* decide: the answer's channel is stored, "asking" told, then the question.
AskFirst(j) ==
    /\ Free(j) /\ queue[j].at = "copy" /\ queue[j].asks
    /\ steps[j] < MaxSteps
    /\ queue' = [queue EXCEPT ![j].answer = TRUE, ![j].reply = None, ![j].state = "asking", ![j].at = "ask"]
    /\ held' = [held EXCEPT ![j] = Progress(j, "asking")]
    /\ steps' = [steps EXCEPT ![j] = @ + 1]
    /\ UNCHANGED <<ticked, events, list, conflicts, told, ends>>
AskSends(j) ==
    /\ Free(j) /\ queue[j].at = "ask"
    /\ Send(Conflict(j))
    /\ queue' = [queue EXCEPT ![j].at = "wait"]
    /\ UNCHANGED <<held, ticked, list, conflicts, told, ends, steps>>
\* The answer came: "running" again; "cancel" ends the file, and the job.
AnswerArrives(j) ==
    /\ Free(j) /\ queue[j].at = "wait" /\ ~queue[j].answer
    /\ queue' = [queue EXCEPT ![j].state = "running", ![j].asks = @ /\ queue[j].reply # "all",
                              ![j].at = "copy", ![j].cancelled = @ \/ queue[j].reply = "cancel"]
    /\ held' = [held EXCEPT ![j] = Progress(j, "running")]
    /\ UNCHANGED <<ticked, events, list, conflicts, told, ends, steps>>
\* run returns, for a cancelled job perhaps with what an earlier file came to or
\* after its last one; the ticker is told to stop (one that is not at an await
\* goes on).
Ends(j, state) ==
    /\ Free(j) /\ queue[j].at = "copy"
    /\ state = "cancelled" => queue[j].cancelled
    /\ SetState(j, state, "over")
    /\ ends' = [ends EXCEPT ![j] = @ + 1]

\* tick: a snapshot a few times a second.
Tick(j) ==
    /\ Known(j) /\ queue[j].at \in {"copy", "ask", "wait"}
    /\ ticked[j] = None
    /\ Budget(j)
    /\ ticked' = [ticked EXCEPT ![j] = Progress(j, queue[j].state)]
    /\ UNCHANGED <<queue, held, events, list, conflicts, told, ends>>
TickSends(j) ==
    /\ ticked[j] # None
    /\ Send(ticked[j])
    /\ ticked' = [ticked EXCEPT ![j] = None]
    /\ UNCHANGED <<queue, held, list, conflicts, told, ends, steps>>

(***************************************************************************)
(* The GUI thread                                                          *)
(***************************************************************************)
Others(j) == SelectSeq(conflicts, LAMBDA c : c # j)
\* apply.
ApplyProgress(e) ==
    /\ list' = [list EXCEPT ![e.job] = e.state]
    /\ IF e.state \in Over /\ list[e.job] \notin Over
       THEN conflicts' = Others(e.job) /\ told' = [told EXCEPT ![e.job] = @ + 1]
       ELSE UNCHANGED <<conflicts, told>>
ApplyConflict(e) ==
    /\ conflicts' = Append(conflicts, e.job)
    /\ UNCHANGED <<list, told>>
ApplyRemoved(e) ==
    /\ list' = [list EXCEPT ![e.job] = None]
    /\ UNCHANGED <<conflicts, told>>
Apply ==
    /\ events # <<>>
    /\ LET e == Head(events)
       IN \/ e.kind = "progress" /\ ApplyProgress(e)
          \/ e.kind = "conflict" /\ ApplyConflict(e)
          \/ e.kind = "removed" /\ ApplyRemoved(e)
    /\ events' = Tail(events)
    /\ UNCHANGED <<queue, held, ticked, ends, steps>>

\* answer: the queue's question, and the first question of the job is over.
FirstOf(j) == CHOOSE i \in DOMAIN conflicts : conflicts[i] = j /\ \A k \in 1..(i - 1) : conflicts[k] # j
Without(i) == SubSeq(conflicts, 1, i - 1) \o SubSeq(conflicts, i + 1, Len(conflicts))
TakesAnswer(j, reply) ==
    queue' = IF Known(j) /\ queue[j].answer
             THEN [queue EXCEPT ![j].answer = FALSE, ![j].reply = reply] ELSE queue
AnswerShown(j, reply) ==
    /\ conflicts # <<>> /\ Head(conflicts) = j
    /\ TakesAnswer(j, reply)
    /\ conflicts' = Without(FirstOf(j))
    /\ UNCHANGED <<held, ticked, events, list, told, ends, steps>>
\* cancel: a question is answered "cancel"; a finished job is left alone.
Cancel(j) ==
    /\ Known(j) /\ list[j] \notin Over \cup {None}
    /\ ~queue[j].cancelled
    /\ queue' = IF queue[j].answer
                THEN [queue EXCEPT ![j].answer = FALSE, ![j].reply = "cancel", ![j].cancelled = TRUE]
                ELSE IF queue[j].state \in Over THEN queue ELSE [queue EXCEPT ![j].cancelled = TRUE]
    /\ queue' # queue
    /\ UNCHANGED <<held, ticked, events, list, conflicts, told, ends, steps>>
\* retry: with the policy "resume", which never asks.
Retry(j) ==
    /\ Known(j) /\ list[j] \in {"failed", "cancelled"}
    /\ queue[j].state \in {"failed", "cancelled"}
    /\ Budget(j)
    /\ queue' = [queue EXCEPT ![j] = NewJob("resume")]
    /\ Send(Progress(j, "queued"))
    /\ UNCHANGED <<held, ticked, list, conflicts, told, ends>>
\* clear_finished: the queue forgets the jobs that are over, then tells so.
Finished == {j \in Jobs : IF Known(j) THEN queue[j].state \in Over ELSE FALSE}
ClearFinished ==
    /\ Finished # {}
    /\ queue' = [j \in Jobs |-> IF j \in Finished THEN None ELSE queue[j]]
    /\ \E order \in SetToSeqs(Finished) : events' = events \o [i \in DOMAIN order |-> Removed(order[i])]
    /\ UNCHANGED <<held, ticked, list, conflicts, told, ends, steps>>

QNext ==
    \/ Apply \/ ClearFinished
    \/ \E j \in Jobs :
          \/ \E policy \in {"ask", "overwrite"} : Add(j, policy)
          \/ \E reply \in {"one", "all", "cancel"} : AnswerShown(j, reply)
          \/ \E state \in Over : Ends(j, state)
          \/ Runs(j) \/ AskFirst(j) \/ AskSends(j) \/ AnswerArrives(j) \/ TaskSends(j)
          \/ Tick(j) \/ TickSends(j) \/ Cancel(j) \/ Retry(j)

QSpec == QInit /\ [][QNext]_listVars

(***************************************************************************)
(* Properties                                                              *)
(***************************************************************************)
Quiet == events = <<>> /\ \A j \in Jobs : held[j] = None /\ ticked[j] = None

\* The questions of job j that are kept, and whether it waits for an answer.
Asked(j) == {i \in DOMAIN conflicts : conflicts[i] = j}
Waits(j) == Known(j) /\ queue[j].at = "wait" /\ queue[j].answer

\* Once every event was applied, the questions kept are those that jobs wait to
\* have answered, one each: none is lost, asked twice or left behind by a job
\* that ended while its question was on the way.  Only a job that was cancelled
\* keeps the question it was at, beside one that another of its files asks, until
\* its end arrives.  And `finished` was signalled once for each time a job ended.
QuestionsMatch ==
    Quiet => \A j \in Jobs :
        /\ Waits(j) => Asked(j) # {}
        /\ Asked(j) # {} => Known(j) /\ queue[j].state \notin Over
        /\ Asked(j) # {} /\ ~queue[j].cancelled => Waits(j) /\ Cardinality(Asked(j)) = 1
        /\ told[j] = ends[j]

=============================================================================
