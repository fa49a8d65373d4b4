-------------------------- MODULE TransfersProofs --------------------------
(* Proofs about the transfer queue: no interleaving of jobs, tasks, pauses,  *)
(* cancels, failures, retries and changes of the limit loses a permit, marks *)
(* a half-written file as done, counts a byte twice or leaves a task running *)
(* behind a job that ended.                                                  *)
EXTENDS Transfers, TLAPS, FiniteSetTheorems

Marks == {"new", "old"}

(* The first n chunks of the source.                                         *)
Part(n) == [i \in 1 .. n |-> "new"]

Phases == Running \cup {"pending", "queued", "parked", "done", "skipped", "failed", "cancelled"}

JobType ==
    [request : [policy : Policies, resumes : BOOLEAN, moves : BOOLEAN],
     pc : {"scan", "wait", "hand", "join", "over"},
     state : {"scanning", "running", "paused", "asking", "done", "failed", "cancelled"},
     control : {"run", "pause", "cancel"}, changed : BOOLEAN, policy : Policies,
     lock : Files \cup {None}, answer : Files \cup {None}, reply : Replies \cup {None}, bytes : Int]

TaskType ==
    [at : Phases, resume : 0 .. Size \cup {None}, offset : 0 .. Size, written : 0 .. Size,
     alt : BOOLEAN]

DestType == [own : Contents, alt : Contents, found : Contents]

(* Every variable has its type: no offset is past the end of a file, and the *)
(* free permits, the limit and what is owed are never negative.              *)
TypeOK ==
    /\ jobs \in [Jobs -> JobType]
    /\ tasks \in [Files -> TaskType]
    /\ dest \in [Files -> DestType]
    /\ permits \in Nat /\ parallel \in 1 .. MaxParallel /\ owed \in Nat
    /\ choice \in [Files -> Keeps \cup {None}]
    /\ budget \in [controls : Nat, failures : Nat, retries : Nat]

-----------------------------------------------------------------------------
(* The inductive invariant, as what holds of a job and of a file and its     *)
(* job: job, t, d and c are jobs[j], tasks[f], dest[f] and choice[f].        *)

(* The policy lock of a job is held by the file that asks, or was answered.  *)
JobOK(j, job) ==
    /\ job.lock \in FilesOf(j) \cup {None}
    /\ job.answer \in {job.lock, None}
    /\ job.lock # None => job.policy = "ask"
    /\ job.state \in {"done", "failed", "cancelled"} <=> job.pc = "over"

(* Where a file can be, from where its job's loop is.                        *)
Placed(job, t) ==
    /\ job.pc = "scan" => t.at = "pending"
    /\ job.pc = "wait" => t.at \in {"pending", "done", "skipped"}
    /\ job.pc = "join" => t.at \notin {"pending", "queued"}
    /\ job.pc = "over" => t.at \notin Running \cup {"queued"}
    /\ job.state = "done" => t.at \in {"done", "skipped"}

(* A file waits for an answer exactly when its job has its question.         *)
Asked(f, job, t) ==
    /\ t.at = "ask" <=> job.answer = f
    /\ t.at \in {"ask", "answered"} <=> job.lock = f
    /\ t.at = "answered" => job.reply # None

(* A file decides once: later, only a retry decides, and it resumes.         *)
DecidedOnce(job, t, c) ==
    /\ t.at \in {"ask", "answered"} => c = None
    /\ (/\ c # None /\ t.resume = None
        /\ t.at \in {"pending", "queued", "parked", "decide", "lock"}) => job.policy = "resume"

(* Where a file is copied to.                                                *)
There(t, d) == IF t.alt THEN d.alt ELSE d.own

(* Offsets are only kept where a copy can be resumed, in a file that exists. *)
OffsetsFit(job, t, d, c) ==
    /\ t.at \in {"decide", "lock", "ask", "answered", "skipped"} => t.resume = None
    /\ t.at \in {"lock", "ask", "answered"} => d.own \in Seq(Marks) \ {Absent}
    /\ t.at = "open" /\ t.resume # None => t.offset = t.resume
    /\ t.offset > 0 => job.request.resumes
    /\ t.resume # None /\ t.resume > 0 => job.request.resumes
    /\ t.alt => t.at \in {"open", "copy", "done", "failed", "cancelled"} /\ c = "rename" /\ d.own \in Seq(Marks)
    /\ t.at = "open" /\ t.offset > 0 => There(t, d) \in Seq(Marks)
    /\ t.at \in {"pending", "queued", "parked"} /\ t.resume # None /\ t.resume > 0 =>
         d.own \in Seq(Marks)
    /\ t.at = "copy" /\ job.request.resumes => There(t, d) \in Seq(Marks)

(* What the code takes for granted when it resumes (tails_match reads only   *)
(* the last bytes): a file found at a destination, no longer than the        *)
(* source, whose last chunk is the source's is a first part of the source.   *)
TailsTell ==
    \A there \in Found, f \in Files :
        LET n == Len(there[f]) IN
        (there[f] \in Seq(Marks) /\ n \in 1 .. Size /\ there[f][n] = "new") => there[f] = Part(n)

(* Unless its new name was forgotten, what a file has at its destination is  *)
(* nothing, what was found there or a first part of the source, as long as   *)
(* the offset says.                                                          *)
CopiesPart(job, t, d, c) ==
    TailsTell /\ (c = "rename" => t.alt) =>
        /\ ~t.alt => d.own \in {Absent, d.found} \cup {Part(n) : n \in 0 .. Size}
        /\ t.at = "open" /\ t.offset > 0 => There(t, d) = Part(t.offset)
        /\ t.at = "copy" /\ job.request.resumes => There(t, d) = Part(t.written)
        /\ t.at \in {"pending", "queued", "parked"} /\ t.resume # None /\ t.resume > 0 =>
             There(t, d) = Part(t.resume)
        /\ t.at = "done" => There(t, d) = Part(Size)

FileOK(f, job, t, d, c) ==
    /\ Placed(job, t)
    /\ Asked(f, job, t)
    /\ DecidedOnce(job, t, c)
    /\ OffsetsFit(job, t, d, c)
    /\ CopiesPart(job, t, d, c)
    /\ \E there \in Found : d.found = there[f]

(* The chunks of a file that its job has counted.                            *)
Counted(t) ==
    IF t.at \in {"done", "skipped"} THEN Size
    ELSE IF t.at = "copy" THEN t.written
    ELSE IF t.resume = None THEN 0 ELSE t.resume

CountedFiles == [f \in Files |-> Counted(tasks[f])]

Chunks(F, count) == {p \in F \X (1 .. Size) : p[2] <= count[p[1]]}

(* As long as no file of the job failed, its counter is the chunks counted.  *)
BytesOK(j) ==
    (\A f \in FilesOf(j) : tasks[f].at \notin {"failed", "cancelled"})
        => jobs[j].bytes = Cardinality(Chunks(FilesOf(j), CountedFiles))

IInv ==
    /\ TypeOK
    /\ \A j \in Jobs : JobOK(j, jobs[j]) /\ BytesOK(j)
    /\ \A f \in Files : FileOK(f, jobs[JobOf[f]], tasks[f], dest[f], choice[f])
    /\ PermitsExact

-----------------------------------------------------------------------------
(* Facts about the operators.                                                *)

LEMMA Maximum ==
    ASSUME NEW a \in Int, NEW b \in Int
    PROVE  Max({a, b}) = IF a >= b THEN a ELSE b
  BY DEF Max

LEMMA IsSequence ==
    ASSUME NEW S, NEW n \in Nat, NEW s \in [1 .. n -> S]
    PROVE  s \in Seq(S)
  OBVIOUS

(* A chunk written keeps a file a file.                                      *)
LEMMA WrittenType ==
    ASSUME NEW c \in Seq(Marks), NEW n \in Nat
    PROVE  WrittenAt(c, n) \in Seq(Marks)
<1>1. Max({n + 1, Len(c)}) \in Nat
  BY Maximum
<1>2. \A i \in 1 .. Max({n + 1, Len(c)}) : i # n + 1 /\ i <= Len(c) => c[i] \in Marks
  BY <1>1
<1>3. WrittenAt(c, n) \in [1 .. Max({n + 1, Len(c)}) -> Marks]
  BY <1>2 DEF WrittenAt, Marks
<1>4. QED
  BY <1>1, <1>3, IsSequence

LEMMA WrittenPart ==
    ASSUME NEW n \in Nat
    PROVE  WrittenAt(Part(n), n) = Part(n + 1)
<1>1. Len(Part(n)) = n
  BY DEF Part
<1>2. Max({n + 1, Len(Part(n))}) = n + 1
  BY <1>1, Maximum
<1>3. QED
  BY <1>1, <1>2 DEF WrittenAt, Part

LEMMA NoPart == <<>> = Part(0)
  BY DEF Part

LEMMA PartType ==
    ASSUME NEW n \in Nat
    PROVE  Part(n) \in Seq(Marks) /\ Len(Part(n)) = n
  BY DEF Part, Marks

(* What the steps of a job assign to its fields fits them.                   *)
LEMMA JobUpdates ==
    ASSUME NEW r \in JobType
    PROVE  /\ [r EXCEPT !.pc = "wait", !.state = "running"] \in JobType
           /\ [r EXCEPT !.pc = "hand", !.state = "running", !.changed = FALSE] \in JobType
           /\ [r EXCEPT !.state = "paused", !.changed = FALSE] \in JobType
           /\ [r EXCEPT !.changed = FALSE] \in JobType
           /\ [r EXCEPT !.pc = "join"] \in JobType
           /\ [r EXCEPT !.pc = "wait"] \in JobType
           /\ \A s \in {"done", "failed", "cancelled"} :
                 [r EXCEPT !.pc = "over", !.state = s] \in JobType
           /\ \A b \in Int : [r EXCEPT !.bytes = b] \in JobType
           /\ \A p \in Policies : [r EXCEPT !.policy = p] \in JobType
           /\ \A f \in Files :
                 [r EXCEPT !.lock = f, !.answer = f, !.state = "asking"] \in JobType
           /\ [r EXCEPT !.state = "running", !.lock = None, !.reply = None] \in JobType
           /\ \A c \in {"run", "pause"} :
                 [r EXCEPT !.control = c, !.changed = TRUE] \in JobType
           /\ \A a \in Replies : [r EXCEPT !.answer = None, !.reply = a] \in JobType
           /\ \A a \in Replies \cup {None} :
                 [r EXCEPT !.control = "cancel", !.changed = TRUE, !.answer = None,
                           !.reply = a] \in JobType
           /\ NewJob([r.request EXCEPT !.policy = "resume"]) \in JobType
<1>1. /\ [r EXCEPT !.pc = "wait", !.state = "running"] \in JobType
      /\ [r EXCEPT !.pc = "hand", !.state = "running", !.changed = FALSE] \in JobType
  BY DEF JobType
<1>2. /\ [r EXCEPT !.state = "paused", !.changed = FALSE] \in JobType
      /\ [r EXCEPT !.changed = FALSE] \in JobType
  BY DEF JobType
<1>3. /\ [r EXCEPT !.pc = "join"] \in JobType
      /\ [r EXCEPT !.pc = "wait"] \in JobType
  BY DEF JobType
<1>4. \A s \in {"done", "failed", "cancelled"} :
        [r EXCEPT !.pc = "over", !.state = s] \in JobType
  BY DEF JobType
<1>5. /\ \A b \in Int : [r EXCEPT !.bytes = b] \in JobType
      /\ \A p \in Policies : [r EXCEPT !.policy = p] \in JobType
  BY DEF JobType
<1>6. /\ \A f \in Files : [r EXCEPT !.lock = f, !.answer = f, !.state = "asking"] \in JobType
      /\ [r EXCEPT !.state = "running", !.lock = None, !.reply = None] \in JobType
  BY DEF JobType
<1>7. \A c \in {"run", "pause"} : [r EXCEPT !.control = c, !.changed = TRUE] \in JobType
  BY DEF JobType
<1>8. /\ \A a \in Replies : [r EXCEPT !.answer = None, !.reply = a] \in JobType
      /\ \A a \in Replies \cup {None} :
            [r EXCEPT !.control = "cancel", !.changed = TRUE, !.answer = None, !.reply = a]
               \in JobType
  BY DEF JobType
<1>9. NewJob([r.request EXCEPT !.policy = "resume"]) \in JobType
  BY DEF JobType, NewJob, Policies
<1>10. QED
  BY <1>1, <1>2, <1>3, <1>4, <1>5, <1>6, <1>7, <1>8, <1>9

(* What the steps of a task assign to its fields fits them.                  *)
LEMMA TaskUpdates ==
    ASSUME NEW t \in TaskType
    PROVE  /\ \A p \in Phases : [t EXCEPT !.at = p] \in TaskType
           /\ \A p \in Phases, n \in 0 .. Size : [t EXCEPT !.at = p, !.offset = n] \in TaskType
           /\ \A p \in Phases, n \in 0 .. Size : [t EXCEPT !.at = p, !.written = n] \in TaskType
           /\ \A n \in 0 .. Size : [t EXCEPT !.written = n] \in TaskType
           /\ \A n \in 0 .. Size : [NewTask EXCEPT !.at = "parked", !.resume = n] \in TaskType
           /\ [[t EXCEPT !.at = "open", !.offset = 0] EXCEPT !.alt = TRUE] \in TaskType
           /\ NewTask \in TaskType
<1>1. /\ \A p \in Phases : [t EXCEPT !.at = p] \in TaskType
      /\ \A p \in Phases, n \in 0 .. Size : [t EXCEPT !.at = p, !.offset = n] \in TaskType
      /\ \A p \in Phases, n \in 0 .. Size : [t EXCEPT !.at = p, !.written = n] \in TaskType
      /\ \A n \in 0 .. Size : [t EXCEPT !.written = n] \in TaskType
  BY DEF TaskType
<1>2. 0 \in 0 .. Size
  BY TransfersAssumption
<1>3. NewTask \in TaskType
  BY <1>2 DEF NewTask, TaskType, Phases
<1>4. \A n \in 0 .. Size : [NewTask EXCEPT !.at = "parked", !.resume = n] \in TaskType
  BY <1>2 DEF NewTask, TaskType, Phases
<1>5. [[t EXCEPT !.at = "open", !.offset = 0] EXCEPT !.alt = TRUE] \in TaskType
  BY <1>2 DEF TaskType, Phases, Running
<1>6. QED
  BY <1>1, <1>3, <1>4, <1>5

LEMMA FirstNumbers ==
    ASSUME NEW n \in Nat
    PROVE  IsFiniteSet(1 .. n) /\ Cardinality(1 .. n) = n
<1>1. Cardinality(1 .. n) = IF 1 > n THEN 0 ELSE n - 1 + 1
  BY FS_Interval
<1>2. QED
  BY <1>1, FS_Interval

(* The chunks counted grow by what the count of one file grows by.           *)
LEMMA ChunksChange ==
    ASSUME NEW F, IsFiniteSet(F), NEW f \in F,
           NEW a \in [F -> 0 .. Size], NEW b \in [F -> 0 .. Size],
           \A g \in F \ {f} : b[g] = a[g]
    PROVE  Cardinality(Chunks(F, b)) = Cardinality(Chunks(F, a)) + b[f] - a[f]
<1> DEFINE Rest == {p \in (F \ {f}) \X (1 .. Size) : p[2] <= a[p[1]]}
           Row(n) == {f} \X (1 .. n)
<1>1. /\ Chunks(F, a) = Rest \cup Row(a[f])
      /\ Chunks(F, b) = Rest \cup Row(b[f])
      /\ Rest \cap Row(a[f]) = {} /\ Rest \cap Row(b[f]) = {}
  BY TransfersAssumption DEF Chunks
<1>2. IsFiniteSet(Rest)
  <2>0. IsFiniteSet(1 .. Size)
    BY FirstNumbers, TransfersAssumption
  <2>1. IsFiniteSet(F \X (1 .. Size))
    BY <2>0, FS_Product, Zenon
  <2>2. Rest \in SUBSET (F \X (1 .. Size))
    OBVIOUS
  <2>3. QED
    BY <2>1, <2>2, FS_Subset
<1>3. ASSUME NEW n \in Nat
      PROVE  IsFiniteSet(Row(n)) /\ Cardinality(Row(n)) = n
  <2>1. IsFiniteSet(1 .. n) /\ Cardinality(1 .. n) = n
    BY FirstNumbers
  <2>2. IsFiniteSet({f}) /\ Cardinality({f}) = 1
    BY FS_Singleton
  <2>3. IsFiniteSet(Row(n)) /\ Cardinality(Row(n)) = Cardinality({f}) * Cardinality(1 .. n)
    BY <2>1, <2>2, FS_Product, Zenon
  <2>4. QED
    BY <2>1, <2>2, <2>3
<1>4. a[f] \in Nat /\ b[f] \in Nat
  BY TransfersAssumption
<1> HIDE DEF Rest, Row
<1>5. ASSUME NEW n \in Nat, Rest \cap Row(n) = {}
      PROVE  Cardinality(Rest \cup Row(n)) = Cardinality(Rest) + n
  <2>1. Cardinality(Rest \cup Row(n))
          = Cardinality(Rest) + Cardinality(Row(n)) - Cardinality(Rest \cap Row(n))
    BY <1>2, <1>3, FS_Union, Zenon
  <2>2. Cardinality(Rest \cap Row(n)) = 0
    BY <1>5, FS_EmptySet
  <2>3. Cardinality(Rest) \in Nat
    BY <1>2, FS_CardinalityType
  <2>4. QED
    BY <1>3, <2>1, <2>2, <2>3
<1>6. QED
  BY <1>1, <1>2, <1>4, <1>5, FS_CardinalityType

(* When every file counts whole, the chunks are all there are.               *)
LEMMA AllChunks ==
    ASSUME NEW F, IsFiniteSet(F), NEW a, \A f \in F : a[f] = Size
    PROVE  Cardinality(Chunks(F, a)) = Size * Cardinality(F)
<1>1. Chunks(F, a) = F \X (1 .. Size)
  BY TransfersAssumption DEF Chunks
<1>2. Cardinality(1 .. Size) = Size /\ IsFiniteSet(1 .. Size)
  BY FirstNumbers, TransfersAssumption
<1>3. QED
  <2>1. Cardinality(F \X (1 .. Size)) = Cardinality(F) * Cardinality(1 .. Size)
    BY <1>2, FS_Product, Zenon
  <2>2. Cardinality(F) \in Nat
    BY FS_CardinalityType
  <2>3. QED
    BY <1>1, <1>2, <2>1, <2>2, TransfersAssumption

-----------------------------------------------------------------------------
(* How steps keep the invariant.                                             *)

(* Another file of a job does not notice a step, unless the job's loop goes  *)
(* on, its request or policy changes (but for the answer to a question) or   *)
(* its question does.                                                        *)
LEMMA Unnoticed ==
    ASSUME NEW g, NEW r, NEW q, NEW t, NEW d, NEW c,
           FileOK(g, r, t, d, c), Placed(q, t),
           q.request = r.request,
           q.policy = r.policy \/ r.policy = "ask",
           q.lock = g <=> r.lock = g, q.answer = g <=> r.answer = g,
           q.lock = g => q.reply = r.reply
    PROVE  FileOK(g, q, t, d, c)
<1>1. Asked(g, q, t)
  BY DEF FileOK, Asked
<1>2. DecidedOnce(q, t, c)
  BY DEF FileOK, DecidedOnce
<1>3. OffsetsFit(q, t, d, c)
  BY DEF FileOK, OffsetsFit
<1>4. CopiesPart(q, t, d, c)
  BY DEF FileOK, CopiesPart
<1>5. QED
  BY <1>1, <1>2, <1>3, <1>4 DEF FileOK

(* The files of a job are finite, and so what it counts is a number.         *)
LEMMA CountedType ==
    ASSUME NEW t \in TaskType
    PROVE  Counted(t) \in 0 .. Size
  BY TransfersAssumption DEF Counted, TaskType

LEMMA FilesOfFinite ==
    ASSUME NEW j
    PROVE  FilesOf(j) \in SUBSET Files /\ IsFiniteSet(FilesOf(j))
<1>1. FilesOf(j) \in SUBSET Files
  BY DEF FilesOf
<1>2. QED
  BY <1>1, FS_Subset, TransfersAssumption

(* A step of a job that changes no file.                                     *)
LEMMA JobStep ==
    ASSUME IInv, NEW j \in Jobs, NEW job \in JobType,
           jobs' = [jobs EXCEPT ![j] = job],
           UNCHANGED <<tasks, dest, permits, parallel, owed, choice>>,
           budget' \in [controls : Nat, failures : Nat, retries : Nat],
           job.bytes = jobs[j].bytes, JobOK(j, job),
           \A f \in FilesOf(j) : FileOK(f, job, tasks[f], dest[f], choice[f])
    PROVE  IInv'
<1>1. TypeOK'
  BY DEF IInv, TypeOK
<1>2. \A k \in Jobs : jobs'[k] = IF k = j THEN job ELSE jobs[k]
  BY DEF IInv, TypeOK
<1>3. ASSUME NEW k \in Jobs
      PROVE  JobOK(k, jobs[k])' /\ BytesOK(k)'
  <2>1. JobOK(k, jobs[k])' <=> JobOK(k, jobs'[k])
    BY DEF JobOK, FilesOf
  <2>2. BytesOK(k)' <=> ((\A f \in FilesOf(k) : tasks[f].at \notin {"failed", "cancelled"})
                          => jobs'[k].bytes = Cardinality(Chunks(FilesOf(k), CountedFiles)))
    BY DEF BytesOK, FilesOf, CountedFiles, Counted, Chunks
  <2>3. QED
    BY <1>2, <2>1, <2>2 DEF IInv, BytesOK
<1>4. ASSUME NEW f \in Files
      PROVE  FileOK(f, jobs[JobOf[f]], tasks[f], dest[f], choice[f])'
  <2>1. FileOK(f, jobs'[JobOf[f]], tasks'[f], dest'[f], choice'[f])
    BY <1>2, TransfersAssumption DEF IInv, FilesOf
  <2>2. QED
    BY <2>1 DEF FileOK, Placed, Asked, DecidedOnce, OffsetsFit, CopiesPart, There, Part
<1>5. PermitsExact'
  BY DEF IInv, PermitsExact
<1>6. QED
  BY <1>1, <1>3, <1>4, <1>5 DEF IInv

(* A permit is held by each file that is running.                            *)
Held(t) == IF t.at \in Running THEN 1 ELSE 0

(* A step of one file that takes or returns its permit keeps the balance.    *)
LEMMA PermitsChange ==
    ASSUME PermitsExact, NEW f \in Files, NEW t,
           tasks \in [Files -> TaskType], tasks' = [tasks EXCEPT ![f] = t],
           permits \in Nat, permits' \in Nat, permits' + Held(t) = permits + Held(tasks[f]),
           UNCHANGED <<parallel, owed>>
    PROVE  PermitsExact'
<1> DEFINE R == {g \in Files : tasks[g].at \in Running}
           S == {g \in Files : tasks'[g].at \in Running}
<1>1. IsFiniteSet(R) /\ Cardinality(R) \in Nat
  <2>1. R \in SUBSET Files
    OBVIOUS
  <2>2. QED
    BY <2>1, FS_Subset, FS_CardinalityType, TransfersAssumption
<1>2. S = IF t.at \in Running THEN R \cup {f} ELSE R \ {f}
  OBVIOUS
<1>3. f \in R <=> tasks[f].at \in Running
  OBVIOUS
<1>4. permits + Cardinality(R) = parallel + owed
  BY DEF PermitsExact
<1>5. PermitsExact' <=> permits' + Cardinality(S) = parallel + owed
  BY DEF PermitsExact
<1> HIDE DEF R, S
<1>6. /\ Cardinality(R \cup {f}) = IF f \in R THEN Cardinality(R) ELSE Cardinality(R) + 1
      /\ Cardinality(R \ {f}) = IF f \in R THEN Cardinality(R) - 1 ELSE Cardinality(R)
      /\ IsFiniteSet(R \cup {f}) /\ IsFiniteSet(R \ {f})
  BY <1>1, FS_AddElement, FS_RemoveElement, Zenon
<1>7. Cardinality(S) \in Nat
  BY <1>2, <1>6, FS_CardinalityType
<1>8. Cardinality(S) + Held(tasks[f]) = Cardinality(R) + Held(t)
  <2>1. CASE t.at \in Running
    BY <1>1, <1>2, <1>3, <1>6, <2>1 DEF Held
  <2>2. CASE t.at \notin Running
    BY <1>1, <1>2, <1>3, <1>6, <2>2 DEF Held
  <2>3. QED
    BY <2>1, <2>2
<1>9. Held(t) \in Nat /\ Held(tasks[f]) \in Nat
  BY DEF Held
<1>10. permits' + Cardinality(S) = permits + Cardinality(R)
  BY <1>1, <1>7, <1>8, <1>9
<1>11. QED
  BY <1>4, <1>5, <1>10

(* A step of one file.                                                       *)
LEMMA FileStep ==
    ASSUME IInv, NEW f \in Files, NEW job \in JobType, NEW t \in TaskType, NEW d \in DestType,
           NEW c \in Keeps \cup {None},
           jobs' = [jobs EXCEPT ![JobOf[f]] = job],
           tasks' = [tasks EXCEPT ![f] = t],
           dest' = [dest EXCEPT ![f] = d],
           choice' = [choice EXCEPT ![f] = c],
           UNCHANGED <<parallel, owed>>,
           permits' \in Nat, permits' + Held(t) = permits + Held(tasks[f]),
           budget' \in [controls : Nat, failures : Nat, retries : Nat],
           t.at \notin {"failed", "cancelled"} =>
             /\ tasks[f].at \notin {"failed", "cancelled"}
             /\ job.bytes = jobs[JobOf[f]].bytes + Counted(t) - Counted(tasks[f]),
           JobOK(JobOf[f], job),
           FileOK(f, job, t, d, c),
           \A g \in FilesOf(JobOf[f]) \ {f} : FileOK(g, job, tasks[g], dest[g], choice[g])
    PROVE  IInv'
<1> DEFINE j == JobOf[f]
<1>0. j \in Jobs /\ f \in FilesOf(j)
  BY TransfersAssumption DEF FilesOf
<1>1. TypeOK'
  BY <1>0 DEF IInv, TypeOK
<1>2. /\ \A k \in Jobs : jobs'[k] = IF k = j THEN job ELSE jobs[k]
      /\ \A g \in Files : /\ tasks'[g] = IF g = f THEN t ELSE tasks[g]
                          /\ dest'[g] = IF g = f THEN d ELSE dest[g]
                          /\ choice'[g] = IF g = f THEN c ELSE choice[g]
  BY DEF IInv, TypeOK
<1> HIDE DEF j
<1>3. ASSUME NEW k \in Jobs
      PROVE  JobOK(k, jobs[k])'
  <2>1. JobOK(k, jobs[k])' <=> JobOK(k, jobs'[k])
    BY DEF JobOK, FilesOf
  <2>2. QED
    BY <1>2, <2>1 DEF IInv, j
<1>4. ASSUME NEW k \in Jobs
      PROVE  BytesOK(k)'
  <2> DEFINE old == [g \in FilesOf(k) |-> Counted(tasks[g])]
             new == [g \in FilesOf(k) |-> Counted(tasks'[g])]
  <2>1. BytesOK(k)' <=> ((\A g \in FilesOf(k) : tasks'[g].at \notin {"failed", "cancelled"})
                          => jobs'[k].bytes = Cardinality(Chunks(FilesOf(k), new)))
    BY DEF BytesOK, FilesOf, CountedFiles, Counted, Chunks
  <2>2. BytesOK(k) <=> ((\A g \in FilesOf(k) : tasks[g].at \notin {"failed", "cancelled"})
                          => jobs[k].bytes = Cardinality(Chunks(FilesOf(k), old)))
    BY DEF BytesOK, FilesOf, CountedFiles, Counted, Chunks
  <2>3. BytesOK(k)
    BY DEF IInv
  <2>4. FilesOf(k) \in SUBSET Files /\ IsFiniteSet(FilesOf(k))
    BY FilesOfFinite
  <2>5. /\ old \in [FilesOf(k) -> 0 .. Size]
        /\ new \in [FilesOf(k) -> 0 .. Size]
    BY <1>1, <2>4, CountedType DEF IInv, TypeOK
  <2>6. CASE k = j
    <3>1. ASSUME \A g \in FilesOf(k) : tasks'[g].at \notin {"failed", "cancelled"}
          PROVE  jobs'[k].bytes = Cardinality(Chunks(FilesOf(k), new))
      <4>1. t.at \notin {"failed", "cancelled"}
        BY <1>0, <1>2, <2>4, <2>6, <3>1
      <4>2. \A g \in FilesOf(k) : tasks[g].at \notin {"failed", "cancelled"}
        BY <1>2, <2>4, <3>1, <4>1
      <4>3. jobs[k].bytes = Cardinality(Chunks(FilesOf(k), old))
        BY <2>2, <2>3, <4>2
      <4>4. \A g \in FilesOf(k) \ {f} : new[g] = old[g]
        BY <1>2, <2>4
      <4>5. /\ old[f] = Counted(tasks[f]) /\ new[f] = Counted(t)
            /\ f \in FilesOf(k)
        BY <1>0, <1>2, <2>6
      <4> HIDE DEF old, new
      <4>6. Cardinality(Chunks(FilesOf(k), new))
              = Cardinality(Chunks(FilesOf(k), old)) + new[f] - old[f]
        BY <2>4, <2>5, <4>4, <4>5, ChunksChange
      <4>7. QED
        BY <1>2, <2>6, <4>1, <4>3, <4>5, <4>6 DEF j
    <3>2. QED
      BY <2>1, <3>1
  <2>7. CASE k # j
    <3>1. \A g \in FilesOf(k) : g # f /\ tasks'[g] = tasks[g]
      BY <1>2, <2>4, <2>7 DEF FilesOf, j
    <3>2. new = old
      BY <3>1
    <3>3. QED
      BY <1>2, <2>1, <2>2, <2>3, <2>7, <3>1, <3>2
  <2>8. QED
    BY <2>6, <2>7
<1>5. ASSUME NEW g \in Files
      PROVE  FileOK(g, jobs[JobOf[g]], tasks[g], dest[g], choice[g])'
  <2>1. FileOK(g, jobs'[JobOf[g]], tasks'[g], dest'[g], choice'[g])
    BY <1>2, TransfersAssumption DEF IInv, FilesOf, j
  <2>2. QED
    BY <2>1 DEF FileOK, Placed, Asked, DecidedOnce, OffsetsFit, CopiesPart, There, Part
<1>6. PermitsExact'
  BY <1>1, PermitsChange DEF IInv, TypeOK
<1>7. QED
  BY <1>1, <1>3, <1>4, <1>5, <1>6 DEF IInv

(* A step of a job's loop or of its control.                                 *)
LEMMA LoopStep ==
    ASSUME IInv, NEW j \in Jobs, NEW job \in JobType,
           jobs' = [jobs EXCEPT ![j] = job],
           UNCHANGED <<tasks, dest, permits, parallel, owed, choice>>,
           budget' \in [controls : Nat, failures : Nat, retries : Nat],
           job.request = jobs[j].request, job.policy = jobs[j].policy,
           job.lock = jobs[j].lock, job.answer = jobs[j].answer, job.reply = jobs[j].reply,
           job.bytes = jobs[j].bytes,
           job.state \in {"done", "failed", "cancelled"} <=> job.pc = "over",
           \A f \in FilesOf(j) : Placed(job, tasks[f])
    PROVE  IInv'
<1>1. JobOK(j, jobs[j])
  BY DEF IInv
<1>2. JobOK(j, job)
  BY <1>1 DEF JobOK
<1>3. ASSUME NEW f \in FilesOf(j)
      PROVE  FileOK(f, job, tasks[f], dest[f], choice[f])
  <2>1. FileOK(f, jobs[j], tasks[f], dest[f], choice[f])
    BY DEF IInv, FilesOf
  <2>2. QED
    BY <2>1, Unnoticed
<1>4. QED
  BY <1>2, <1>3, JobStep

(* The types of a job, of a file, and what holds of them.                    *)
LEMMA Instances ==
    ASSUME IInv
    PROVE  /\ \A j \in Jobs : jobs[j] \in JobType /\ JobOK(j, jobs[j])
           /\ \A f \in Files :
                /\ JobOf[f] \in Jobs /\ f \in FilesOf(JobOf[f])
                /\ tasks[f] \in TaskType /\ dest[f] \in DestType
                /\ choice[f] \in Keeps \cup {None}
                /\ FileOK(f, jobs[JobOf[f]], tasks[f], dest[f], choice[f])
           /\ \A j \in Jobs : \A f \in FilesOf(j) :
                 FileOK(f, jobs[j], tasks[f], dest[f], choice[f])
           /\ permits \in Nat /\ parallel \in Nat /\ owed \in Nat
           /\ budget \in [controls : Nat, failures : Nat, retries : Nat]
  BY TransfersAssumption DEF IInv, TypeOK, FilesOf

(* Failures and changes of the control are counted.                          *)
LEMMA BudgetType ==
    ASSUME budget \in [controls : Nat, failures : Nat, retries : Nat]
    PROVE  /\ [budget EXCEPT !.controls = @ + 1] \in [controls : Nat, failures : Nat, retries : Nat]
           /\ [budget EXCEPT !.failures = @ + 1] \in [controls : Nat, failures : Nat, retries : Nat]
           /\ [budget EXCEPT !.retries = @ + 1] \in [controls : Nat, failures : Nat, retries : Nat]
  OBVIOUS

(* The loop of a job ends when no file of it is running or waits, and only   *)
(* as done when every one is done.                                           *)
LEMMA EndStep ==
    ASSUME IInv, NEW j \in Jobs, NEW s \in {"done", "failed", "cancelled"}, End(j, s),
           UNCHANGED <<tasks, dest, permits, parallel, owed, choice>>,
           budget' \in [controls : Nat, failures : Nat, retries : Nat],
           \A f \in FilesOf(j) : tasks[f].at \notin Running \cup {"queued"},
           s = "done" => \A f \in FilesOf(j) : tasks[f].at \in {"done", "skipped"}
    PROVE  IInv'
<1> DEFINE r == jobs[j]
           job == [r EXCEPT !.pc = "over", !.state = s]
<1>1. r \in JobType
  BY Instances
<1>2. jobs' = [jobs EXCEPT ![j] = job]
  BY DEF End
<1> HIDE DEF r
<1>3. job \in JobType
  BY <1>1, JobUpdates
<1>4. /\ job.pc = "over" /\ job.state = s
      /\ job.request = r.request /\ job.policy = r.policy /\ job.lock = r.lock
      /\ job.answer = r.answer /\ job.reply = r.reply /\ job.bytes = r.bytes
  BY <1>1 DEF JobType
<1> HIDE DEF job
<1>5. \A f \in FilesOf(j) : Placed(job, tasks[f])
  BY <1>4 DEF Placed
<1>6. QED
  BY <1>2, <1>3, <1>4, <1>5, LoopStep DEF r

(* The steps of Queue::run and of the user's controls.                       *)
LEMMA ScanKeeps == ASSUME IInv, NEW j \in Jobs, Scan(j) PROVE IInv'
<1> DEFINE r == jobs[j]
<1>1. r \in JobType /\ r.pc = "scan"
  BY Instances DEF Scan
<1>2. \A f \in FilesOf(j) : tasks[f].at = "pending"
  BY <1>1, Instances DEF FileOK, Placed
<1>3. CASE r.control = "cancel"
  BY <1>2, <1>3, Instances, EndStep DEF Scan, Running
<1>4. CASE r.control # "cancel"
  <2> DEFINE job == [r EXCEPT !.pc = "wait", !.state = "running"]
  <2>1. jobs' = [jobs EXCEPT ![j] = job]
    BY <1>4 DEF Scan
  <2> HIDE DEF r
  <2>2. job \in JobType
    BY <1>1, JobUpdates
  <2>3. /\ job.pc = "wait" /\ job.state = "running"
        /\ job.request = r.request /\ job.policy = r.policy /\ job.lock = r.lock
        /\ job.answer = r.answer /\ job.reply = r.reply /\ job.bytes = r.bytes
    BY <1>1 DEF JobType
  <2> HIDE DEF job
  <2>4. \A f \in FilesOf(j) : Placed(job, tasks[f])
    BY <1>2, <2>3 DEF Placed, Running
  <2>5. QED
    BY <2>1, <2>2, <2>3, <2>4, Instances, LoopStep, BudgetType DEF Scan, JobOK, r
<1>5. QED
  BY <1>3, <1>4

LEMMA ScanFailsKeeps == ASSUME IInv, NEW j \in Jobs, ScanFails(j) PROVE IInv'
<1>1. \A f \in FilesOf(j) : tasks[f].at = "pending"
  BY Instances DEF ScanFails, FileOK, Placed
<1>2. QED
  BY <1>1, Instances, BudgetType, EndStep DEF ScanFails, Running

LEMMA WaitRunningKeeps == ASSUME IInv, NEW j \in Jobs, WaitRunning(j) PROVE IInv'
<1> DEFINE r == jobs[j]
<1>1. r \in JobType /\ r.pc = "wait" /\ r.state \notin {"done", "failed", "cancelled"}
  BY Instances DEF WaitRunning, JobOK
<1>2. \A f \in FilesOf(j) : tasks[f].at \in {"pending", "done", "skipped"}
  BY <1>1, Instances DEF FileOK, Placed
<1>3. CASE r.control = "run"
  <2> DEFINE job == [r EXCEPT !.pc = "hand", !.state = "running", !.changed = FALSE]
  <2>1. jobs' = [jobs EXCEPT ![j] = job]
    BY <1>1, <1>3 DEF WaitRunning
  <2> HIDE DEF r
  <2>2. job \in JobType
    BY <1>1, JobUpdates
  <2>3. /\ job.pc = "hand" /\ job.state = "running"
        /\ job.request = r.request /\ job.policy = r.policy /\ job.lock = r.lock
        /\ job.answer = r.answer /\ job.reply = r.reply /\ job.bytes = r.bytes
    BY <1>1 DEF JobType
  <2> HIDE DEF job
  <2>4. \A f \in FilesOf(j) : Placed(job, tasks[f])
    BY <1>2, <2>3 DEF Placed, Running
  <2>5. QED
    BY <2>1, <2>2, <2>3, <2>4, Instances, LoopStep, BudgetType DEF WaitRunning, JobOK, r
<1>4. CASE r.control = "cancel"
  BY <1>2, <1>4, Instances, EndStep DEF WaitRunning, Running
<1>5. CASE r.control = "pause"
  <2> DEFINE job == [r EXCEPT !.state = "paused", !.changed = FALSE]
  <2>1. jobs' = [jobs EXCEPT ![j] = job]
    BY <1>1, <1>5 DEF WaitRunning
  <2> HIDE DEF r
  <2>2. job \in JobType
    BY <1>1, JobUpdates
  <2>3. /\ job.pc = r.pc /\ job.state = "paused"
        /\ job.request = r.request /\ job.policy = r.policy /\ job.lock = r.lock
        /\ job.answer = r.answer /\ job.reply = r.reply /\ job.bytes = r.bytes
    BY <1>1 DEF JobType
  <2> HIDE DEF job
  <2>4. \A f \in FilesOf(j) : Placed(job, tasks[f])
    BY <1>1, <1>2, <2>3 DEF Placed, Running
  <2>5. QED
    BY <2>1, <2>2, <2>3, <2>4, <1>1, Instances, LoopStep, BudgetType DEF WaitRunning, JobOK, r
<1>6. QED
  BY <1>3, <1>4, <1>5 DEF WaitRunning

LEMMA AllHandedOutKeeps == ASSUME IInv, NEW j \in Jobs, AllHandedOut(j) PROVE IInv'
<1> DEFINE r == jobs[j]
<1>1. r \in JobType /\ r.pc = "hand" /\ r.state \notin {"done", "failed", "cancelled"}
  BY Instances DEF AllHandedOut, JobOK
<1>2. \A f \in FilesOf(j) : tasks[f].at \notin {"pending", "queued"}
  BY DEF AllHandedOut
<1>3. QED
  <2> DEFINE job == [r EXCEPT !.pc = "join"]
  <2>1. jobs' = [jobs EXCEPT ![j] = job]
    BY DEF AllHandedOut
  <2> HIDE DEF r
  <2>2. job \in JobType
    BY <1>1, JobUpdates
  <2>3. /\ job.pc = "join" /\ job.state = r.state
        /\ job.request = r.request /\ job.policy = r.policy /\ job.lock = r.lock
        /\ job.answer = r.answer /\ job.reply = r.reply /\ job.bytes = r.bytes
    BY <1>1 DEF JobType
  <2> HIDE DEF job
  <2>4. \A f \in FilesOf(j) : Placed(job, tasks[f])
    BY <1>1, <1>2, <2>3 DEF Placed, Running
  <2>5. QED
    BY <2>1, <2>2, <2>3, <2>4, <1>1, Instances, LoopStep, BudgetType DEF AllHandedOut, JobOK, r

(* Nothing is left in the round: every file is done, or skipped.             *)
LEMMA CompleteKeeps == ASSUME IInv, NEW j \in Jobs, Complete(j) \/ RemoveFails(j) PROVE IInv'
<1>1. \A f \in FilesOf(j) : tasks[f].at \in {"done", "skipped"}
  BY Instances DEF Complete, RemoveFails, FileOK, Placed
<1>2. CASE Complete(j)
  BY <1>1, <1>2, Instances, EndStep DEF Complete, End, Running
<1>3. CASE RemoveFails(j)
  BY <1>1, <1>3, Instances, BudgetType, EndStep DEF RemoveFails, Running
<1>4. QED
  BY <1>2, <1>3

LEMMA ControlKeeps == ASSUME IInv, NEW j \in Jobs, Pause(j) \/ Resume(j) PROVE IInv'
<1> DEFINE r == jobs[j]
<1>1. r \in JobType /\ JobOK(j, r)
  BY Instances
<1>2. PICK c \in {"run", "pause"} : Control(j, c)
  BY DEF Pause, Resume
<1>3. \A f \in FilesOf(j) : Placed(r, tasks[f])
  BY Instances DEF FileOK
<1>4. QED
  <2> DEFINE job == [r EXCEPT !.control = c, !.changed = TRUE]
  <2>1. jobs' = [jobs EXCEPT ![j] = job]
    BY <1>2 DEF Control
  <2> HIDE DEF r
  <2>2. job \in JobType
    BY <1>1, JobUpdates
  <2>3. /\ job.pc = r.pc /\ job.state = r.state
        /\ job.request = r.request /\ job.policy = r.policy /\ job.lock = r.lock
        /\ job.answer = r.answer /\ job.reply = r.reply /\ job.bytes = r.bytes
    BY <1>1 DEF JobType
  <2> HIDE DEF job
  <2>4. \A f \in FilesOf(j) : Placed(job, tasks[f])
    BY <1>3, <2>3 DEF Placed, Running
  <2>5. QED
    BY <2>1, <2>2, <2>3, <2>4, <1>1, <1>2, Instances, LoopStep, BudgetType DEF Control, Pause, Resume, JobOK, r

-----------------------------------------------------------------------------
(* The steps of FileJob::copy.                                               *)

(* All that the files of a job see of it stays.                              *)
LeavesJob(r, job) ==
    /\ job.pc = r.pc /\ job.state = r.state /\ job.request = r.request
    /\ job.policy = r.policy /\ job.lock = r.lock /\ job.answer = r.answer
    /\ job.reply = r.reply

(* A step of a file that leaves its job as it is, but for the bytes counted  *)
(* and the changed control.                                                  *)
LEMMA OwnStep ==
    ASSUME IInv, NEW f \in Files, NEW job \in JobType, NEW t \in TaskType, NEW d \in DestType,
           NEW c \in Keeps \cup {None},
           jobs' = [jobs EXCEPT ![JobOf[f]] = job],
           tasks' = [tasks EXCEPT ![f] = t],
           dest' = [dest EXCEPT ![f] = d],
           choice' = [choice EXCEPT ![f] = c],
           UNCHANGED <<parallel, owed>>,
           permits' \in Nat, permits' + Held(t) = permits + Held(tasks[f]),
           budget' \in [controls : Nat, failures : Nat, retries : Nat],
           t.at \notin {"failed", "cancelled"} =>
             /\ tasks[f].at \notin {"failed", "cancelled"}
             /\ job.bytes = jobs[JobOf[f]].bytes + Counted(t) - Counted(tasks[f]),
           LeavesJob(jobs[JobOf[f]], job),
           FileOK(f, jobs[JobOf[f]], t, d, c)
    PROVE  IInv'
<1> DEFINE r == jobs[JobOf[f]]
<1>1. /\ job.pc = r.pc /\ job.state = r.state /\ job.request = r.request
      /\ job.policy = r.policy /\ job.lock = r.lock /\ job.answer = r.answer
      /\ job.reply = r.reply
  BY DEF LeavesJob
<1>2. JobOK(JobOf[f], r)
  BY Instances
<1> HIDE DEF r
<1>3. JobOK(JobOf[f], job)
  BY <1>1, <1>2 DEF JobOK
<1>4. ASSUME NEW g, NEW u, NEW e, NEW k, FileOK(g, r, u, e, k)
      PROVE  FileOK(g, job, u, e, k)
  <2>1. Placed(job, u)
    BY <1>1, <1>4 DEF FileOK, Placed
  <2>2. QED
    BY <1>1, <1>4, <2>1, Unnoticed
<1>5. FileOK(f, job, t, d, c)
  BY <1>4 DEF r
<1>6. \A g \in FilesOf(JobOf[f]) : FileOK(g, r, tasks[g], dest[g], choice[g])
  BY Instances DEF r
<1>7. \A g \in FilesOf(JobOf[f]) \ {f} : FileOK(g, job, tasks[g], dest[g], choice[g])
  BY <1>4, <1>6
<1>8. QED
  BY <1>3, <1>5, <1>7, FileStep

(* What holds of a file when it waits for a permit, is parked or starts.     *)
LEMMA WaitingFile ==
    ASSUME NEW f, NEW r \in JobType, NEW t \in TaskType, NEW d \in DestType,
           NEW c \in Keeps \cup {None}, FileOK(f, r, t, d, c), t.at \in {"pending", "queued"},
           r.pc = "hand", JobOK(JobOf[f], r)
    PROVE  /\ FileOK(f, r, [t EXCEPT !.at = "queued"], d, c)
           /\ FileOK(f, r, [t EXCEPT !.at = "parked"], d, c)
           /\ t.resume = None => FileOK(f, r, [t EXCEPT !.at = "decide", !.offset = 0], d, c)
           /\ t.resume # None => FileOK(f, r, [t EXCEPT !.at = "open", !.offset = t.resume], d, c)
<1> USE DEF FileOK, Placed, Asked, DecidedOnce, OffsetsFit, CopiesPart, There, JobOK, TaskType, Running
<1>1. FileOK(f, r, [t EXCEPT !.at = "queued"], d, c)
  OBVIOUS
<1>2. FileOK(f, r, [t EXCEPT !.at = "parked"], d, c)
  OBVIOUS
<1>3. ASSUME t.resume = None PROVE FileOK(f, r, [t EXCEPT !.at = "decide", !.offset = 0], d, c)
  BY <1>3
<1>4. ASSUME t.resume # None
      PROVE  FileOK(f, r, [t EXCEPT !.at = "open", !.offset = t.resume], d, c)
  BY <1>4
<1>5. QED
  BY <1>1, <1>2, <1>3, <1>4

(* What holds of a file after it looked at its destination.                  *)
LEMMA DecideFile ==
    ASSUME NEW f, NEW r \in JobType, NEW t \in TaskType, NEW d \in DestType,
           NEW c \in Keeps \cup {None}, FileOK(f, r, t, d, c), t.at = "decide"
    PROVE  FileOK(f, r, [t EXCEPT !.at = IF d.own = Absent THEN "open" ELSE "lock",
                                  !.offset = 0], d, c)
  BY DEF FileOK, Placed, Asked, DecidedOnce, OffsetsFit, CopiesPart, There, TaskType, Running,
         DestType, Contents, Marks

(* What holds of a file after the decision about what is in its way: q is    *)
(* its job, whose policy lock is free again.                                 *)
LEMMA StartFile ==
    ASSUME NEW f \in Files, NEW r \in JobType, NEW q \in JobType, NEW t \in TaskType,
           NEW d \in DestType, NEW c \in Keeps \cup {None},
           FileOK(f, r, t, d, c), t.at \in {"lock", "answered"},
           q.pc = r.pc, q.state = "done" => r.state = "done", q.request = r.request,
           q.lock = None, q.answer = None
    PROVE  /\ FileOK(f, q, [t EXCEPT !.at = "open", !.offset = 0], d, c)
           /\ FileOK(f, q, [t EXCEPT !.at = "skipped"], d, c)
           /\ c = None => FileOK(f, q, [t EXCEPT !.at = "skipped"], d, "skip")
           /\ FileOK(f, q, [[t EXCEPT !.at = "open", !.offset = 0] EXCEPT !.alt = TRUE], d, "rename")
<1> USE TransfersAssumption
    DEF FileOK, Placed, Asked, DecidedOnce, OffsetsFit, CopiesPart, There, TaskType, Running
<1>1. FileOK(f, q, [t EXCEPT !.at = "open", !.offset = 0], d, c)
  OBVIOUS
<1>2. FileOK(f, q, [t EXCEPT !.at = "skipped"], d, c)
  OBVIOUS
<1>3. ASSUME c = None PROVE FileOK(f, q, [t EXCEPT !.at = "skipped"], d, "skip")
  BY <1>3
<1>4. FileOK(f, q, [[t EXCEPT !.at = "open", !.offset = 0] EXCEPT !.alt = TRUE], d, "rename")
  OBVIOUS
<1>5. QED
  BY <1>1, <1>2, <1>3, <1>4

(* A file that goes on where what is there ends: what is there is a first    *)
(* part of the source, if its tail tells.                                    *)
LEMMA ResumeFile ==
    ASSUME NEW f \in Files, NEW r \in JobType, NEW q \in JobType, NEW t \in TaskType,
           NEW d \in DestType, NEW c \in Keeps \cup {None},
           FileOK(f, r, t, d, c), t.at \in {"lock", "answered"},
           q.pc = r.pc, q.state = "done" => r.state = "done", q.request = r.request,
           q.lock = None, q.answer = None,
           Len(d.own) \in 1 .. Size, d.own[Len(d.own)] = "new", q.request.resumes
    PROVE  FileOK(f, q, [t EXCEPT !.at = "open", !.offset = Len(d.own)], d, c)
<1> DEFINE n == Len(d.own)
           u == [t EXCEPT !.at = "open", !.offset = n]
<1>1. /\ d.own \in Seq(Marks) /\ d.own # Absent /\ n \in 1 .. Size
      /\ ~t.alt /\ t.resume = None
  BY DEF FileOK, OffsetsFit
<1>2. u.at = "open" /\ u.offset = n /\ u.resume = t.resume /\ u.alt = t.alt
  BY DEF TaskType
<1>3. Placed(q, u) /\ Asked(f, q, u) /\ DecidedOnce(q, u, c)
  BY <1>2, TransfersAssumption DEF FileOK, Placed, Asked, DecidedOnce, Running
<1>4. OffsetsFit(q, u, d, c)
  BY <1>1, <1>2 DEF FileOK, OffsetsFit, There
<1>5. ASSUME TailsTell, c # "rename"
      PROVE  d.own = Part(n) /\ d.own \in {Absent, d.found} \cup {Part(m) : m \in 0 .. Size}
  <2>1. d.own = d.found \/ \E m \in 0 .. Size : d.own = Part(m)
    BY <1>1, <1>5 DEF FileOK, CopiesPart
  <2>2. CASE d.own = d.found
    BY <1>1, <1>5, <2>2 DEF FileOK, TailsTell
  <2>3. CASE \E m \in 0 .. Size : d.own = Part(m)
    BY <2>3, PartType, TransfersAssumption
  <2>4. QED
    BY <1>1, <1>5, <2>1, <2>2, <2>3 DEF FileOK, CopiesPart
<1>6. CopiesPart(q, u, d, c)
  BY <1>1, <1>2, <1>5 DEF CopiesPart, There
<1>7. QED
  BY <1>3, <1>4, <1>6 DEF FileOK

(* What holds of a file after its destination was opened.                    *)
LEMMA OpenFile ==
    ASSUME NEW f, NEW r \in JobType, NEW t \in TaskType, NEW d \in DestType,
           NEW c \in Keeps \cup {None}, FileOK(f, r, t, d, c), t.at = "open",
           NEW e \in DestType, e.found = d.found,
           IF t.offset = 0 /\ r.request.resumes
           THEN There(t, e) = <<>> /\ (t.alt => e.own = d.own)
           ELSE e = d
    PROVE  FileOK(f, r, [t EXCEPT !.at = "copy", !.written = t.offset], e, c)
<1> DEFINE u == [t EXCEPT !.at = "copy", !.written = t.offset]
<1>1. /\ u.at = "copy" /\ u.written = t.offset /\ u.offset = t.offset /\ u.resume = t.resume
      /\ u.alt = t.alt /\ There(u, e) = There(t, e)
  BY DEF TaskType, There
<1>2. t.offset \in 0 .. Size /\ t.resume \in 0 .. Size \cup {None} /\ t.alt \in BOOLEAN
  BY DEF TaskType
<1> HIDE DEF u
<1>3. Placed(r, u) /\ Asked(f, r, u) /\ DecidedOnce(r, u, c)
  BY <1>1 DEF FileOK, Placed, Asked, DecidedOnce, Running
<1>4. <<>> \in Seq(Marks) /\ <<>> = Part(0) /\ 0 \in 0 .. Size
  BY NoPart, TransfersAssumption
<1>5. OffsetsFit(r, u, e, c)
  <2>1. CASE t.offset = 0 /\ r.request.resumes
    BY <1>1, <1>2, <1>4, <2>1 DEF FileOK, OffsetsFit
  <2>2. CASE ~(t.offset = 0 /\ r.request.resumes)
    BY <1>1, <1>2, <2>2, TransfersAssumption DEF FileOK, OffsetsFit
  <2>3. QED
    BY <2>1, <2>2
<1>6. CopiesPart(r, u, e, c)
  BY <1>1, <1>2, <1>4 DEF FileOK, CopiesPart, OffsetsFit, There
<1>7. QED
  BY <1>3, <1>5, <1>6 DEF FileOK, u

(* What holds of a file after a chunk of it was written.                     *)
LEMMA ChunkFile ==
    ASSUME NEW f, NEW r \in JobType, NEW t \in TaskType, NEW d \in DestType,
           NEW c \in Keeps \cup {None}, FileOK(f, r, t, d, c), t.at = "copy", t.written < Size,
           NEW e \in DestType, e.found = d.found,
           IF r.request.resumes
           THEN There(t, e) = WrittenAt(There(t, d), t.written) /\ (t.alt => e.own = d.own)
           ELSE e = d
    PROVE  FileOK(f, r, [t EXCEPT !.written = @ + 1], e, c)
<1> DEFINE u == [t EXCEPT !.written = @ + 1]
<1>1. /\ u.at = "copy" /\ u.written = t.written + 1 /\ u.offset = t.offset
      /\ u.resume = t.resume /\ u.alt = t.alt /\ There(u, e) = There(t, e)
  BY DEF TaskType, There
<1>2. t.written \in Nat /\ t.written + 1 \in 0 .. Size /\ t.alt \in BOOLEAN
  BY TransfersAssumption DEF TaskType
<1> HIDE DEF u
<1>3. Placed(r, u) /\ Asked(f, r, u) /\ DecidedOnce(r, u, c)
  BY <1>1 DEF FileOK, Placed, Asked, DecidedOnce
<1>4. r.request.resumes => There(t, e) \in Seq(Marks)
  BY <1>2, WrittenType DEF FileOK, OffsetsFit
<1>5. OffsetsFit(r, u, e, c)
  BY <1>1, <1>2, <1>4 DEF FileOK, OffsetsFit
<1>6. ASSUME TailsTell, c = "rename" => t.alt, r.request.resumes
      PROVE  There(t, e) = Part(t.written + 1)
  BY <1>2, <1>6, WrittenPart DEF FileOK, CopiesPart
<1>7. CopiesPart(r, u, e, c)
  BY <1>1, <1>2, <1>6 DEF FileOK, CopiesPart, There
<1>8. QED
  BY <1>3, <1>5, <1>7 DEF FileOK, u

(* What holds of a file that is copied.                                      *)
LEMMA DoneFile ==
    ASSUME NEW f, NEW r \in JobType, NEW t \in TaskType, NEW d \in DestType,
           NEW c \in Keeps \cup {None}, FileOK(f, r, t, d, c), t.at = "copy", t.written = Size,
           NEW e \in DestType, e.found = d.found,
           IF r.request.resumes THEN e = d
           ELSE There(t, e) = Part(Size) /\ (t.alt => e.own = d.own)
    PROVE  FileOK(f, r, [t EXCEPT !.at = "done"], e, c)
<1> DEFINE u == [t EXCEPT !.at = "done"]
<1>1. /\ u.at = "done" /\ u.written = t.written /\ u.offset = t.offset /\ u.resume = t.resume
      /\ u.alt = t.alt /\ There(u, e) = There(t, e)
  BY DEF TaskType, There
<1>2. t.alt \in BOOLEAN /\ Size \in 0 .. Size
  BY TransfersAssumption DEF TaskType
<1> HIDE DEF u
<1>3. Placed(r, u) /\ Asked(f, r, u) /\ DecidedOnce(r, u, c)
  BY <1>1 DEF FileOK, Placed, Asked, DecidedOnce, Running
<1>4. OffsetsFit(r, u, e, c)
  BY <1>1, <1>2 DEF FileOK, OffsetsFit
<1>5. CopiesPart(r, u, e, c)
  <2>1. CASE r.request.resumes
    BY <1>1, <1>2, <2>1 DEF FileOK, CopiesPart
  <2>2. CASE ~r.request.resumes
    BY <1>1, <1>2, <2>2 DEF FileOK, CopiesPart, There
  <2>3. QED
    BY <2>1, <2>2
<1>6. QED
  BY <1>3, <1>4, <1>5 DEF FileOK, u

(* What holds of a file that was paused: it keeps its offset where the copy  *)
(* can be resumed, and loses its new name.                                   *)
LEMMA PausedFile ==
    ASSUME NEW f, NEW r \in JobType, NEW t \in TaskType, NEW d \in DestType,
           NEW c \in Keeps \cup {None}, FileOK(f, r, t, d, c), t.at = "copy",
           NEW n \in 0 .. Size, n = IF r.request.resumes THEN t.written ELSE 0
    PROVE  FileOK(f, r, [NewTask EXCEPT !.at = "parked", !.resume = n], d, c)
<1> DEFINE u == [NewTask EXCEPT !.at = "parked", !.resume = n]
<1>1. u.at = "parked" /\ u.offset = 0 /\ u.resume = n /\ ~u.alt /\ n # None
  BY TransfersAssumption DEF NewTask
<1> HIDE DEF u
<1>2. Placed(r, u) /\ Asked(f, r, u) /\ DecidedOnce(r, u, c)
  BY <1>1 DEF FileOK, Placed, Asked, DecidedOnce, Running
<1>3. OffsetsFit(r, u, d, c)
  BY <1>1 DEF FileOK, OffsetsFit, There
<1>4. CopiesPart(r, u, d, c)
  BY <1>1 DEF FileOK, CopiesPart, OffsetsFit, There
<1>5. QED
  BY <1>2, <1>3, <1>4 DEF FileOK, u

(* What holds of a file that failed, or was cancelled.                       *)
LEMMA FailedFile ==
    ASSUME NEW f, NEW r \in JobType, NEW t \in TaskType, NEW d \in DestType,
           NEW c \in Keeps \cup {None}, FileOK(f, r, t, d, c),
           t.at \in {"decide", "open", "copy"}, NEW p \in {"failed", "cancelled"},
           NEW e \in DestType, e.found = d.found,
           e = d \/ (There(t, e) = Absent /\ (t.alt => e.own = d.own))
    PROVE  FileOK(f, r, [t EXCEPT !.at = p], e, c)
<1> DEFINE u == [t EXCEPT !.at = p]
<1>1. /\ u.at = p /\ u.offset = t.offset /\ u.resume = t.resume /\ u.alt = t.alt
      /\ There(u, e) = There(t, e)
  BY DEF TaskType, There
<1> HIDE DEF u
<1>2. Placed(r, u) /\ Asked(f, r, u) /\ DecidedOnce(r, u, c)
  BY <1>1 DEF FileOK, Placed, Asked, DecidedOnce, Running
<1>3. OffsetsFit(r, u, e, c)
  BY <1>1 DEF FileOK, OffsetsFit, TaskType
<1>4. CopiesPart(r, u, e, c)
  BY <1>1 DEF FileOK, CopiesPart, There, TaskType
<1>5. QED
  BY <1>2, <1>3, <1>4 DEF FileOK, u

(* Bytes counted and a control looked at are nothing the files see.          *)
LEMMA CountsOnly ==
    ASSUME NEW r \in JobType
    PROVE  /\ LeavesJob(r, r) /\ r.bytes \in Int
           /\ LeavesJob(r, [r EXCEPT !.changed = FALSE])
           /\ [r EXCEPT !.changed = FALSE].bytes = r.bytes
           /\ \A b \in Int : /\ LeavesJob(r, [r EXCEPT !.bytes = b])
                             /\ [r EXCEPT !.bytes = b].bytes = b
  BY DEF LeavesJob, JobType

LEMMA NothingCounted ==
    ASSUME NEW r \in JobType, NEW t \in TaskType, NEW u, Counted(u) = Counted(t)
    PROVE  r.bytes = r.bytes + Counted(u) - Counted(t) /\ LeavesJob(r, r)
<1>1. r.bytes \in Int /\ LeavesJob(r, r)
  BY CountsOnly
<1>2. Counted(t) \in Int
  BY CountedType
<1>3. QED
  BY <1>1, <1>2

LEMMA QueueKeeps ==
    ASSUME IInv, NEW f \in Files, Queue(JobOf[f], f) \/ Park(JobOf[f], f)
    PROVE  IInv'
<1> DEFINE r == jobs[JobOf[f]]   t == tasks[f]
<1>2. /\ r \in JobType /\ t \in TaskType /\ JobOK(JobOf[f], r)
      /\ FileOK(f, r, t, dest[f], choice[f]) /\ dest[f] \in DestType
      /\ choice[f] \in Keeps \cup {None} /\ r.pc = "hand" /\ t.at \in {"pending", "queued"}
  BY Instances DEF Queue, Park
<1>3. PICK p \in {"queued", "parked"}, job \in {r, [r EXCEPT !.changed = FALSE]} :
         /\ tasks' = [tasks EXCEPT ![f].at = p]
         /\ jobs' = [jobs EXCEPT ![JobOf[f]] = job]
  BY DEF Queue, Park, IInv, TypeOK
<1> DEFINE u == [t EXCEPT !.at = p]
<1>4. tasks' = [tasks EXCEPT ![f] = u]
  BY <1>3
<1>5. /\ UNCHANGED <<permits, parallel, owed, budget>>
      /\ dest' = [dest EXCEPT ![f] = dest[f]] /\ choice' = [choice EXCEPT ![f] = choice[f]]
  BY DEF Queue, Park, IInv, TypeOK
<1>6. permits \in Nat /\ budget \in [controls : Nat, failures : Nat, retries : Nat]
  BY Instances
<1> HIDE DEF r, t
<1>7. u \in TaskType /\ Held(u) = Held(t) /\ Counted(u) = Counted(t)
  BY <1>2, TaskUpdates DEF TaskType, Held, Running, Counted, Phases
<1>8. job \in JobType /\ LeavesJob(r, job) /\ job.bytes = r.bytes /\ r.bytes \in Int
  BY <1>2, JobUpdates, CountsOnly
<1>9. FileOK(f, r, u, dest[f], choice[f])
  BY <1>2, WaitingFile
<1>10. Counted(t) \in Int /\ job.bytes = r.bytes + Counted(u) - Counted(t)
  BY <1>2, <1>7, <1>8, CountedType
<1> HIDE DEF u
<1>11. permits' \in Nat /\ permits' + Held(u) = permits + Held(t)
  BY <1>5, <1>6, <1>7
<1>12. QED
  BY <1>2, <1>3, <1>4, <1>5, <1>6, <1>7, <1>8, <1>9, <1>10, <1>11, OwnStep DEF r, t

(* What is written goes to the file's name, or to its new name.              *)
LEMMA DestUpdate ==
    ASSUME NEW d \in DestType, NEW t \in TaskType, NEW content \in Contents
    PROVE  LET name == IF t.alt THEN "alt" ELSE "own"
               e == [d EXCEPT ![name] = content]
           IN  /\ e \in DestType /\ e.found = d.found /\ There(t, e) = content
               /\ (t.alt => e.own = d.own) /\ There(t, d) = d[name]
<1>1. CASE t.alt
  BY <1>1 DEF DestType, There
<1>2. CASE ~t.alt
  BY <1>2 DEF DestType, There
<1>3. QED
  BY <1>1, <1>2

LEMMA HandOutKeeps ==
    ASSUME IInv, NEW f \in Files, HandOut(JobOf[f], f)
    PROVE  IInv'
<1> DEFINE r == jobs[JobOf[f]]   t == tasks[f]
           u == IF t.resume = None THEN [t EXCEPT !.at = "decide", !.offset = 0]
                ELSE [t EXCEPT !.at = "open", !.offset = t.resume]
<1>1. /\ r \in JobType /\ t \in TaskType /\ JobOK(JobOf[f], r)
      /\ FileOK(f, r, t, dest[f], choice[f]) /\ dest[f] \in DestType
      /\ choice[f] \in Keeps \cup {None} /\ t.at = "queued"
  BY Instances DEF HandOut
<1>2. /\ jobs' = [jobs EXCEPT ![JobOf[f]] = r] /\ tasks' = [tasks EXCEPT ![f] = u]
      /\ dest' = [dest EXCEPT ![f] = dest[f]] /\ choice' = [choice EXCEPT ![f] = choice[f]]
      /\ UNCHANGED <<parallel, owed, budget>>
  BY DEF HandOut, IInv, TypeOK
<1>3. /\ permits' \in Nat /\ permits' + 1 = permits
      /\ budget' \in [controls : Nat, failures : Nat, retries : Nat]
  BY Instances DEF HandOut
<1> HIDE DEF r, t
<1>4. t.resume \in 0 .. Size \cup {None} /\ 0 \in 0 .. Size
  BY <1>1, TransfersAssumption DEF TaskType
<1>5. u \in TaskType
  BY <1>1, <1>4, TaskUpdates DEF Phases, Running
<1>6. Held(u) = 1 /\ Held(t) = 0 /\ Counted(u) = Counted(t)
  BY <1>1, <1>4 DEF TaskType, Held, Running, Counted
<1>7. r.pc = "hand"
  BY <1>1 DEF FileOK, Placed, JobType
<1>8. FileOK(f, r, u, dest[f], choice[f])
  BY <1>1, <1>7, WaitingFile
<1> HIDE DEF u
<1>9. r.bytes = r.bytes + Counted(u) - Counted(t) /\ LeavesJob(r, r)
  BY <1>1, <1>6, NothingCounted
<1>10. permits' + Held(u) = permits + Held(t)
  BY <1>3, <1>6
<1>11. QED
  BY <1>1, <1>2, <1>3, <1>5, <1>8, <1>9, <1>10, OwnStep DEF r, t

LEMMA DecideKeeps ==
    ASSUME IInv, NEW f \in Files, Decide(f)
    PROVE  IInv'
<1> DEFINE r == jobs[JobOf[f]]   t == tasks[f]
           u == [t EXCEPT !.at = IF dest[f].own = Absent THEN "open" ELSE "lock", !.offset = 0]
<1>1. /\ r \in JobType /\ t \in TaskType
      /\ FileOK(f, r, t, dest[f], choice[f]) /\ dest[f] \in DestType
      /\ choice[f] \in Keeps \cup {None} /\ t.at = "decide"
  BY Instances DEF Decide
<1>2. /\ jobs' = [jobs EXCEPT ![JobOf[f]] = r] /\ tasks' = [tasks EXCEPT ![f] = u]
      /\ dest' = [dest EXCEPT ![f] = dest[f]] /\ choice' = [choice EXCEPT ![f] = choice[f]]
      /\ UNCHANGED <<permits, parallel, owed, budget>>
  BY DEF Decide, IInv, TypeOK
<1>3. permits' \in Nat /\ budget' \in [controls : Nat, failures : Nat, retries : Nat]
  BY Instances DEF Decide
<1> HIDE DEF r, t
<1>4. u \in TaskType
  <2>1. 0 \in 0 .. Size
    BY TransfersAssumption
  <2>2. QED
    BY <1>1, <2>1, TaskUpdates DEF Phases, Running
<1>5. Held(u) = 1 /\ Held(t) = 1 /\ Counted(u) = Counted(t)
  BY <1>1 DEF TaskType, Held, Running, Counted
<1>6. FileOK(f, r, u, dest[f], choice[f])
  BY <1>1, DecideFile
<1> HIDE DEF u
<1>7. r.bytes = r.bytes + Counted(u) - Counted(t) /\ LeavesJob(r, r)
  BY <1>1, <1>5, NothingCounted
<1>8. permits' + Held(u) = permits + Held(t)
  BY <1>2, <1>3, <1>5
<1>9. QED
  BY <1>1, <1>2, <1>3, <1>4, <1>6, <1>7, <1>8, OwnStep DEF r, t

LEMMA OpenKeeps ==
    ASSUME IInv, NEW f \in Files, Open(f)
    PROVE  IInv'
<1> DEFINE r == jobs[JobOf[f]]   t == tasks[f]   d == dest[f]
           u == [t EXCEPT !.at = "copy", !.written = t.offset]
           name == IF t.alt THEN "alt" ELSE "own"
           e == IF t.offset = 0 /\ r.request.resumes THEN [d EXCEPT ![name] = <<>>] ELSE d
           b == IF t.resume = None THEN r.bytes + t.offset ELSE r.bytes
           job == [r EXCEPT !.bytes = b]
<1>1. /\ r \in JobType /\ t \in TaskType /\ d \in DestType
      /\ FileOK(f, r, t, d, choice[f]) /\ choice[f] \in Keeps \cup {None} /\ t.at = "open"
  BY Instances DEF Open
<1>2. /\ jobs' = [jobs EXCEPT ![JobOf[f]] = job] /\ tasks' = [tasks EXCEPT ![f] = u]
      /\ dest' = [dest EXCEPT ![f] = e] /\ choice' = [choice EXCEPT ![f] = choice[f]]
      /\ UNCHANGED <<permits, parallel, owed, budget>>
  BY DEF Open, CanResume, Target, IInv, TypeOK
<1>3. permits' \in Nat /\ budget' \in [controls : Nat, failures : Nat, retries : Nat]
  BY Instances DEF Open
<1> HIDE DEF r, t, d
<1>4. u \in TaskType
  BY <1>1, TaskUpdates DEF Phases, Running, TaskType
<1>5. /\ Held(u) = 1 /\ Held(t) = 1 /\ Counted(u) = t.offset
      /\ Counted(t) = IF t.resume = None THEN 0 ELSE t.offset
  BY <1>1 DEF TaskType, Held, Running, Counted, FileOK, OffsetsFit
<1>6. <<>> \in Contents
  BY DEF Contents
<1>7. e \in DestType /\ FileOK(f, r, u, e, choice[f])
  <2>1. CASE t.offset = 0 /\ r.request.resumes
    <3>1. /\ e \in DestType /\ e.found = d.found /\ There(t, e) = <<>>
          /\ (t.alt => e.own = d.own)
      BY <1>1, <1>6, <2>1, DestUpdate
    <3> HIDE DEF e
    <3>2. QED
      BY <1>1, <2>1, <3>1, OpenFile
  <2>2. CASE ~(t.offset = 0 /\ r.request.resumes)
    <3>1. e = d
      BY <2>2
    <3> HIDE DEF e
    <3>2. QED
      BY <1>1, <2>2, <3>1, OpenFile
  <2>3. QED
    BY <2>1, <2>2
<1>8. r.bytes \in Int /\ t.offset \in Int
  BY <1>1, TransfersAssumption DEF JobType, TaskType
<1>9. b \in Int /\ b = r.bytes + Counted(u) - Counted(t)
  BY <1>5, <1>8
<1> HIDE DEF u, e, b
<1>10. job \in JobType /\ LeavesJob(r, job) /\ job.bytes = b
  BY <1>1, <1>9, JobUpdates, CountsOnly
<1> HIDE DEF job
<1>11. permits' + Held(u) = permits + Held(t)
  BY <1>2, <1>3, <1>5
<1>12. QED
  BY <1>1, <1>2, <1>3, <1>4, <1>7, <1>9, <1>10, <1>11, OwnStep DEF r, t

LEMMA CopyChunkKeeps ==
    ASSUME IInv, NEW f \in Files, CopyChunk(f)
    PROVE  IInv'
<1> DEFINE r == jobs[JobOf[f]]   t == tasks[f]   d == dest[f]
           u == [t EXCEPT !.written = @ + 1]
           name == IF t.alt THEN "alt" ELSE "own"
           e == IF r.request.resumes THEN [d EXCEPT ![name] = WrittenAt(@, t.written)] ELSE d
           b == r.bytes + 1
           job == [r EXCEPT !.bytes = b]
<1>1. /\ r \in JobType /\ t \in TaskType /\ d \in DestType
      /\ FileOK(f, r, t, d, choice[f]) /\ choice[f] \in Keeps \cup {None} /\ t.at = "copy"
      /\ t.written < Size
  BY Instances DEF CopyChunk
<1>2. /\ jobs' = [jobs EXCEPT ![JobOf[f]] = job] /\ tasks' = [tasks EXCEPT ![f] = u]
      /\ dest' = [dest EXCEPT ![f] = e] /\ choice' = [choice EXCEPT ![f] = choice[f]]
      /\ UNCHANGED <<permits, parallel, owed, budget>>
  BY DEF CopyChunk, CanResume, Target, IInv, TypeOK
<1>3. permits' \in Nat /\ budget' \in [controls : Nat, failures : Nat, retries : Nat]
  BY Instances DEF CopyChunk
<1> HIDE DEF r, t, d
<1>4. t.written \in Nat /\ t.written + 1 \in 0 .. Size
  BY <1>1, TransfersAssumption DEF TaskType
<1>5. u \in TaskType
  BY <1>1, <1>4, TaskUpdates
<1>6. Held(u) = 1 /\ Held(t) = 1 /\ Counted(u) = t.written + 1 /\ Counted(t) = t.written
  BY <1>1 DEF TaskType, Held, Running, Counted
<1>7. e \in DestType /\ FileOK(f, r, u, e, choice[f])
  <2>1. CASE r.request.resumes
    <3>1. There(t, d) \in Seq(Marks) /\ There(t, d) = d[name]
      BY <1>1, <2>1 DEF FileOK, OffsetsFit, There
    <3>2. WrittenAt(There(t, d), t.written) \in Contents
      BY <1>4, <3>1, WrittenType DEF Contents, Marks
    <3>3. e = [d EXCEPT ![name] = WrittenAt(There(t, d), t.written)]
      BY <1>1, <2>1, <3>1 DEF DestType
    <3>4. /\ e \in DestType /\ e.found = d.found
          /\ There(t, e) = WrittenAt(There(t, d), t.written)
          /\ (t.alt => e.own = d.own)
      BY <1>1, <3>2, <3>3, DestUpdate
    <3> HIDE DEF e
    <3>5. QED
      BY <1>1, <2>1, <3>4, ChunkFile
  <2>2. CASE ~r.request.resumes
    <3>1. e = d
      BY <2>2
    <3> HIDE DEF e
    <3>2. QED
      BY <1>1, <2>2, <3>1, ChunkFile
  <2>3. QED
    BY <2>1, <2>2
<1>8. r.bytes \in Int
  BY <1>1, CountsOnly
<1>9. b \in Int /\ b = r.bytes + Counted(u) - Counted(t)
  BY <1>4, <1>6, <1>8
<1> HIDE DEF u, e, b
<1>10. job \in JobType /\ LeavesJob(r, job) /\ job.bytes = b
  BY <1>1, <1>9, JobUpdates, CountsOnly
<1> HIDE DEF job
<1>11. permits' + Held(u) = permits + Held(t)
  BY <1>2, <1>3, <1>6
<1>12. QED
  BY <1>1, <1>2, <1>3, <1>5, <1>7, <1>9, <1>10, <1>11, OwnStep DEF r, t

LEMMA CopyDoneKeeps ==
    ASSUME IInv, NEW f \in Files, CopyDone(f)
    PROVE  IInv'
<1> DEFINE r == jobs[JobOf[f]]   t == tasks[f]   d == dest[f]
           u == [t EXCEPT !.at = "done"]
           name == IF t.alt THEN "alt" ELSE "own"
           e == IF r.request.resumes THEN d ELSE [d EXCEPT ![name] = Part(Size)]
<1>1. /\ r \in JobType /\ t \in TaskType /\ d \in DestType
      /\ FileOK(f, r, t, d, choice[f]) /\ choice[f] \in Keeps \cup {None} /\ t.at = "copy"
      /\ t.written = Size
  BY Instances DEF CopyDone
<1>2. /\ jobs' = [jobs EXCEPT ![JobOf[f]] = r] /\ tasks' = [tasks EXCEPT ![f] = u]
      /\ dest' = [dest EXCEPT ![f] = e] /\ choice' = [choice EXCEPT ![f] = choice[f]]
      /\ UNCHANGED <<parallel, owed, budget>>
  BY DEF CopyDone, Return, CanResume, Target, Part, IInv, TypeOK
<1>3. /\ permits \in Nat /\ permits' \in Nat /\ permits' = permits + 1
      /\ budget' \in [controls : Nat, failures : Nat, retries : Nat]
  BY Instances DEF CopyDone, Return
<1> HIDE DEF r, t, d
<1>4. u \in TaskType
  BY <1>1, TaskUpdates DEF Phases
<1>5. Held(u) = 0 /\ Held(t) = 1 /\ Counted(u) = Counted(t)
  BY <1>1 DEF TaskType, Held, Running, Counted
<1>6. e \in DestType /\ FileOK(f, r, u, e, choice[f])
  <2>1. CASE ~r.request.resumes
    <3>1. Part(Size) \in Contents
      BY PartType, TransfersAssumption DEF Contents, Marks
    <3>2. /\ e \in DestType /\ e.found = d.found /\ There(t, e) = Part(Size)
          /\ (t.alt => e.own = d.own)
      BY <1>1, <2>1, <3>1, DestUpdate
    <3> HIDE DEF e
    <3>3. QED
      BY <1>1, <2>1, <3>2, DoneFile
  <2>2. CASE r.request.resumes
    <3>1. e = d
      BY <2>2
    <3> HIDE DEF e
    <3>2. QED
      BY <1>1, <2>2, <3>1, DoneFile
  <2>3. QED
    BY <2>1, <2>2
<1> HIDE DEF u, e
<1>7. r.bytes = r.bytes + Counted(u) - Counted(t) /\ LeavesJob(r, r)
  BY <1>1, <1>5, NothingCounted
<1>8. permits' + Held(u) = permits + Held(t)
  BY <1>3, <1>5
<1>9. t.at \notin {"failed", "cancelled"}
  BY <1>1
<1>10. QED
  BY <1>1, <1>2, <1>3, <1>4, <1>6, <1>7, <1>8, <1>9, OwnStep DEF r, t

LEMMA CopyPausedKeeps ==
    ASSUME IInv, NEW f \in Files, CopyPaused(f)
    PROVE  IInv'
<1> DEFINE r == jobs[JobOf[f]]   t == tasks[f]
           n == IF r.request.resumes THEN t.written ELSE 0
           u == [NewTask EXCEPT !.at = "parked", !.resume = n]
           b == IF r.request.resumes THEN r.bytes ELSE r.bytes - t.written
           job == [r EXCEPT !.bytes = b]
<1>1. /\ r \in JobType /\ t \in TaskType /\ dest[f] \in DestType
      /\ FileOK(f, r, t, dest[f], choice[f]) /\ choice[f] \in Keeps \cup {None} /\ t.at = "copy"
  BY Instances DEF CopyPaused
<1>2. /\ jobs' = [jobs EXCEPT ![JobOf[f]] = job] /\ tasks' = [tasks EXCEPT ![f] = u]
      /\ dest' = [dest EXCEPT ![f] = dest[f]] /\ choice' = [choice EXCEPT ![f] = choice[f]]
      /\ UNCHANGED <<parallel, owed, budget>>
  BY DEF CopyPaused, Return, CanResume, IInv, TypeOK
<1>3. /\ permits \in Nat /\ permits' \in Nat /\ permits' = permits + 1
      /\ budget' \in [controls : Nat, failures : Nat, retries : Nat]
  BY Instances DEF CopyPaused, Return
<1> HIDE DEF r, t
<1>4. t.written \in 0 .. Size /\ n \in 0 .. Size /\ n # None /\ r.bytes \in Int
  <2>1. t.written \in 0 .. Size /\ 0 \in 0 .. Size
    BY <1>1, TransfersAssumption DEF TaskType
  <2>2. r.bytes \in Int
    BY <1>1, CountsOnly
  <2>3. QED
    BY <2>1, <2>2, TransfersAssumption
<1>5. b \in Int /\ b = r.bytes + n - t.written
  BY <1>4
<1>6. n = IF r.request.resumes THEN t.written ELSE 0
  OBVIOUS
<1> HIDE DEF n, b
<1>7. u \in TaskType /\ FileOK(f, r, u, dest[f], choice[f])
  BY <1>1, <1>4, <1>6, TaskUpdates, PausedFile
<1>8. Held(u) = 0 /\ Held(t) = 1 /\ Counted(u) = n /\ Counted(t) = t.written
  BY <1>1, <1>4 DEF Held, Running, Counted, NewTask
<1>9. b = r.bytes + Counted(u) - Counted(t)
  BY <1>5, <1>8
<1> HIDE DEF u
<1>10. job \in JobType /\ LeavesJob(r, job) /\ job.bytes = b
  BY <1>1, <1>5, JobUpdates, CountsOnly
<1> HIDE DEF job
<1>11. permits' + Held(u) = permits + Held(t)
  BY <1>3, <1>8
<1>12. t.at \notin {"failed", "cancelled"}
  BY <1>1
<1>13. QED
  BY <1>1, <1>2, <1>3, <1>7, <1>9, <1>10, <1>11, <1>12, OwnStep DEF r, t

(* Reading, writing or looking at a file fails, or the job was cancelled.    *)
LEMMA FileEndsKeeps ==
    ASSUME IInv, NEW f \in Files, CopyCancelled(f) \/ FileFails(f)
    PROVE  IInv'
<1> DEFINE r == jobs[JobOf[f]]   t == tasks[f]   d == dest[f]
           name == IF t.alt THEN "alt" ELSE "own"
<1>1. /\ r \in JobType /\ t \in TaskType /\ d \in DestType
      /\ FileOK(f, r, t, d, choice[f]) /\ choice[f] \in Keeps \cup {None}
      /\ t.at \in {"decide", "open", "copy"}
  BY Instances DEF CopyCancelled, FileFails
<1>2. PICK p \in {"failed", "cancelled"}, e \in {d, [d EXCEPT ![name] = Absent]} :
         /\ jobs' = [jobs EXCEPT ![JobOf[f]] = r]
         /\ tasks' = [tasks EXCEPT ![f] = [t EXCEPT !.at = p]]
         /\ dest' = [dest EXCEPT ![f] = e] /\ choice' = [choice EXCEPT ![f] = choice[f]]
         /\ UNCHANGED <<parallel, owed>>
  BY DEF CopyCancelled, FileFails, Return, CanResume, Target, IInv, TypeOK
<1> DEFINE u == [t EXCEPT !.at = p]
<1>3. /\ permits \in Nat /\ permits' \in Nat /\ permits' = permits + 1
      /\ budget' \in [controls : Nat, failures : Nat, retries : Nat]
  BY Instances, BudgetType DEF CopyCancelled, FileFails, Return
<1> HIDE DEF r, t, d
<1>4. u \in TaskType
  BY <1>1, TaskUpdates DEF Phases
<1>5. Held(u) = 0 /\ Held(t) = 1 /\ u.at \in {"failed", "cancelled"}
  BY <1>1 DEF TaskType, Held, Running
<1>6. /\ e \in DestType /\ e.found = d.found
      /\ e = d \/ (There(t, e) = Absent /\ (t.alt => e.own = d.own))
  <2>1. Absent \in Contents
    BY DEF Contents
  <2>2. CASE e = d
    BY <1>1, <2>2
  <2>3. CASE e = [d EXCEPT ![name] = Absent]
    BY <1>1, <2>1, <2>3, DestUpdate
  <2>4. QED
    BY <1>2, <2>2, <2>3
<1>7. FileOK(f, r, u, e, choice[f])
  BY <1>1, <1>6, FailedFile
<1>8. LeavesJob(r, r)
  BY DEF LeavesJob
<1>9. permits' + Held(u) = permits + Held(t)
  BY <1>3, <1>5
<1>10. tasks' = [tasks EXCEPT ![f] = u]
  BY <1>2
<1> HIDE DEF u
<1>11. QED
  BY <1>1, <1>2, <1>3, <1>4, <1>5, <1>6, <1>7, <1>8, <1>9, <1>10, OwnStep DEF r, t

(* The decision about a file in the way: q is its job, whose lock is free.   *)
LEMMA DecidedKeeps ==
    ASSUME IInv, NEW f \in Files, NEW policy \in Policies \ {"ask"}, NEW q \in JobType,
           tasks[f].at \in {"lock", "answered"},
           policy = "resume" \/ choice[f] = None,
           jobs[JobOf[f]].lock \in {f, None},
           q.pc = jobs[JobOf[f]].pc, q.request = jobs[JobOf[f]].request,
           q.bytes = jobs[JobOf[f]].bytes, q.lock = None, q.answer = None,
           q.policy = jobs[JobOf[f]].policy \/ jobs[JobOf[f]].policy = "ask",
           q.state \in {"done", "failed", "cancelled"} <=> q.pc = "over",
           Decided(f, policy, q), UNCHANGED <<dest, parallel, owed, budget>>
    PROVE  IInv'
<1> DEFINE r == jobs[JobOf[f]]   t == tasks[f]   d == dest[f]   c == choice[f]
           fresh == [t EXCEPT !.at = "open", !.offset = 0]
           skip == [t EXCEPT !.at = "skipped"]
           renamed == [fresh EXCEPT !.alt = TRUE]
           resumed == [fresh EXCEPT !.offset = Len(d.own)]
           k == IF policy \in Keeps THEN policy ELSE c
<1>1. /\ r \in JobType /\ t \in TaskType /\ d \in DestType /\ c \in Keeps \cup {None}
      /\ FileOK(f, r, t, d, c) /\ JobOK(JobOf[f], r) /\ JobOf[f] \in Jobs
  BY Instances
<1>2. PICK u \in Start(f, policy) :
         /\ choice' = IF policy \in Keeps THEN [choice EXCEPT ![f] = policy] ELSE choice
         /\ IF u.at = "skipped"
            THEN /\ tasks' = [tasks EXCEPT ![f] = u] /\ permits' = permits + 1
                 /\ jobs' = [jobs EXCEPT ![JobOf[f]] = [q EXCEPT !.bytes = @ + Size]]
            ELSE /\ tasks' = [tasks EXCEPT ![f] = u]
                 /\ jobs' = [jobs EXCEPT ![JobOf[f]] = q]
                 /\ UNCHANGED permits
  BY DEF Decided, Return
<1>3. choice' = [choice EXCEPT ![f] = k] /\ k \in Keeps \cup {None}
  BY <1>1, <1>2 DEF IInv, TypeOK
<1>4. dest' = [dest EXCEPT ![f] = d]
  BY DEF IInv, TypeOK
<1>5. /\ permits \in Nat /\ budget' \in [controls : Nat, failures : Nat, retries : Nat]
      /\ UNCHANGED <<parallel, owed>>
  BY Instances
<1>6. \/ u = fresh /\ policy \notin Keeps
      \/ u = skip /\ policy # "rename"
      \/ u = renamed /\ policy = "rename"
      \/ /\ u = resumed /\ policy = "resume" /\ r.request.resumes
         /\ Len(d.own) \in 1 .. Size /\ d.own[Len(d.own)] = "new"
  <2>1. d.own \in Seq(Marks)
    BY <1>1 DEF FileOK, OffsetsFit
  <2>2. Len(d.own) \in Nat
    BY <2>1
  <2>3. u \in Start(f, policy)
    BY <1>2
  <2>4. CASE policy = "overwrite"
    BY <2>3, <2>4 DEF Start, Keeps
  <2>5. CASE policy = "skip"
    BY <2>3, <2>5 DEF Start
  <2>6. CASE policy = "newer"
    BY <2>3, <2>6 DEF Start, Keeps
  <2>7. CASE policy = "rename"
    BY <2>3, <2>7 DEF Start
  <2>8. CASE policy = "resume"
    BY <2>2, <2>3, <2>8 DEF Start, Keeps, TailsMatch, CanResume
  <2>9. QED
    BY <2>4, <2>5, <2>6, <2>7, <2>8 DEF Policies
<1>7. q.state = "done" => r.state = "done"
  <2>1. r.pc # "over"
    BY <1>1 DEF FileOK, Placed, Running
  <2>2. QED
    BY <2>1
<1>8. JobOK(JobOf[f], q)
  BY DEF JobOK
<1>9. ASSUME NEW g \in FilesOf(JobOf[f]) \ {f}, NEW job,
             job.pc = q.pc, job.state = q.state, job.request = q.request,
             job.policy = q.policy, job.lock = None, job.answer = None
      PROVE  FileOK(g, job, tasks[g], dest[g], choice[g])
  <2>1. g \in Files /\ FileOK(g, r, tasks[g], dest[g], choice[g])
    BY <1>1, Instances DEF FilesOf
  <2>2. g # None /\ r.lock # g /\ r.answer # g
    BY <1>1, <2>1, TransfersAssumption DEF JobOK
  <2>3. Placed(job, tasks[g])
    BY <1>7, <1>9, <2>1 DEF FileOK, Placed
  <2>4. QED
    BY <1>9, <2>1, <2>2, <2>3, Unnoticed
<1>10. r.bytes \in Int /\ q.bytes = r.bytes
  BY <1>1, CountsOnly
<1>11. u \in TaskType /\ FileOK(f, q, u, d, k)
  <2> HIDE DEF r, t, d, c
  <2>1. policy # "resume" => c = None
    BY DEF c
  <2>2. t.at \in {"lock", "answered"} /\ q.pc = r.pc /\ q.request = r.request
    BY DEF t, r
  <2>3. 0 \in 0 .. Size
    BY TransfersAssumption
  <2>4. CASE u = fresh /\ policy \notin Keeps
    BY <1>1, <1>7, <2>2, <2>3, <2>4, StartFile, TaskUpdates DEF Phases, Running
  <2>5. CASE u = skip /\ policy # "rename"
    <3>1. u \in TaskType
      BY <1>1, <2>5, TaskUpdates DEF Phases
    <3>2. k = c \/ (c = None /\ k = "skip")
      BY <2>1, <2>5 DEF Keeps
    <3>3. QED
      BY <1>1, <1>7, <2>2, <2>5, <3>1, <3>2, StartFile
  <2>6. CASE u = renamed /\ policy = "rename"
    <3>1. k = "rename"
      BY <2>6 DEF Keeps
    <3>2. u = [[t EXCEPT !.at = "open", !.offset = 0] EXCEPT !.alt = TRUE]
      BY <2>6
    <3>3. u \in TaskType
      BY <1>1, <3>2, TaskUpdates
    <3>4. FileOK(f, q, [[t EXCEPT !.at = "open", !.offset = 0] EXCEPT !.alt = TRUE], d, "rename")
      BY <1>1, <1>7, <2>2, StartFile
    <3>5. QED
      BY <3>1, <3>2, <3>3, <3>4
  <2>7. CASE /\ u = resumed /\ policy = "resume" /\ r.request.resumes
             /\ Len(d.own) \in 1 .. Size /\ d.own[Len(d.own)] = "new"
    <3>1. u = [t EXCEPT !.at = "open", !.offset = Len(d.own)] /\ k = c
      BY <1>1, <2>7 DEF TaskType, Keeps
    <3>2. Len(d.own) \in 0 .. Size
      BY <2>7, TransfersAssumption
    <3>3. u \in TaskType
      BY <1>1, <3>1, <3>2, TaskUpdates DEF Phases, Running
    <3>4. FileOK(f, q, [t EXCEPT !.at = "open", !.offset = Len(d.own)], d, c)
      BY <1>1, <1>7, <2>2, <2>7, ResumeFile
    <3>5. QED
      BY <3>1, <3>3, <3>4
  <2>8. QED
    BY <1>6, <2>4, <2>5, <2>6, <2>7
<1>12. /\ Held(t) = 1 /\ Counted(t) = 0
       /\ u.at = "skipped" => Held(u) = 0 /\ Counted(u) = Size
       /\ u.at # "skipped" => u.at = "open" /\ Held(u) = 1 /\ Counted(u) = 0
  <2>1. t.resume = None
    BY <1>1 DEF FileOK, OffsetsFit
  <2>2. u.at \in {"open", "skipped"} /\ u.resume = None
    BY <1>1, <1>6, <2>1 DEF TaskType
  <2>3. QED
    BY <2>1, <2>2 DEF Held, Counted, Running
<1> HIDE DEF k, d
<1>13. CASE u.at = "skipped"
  <2> DEFINE job == [q EXCEPT !.bytes = @ + Size]
  <2>1. job = [q EXCEPT !.bytes = q.bytes + Size]
    OBVIOUS
  <2>2. /\ job \in JobType /\ LeavesJob(q, job) /\ job.bytes = q.bytes + Size
    <3>1. q.bytes + Size \in Int
      BY <1>10, TransfersAssumption
    <3> DEFINE b == q.bytes + Size
    <3> HIDE DEF b
    <3>2. b \in Int /\ job = [q EXCEPT !.bytes = b]
      BY <2>1, <3>1 DEF b
    <3> HIDE DEF job
    <3>3. job \in JobType /\ LeavesJob(q, job) /\ job.bytes = b
      BY <3>2, JobUpdates, CountsOnly
    <3>4. QED
      BY <3>3 DEF b
  <2>3. jobs' = [jobs EXCEPT ![JobOf[f]] = job] /\ tasks' = [tasks EXCEPT ![f] = u]
    BY <1>2, <1>13
  <2> HIDE DEF job
  <2>4. JobOK(JobOf[f], job)
    BY <1>8, <2>2 DEF JobOK, LeavesJob
  <2>5. \A g \in FilesOf(JobOf[f]) \ {f} : FileOK(g, job, tasks[g], dest[g], choice[g])
    BY <1>9, <2>2 DEF LeavesJob
  <2>6. FileOK(f, job, u, d, k)
    <3>1. Placed(job, u)
      BY <1>11, <2>2 DEF FileOK, Placed, LeavesJob
    <3>2. QED
      BY <1>11, <2>2, <3>1, Unnoticed DEF LeavesJob
  <2>7. job.bytes = r.bytes + Counted(u) - Counted(t)
    BY <1>10, <1>12, <1>13, <2>2, TransfersAssumption
  <2>8. permits' \in Nat /\ permits' + Held(u) = permits + Held(t)
    BY <1>2, <1>5, <1>12, <1>13
  <2>9. QED
    BY <1>1, <1>3, <1>4, <1>5, <1>11, <2>2, <2>3, <2>4, <2>5, <2>6, <2>7, <2>8, FileStep
<1>14. CASE u.at # "skipped"
  <2>1. jobs' = [jobs EXCEPT ![JobOf[f]] = q] /\ tasks' = [tasks EXCEPT ![f] = u]
    BY <1>2, <1>14
  <2>2. \A g \in FilesOf(JobOf[f]) \ {f} : FileOK(g, q, tasks[g], dest[g], choice[g])
    BY <1>9
  <2>3. q.bytes = r.bytes + Counted(u) - Counted(t)
    BY <1>10, <1>12, <1>14
  <2>4. permits' \in Nat /\ permits' + Held(u) = permits + Held(t)
    BY <1>2, <1>5, <1>12, <1>14
  <2>5. QED
    BY <1>1, <1>3, <1>4, <1>5, <1>8, <1>11, <2>1, <2>2, <2>3, <2>4, FileStep
<1>15. QED
  BY <1>13, <1>14

LEMMA LockKeeps ==
    ASSUME IInv, NEW f \in Files, Lock(f)
    PROVE  IInv'
<1> DEFINE r == jobs[JobOf[f]]   t == tasks[f]   d == dest[f]   c == choice[f]
<1>1. /\ r \in JobType /\ t \in TaskType /\ d \in DestType /\ c \in Keeps \cup {None}
      /\ FileOK(f, r, t, d, c) /\ JobOK(JobOf[f], r) /\ f \in FilesOf(JobOf[f])
      /\ t.at = "lock" /\ r.lock = None
  BY Instances DEF Lock
<1>2. /\ r.answer = None /\ t.resume = None /\ (c # None => r.policy = "resume")
      /\ r.pc \in {"hand", "join"} /\ r.state \notin {"done", "failed", "cancelled"}
  BY <1>1 DEF JobOK, FileOK, Placed, DecidedOnce, OffsetsFit, JobType, Running
<1>3. UNCHANGED <<dest, parallel, owed, budget>>
  BY DEF Lock
<1>4. CASE r.policy = "ask"
  <2> DEFINE job == [r EXCEPT !.lock = f, !.answer = f, !.state = "asking"]
             u == [t EXCEPT !.at = "ask"]
  <2>1. /\ jobs' = [jobs EXCEPT ![JobOf[f]] = job] /\ tasks' = [tasks EXCEPT ![f] = u]
        /\ dest' = [dest EXCEPT ![f] = d] /\ choice' = [choice EXCEPT ![f] = c]
        /\ UNCHANGED permits
    BY <1>4 DEF Lock, IInv, TypeOK
  <2>2. permits \in Nat /\ budget \in [controls : Nat, failures : Nat, retries : Nat]
    BY Instances
  <2>3. \A g \in FilesOf(JobOf[f]) : FileOK(g, r, tasks[g], dest[g], choice[g])
    BY Instances
  <2> HIDE DEF r, t, d, c
  <2>4. job \in JobType /\ u \in TaskType
    BY <1>1, JobUpdates, TaskUpdates DEF Phases, Running
  <2>5. /\ job.lock = f /\ job.answer = f /\ job.state = "asking" /\ job.pc = r.pc
        /\ job.request = r.request /\ job.policy = r.policy /\ job.reply = r.reply
        /\ job.bytes = r.bytes
    BY <1>1 DEF JobType
  <2>6. /\ u.at = "ask" /\ u.resume = t.resume /\ u.offset = t.offset /\ u.alt = t.alt
        /\ Held(u) = 1 /\ Held(t) = 1 /\ Counted(u) = Counted(t)
    BY <1>1 DEF TaskType, Held, Running, Counted
  <2> HIDE DEF job, u
  <2>7. f # None
    BY TransfersAssumption
  <2>8. JobOK(JobOf[f], job)
    BY <1>1, <1>2, <1>4, <2>5 DEF JobOK
  <2>9. FileOK(f, job, u, d, c)
    <3>1. Placed(job, u) /\ Asked(f, job, u) /\ DecidedOnce(job, u, c)
      BY <1>2, <1>4, <2>5, <2>6 DEF Placed, Asked, DecidedOnce
    <3>2. OffsetsFit(job, u, d, c)
      BY <1>1, <2>5, <2>6 DEF FileOK, OffsetsFit
    <3>3. CopiesPart(job, u, d, c)
      BY <1>1, <2>5, <2>6 DEF FileOK, CopiesPart
    <3>4. QED
      BY <1>1, <3>1, <3>2, <3>3 DEF FileOK
  <2>10. ASSUME NEW g \in FilesOf(JobOf[f]) \ {f}
         PROVE  FileOK(g, job, tasks[g], dest[g], choice[g])
    <3>1. g # None /\ g # f /\ FileOK(g, r, tasks[g], dest[g], choice[g])
      BY <2>3, TransfersAssumption DEF FilesOf
    <3>2. Placed(job, tasks[g])
      BY <1>2, <2>5, <3>1 DEF FileOK, Placed
    <3>3. QED
      BY <1>1, <1>2, <2>5, <3>1, <3>2, Unnoticed
  <2>11. job.bytes = r.bytes + Counted(u) - Counted(t)
    BY <1>1, <2>5, <2>6, NothingCounted
  <2>12. permits' \in Nat /\ permits' + Held(u) = permits + Held(t)
    BY <2>1, <2>2, <2>6
  <2>13. t.at \notin {"failed", "cancelled"}
    BY <1>1
  <2>14. QED
    BY <1>1, <1>3, <2>1, <2>2, <2>4, <2>8, <2>9, <2>10, <2>11, <2>12, <2>13, FileStep DEF r, t
<1>5. CASE r.policy # "ask"
  <2>1. Decided(f, r.policy, r)
    BY <1>5 DEF Lock
  <2>2. r.policy \in Policies \ {"ask"}
    BY <1>1, <1>5 DEF JobType
  <2>3. r.state \in {"done", "failed", "cancelled"} <=> r.pc = "over"
    BY <1>1 DEF JobOK
  <2>4. QED
    BY <1>1, <1>2, <1>3, <2>1, <2>2, <2>3, DecidedKeeps
<1>6. QED
  BY <1>4, <1>5

LEMMA AnsweredKeeps ==
    ASSUME IInv, NEW f \in Files, Answered(f)
    PROVE  IInv'
<1> DEFINE r == jobs[JobOf[f]]   t == tasks[f]   d == dest[f]   c == choice[f]
           a == r.reply
           job == [r EXCEPT !.state = "running", !.lock = None, !.reply = None]
<1>1. /\ r \in JobType /\ t \in TaskType /\ d \in DestType /\ c \in Keeps \cup {None}
      /\ FileOK(f, r, t, d, c) /\ JobOK(JobOf[f], r) /\ f \in FilesOf(JobOf[f])
      /\ t.at = "answered"
  BY Instances DEF Answered
<1>2. f # None
  BY TransfersAssumption
<1>3. /\ r.lock = f /\ r.answer = None /\ r.policy = "ask" /\ a # None /\ c = None
      /\ t.resume = None /\ r.pc \in {"hand", "join"}
  BY <1>1, <1>2 DEF JobOK, FileOK, Placed, Asked, DecidedOnce, OffsetsFit, JobType, Running
<1>4. a \in Replies
  BY <1>1, <1>3 DEF JobType
<1>5. a.choice \in (Policies \ {"ask"}) \cup {"cancel"} /\ a.forAll \in BOOLEAN
  BY <1>4 DEF Replies
<1>6. /\ UNCHANGED <<dest, parallel, owed, budget>>
      /\ IF a.choice = "cancel"
         THEN /\ tasks' = [tasks EXCEPT ![f] = [t EXCEPT !.at = "cancelled"]]
              /\ permits' = permits + 1
              /\ jobs' = [jobs EXCEPT ![JobOf[f]] = job]
              /\ UNCHANGED choice
         ELSE Decided(f, a.choice, IF a.forAll THEN [job EXCEPT !.policy = a.choice] ELSE job)
  BY DEF Answered, Return
<1>7. /\ job \in JobType /\ job.pc = r.pc /\ job.state = "running" /\ job.lock = None
      /\ job.answer = None /\ job.request = r.request /\ job.policy = r.policy
      /\ job.bytes = r.bytes
  <2> HIDE DEF r
  <2>1. job \in JobType
    BY <1>1, JobUpdates
  <2>2. QED
    BY <1>1, <1>3, <2>1 DEF JobType
<1>8. CASE a.choice = "cancel"
  <2> DEFINE u == [t EXCEPT !.at = "cancelled"]
  <2>1. /\ jobs' = [jobs EXCEPT ![JobOf[f]] = job] /\ tasks' = [tasks EXCEPT ![f] = u]
        /\ dest' = [dest EXCEPT ![f] = d] /\ choice' = [choice EXCEPT ![f] = c]
        /\ permits' = permits + 1
    BY <1>6, <1>8 DEF IInv, TypeOK
  <2>2. permits \in Nat /\ budget \in [controls : Nat, failures : Nat, retries : Nat]
    BY Instances
  <2>3. \A g \in FilesOf(JobOf[f]) : FileOK(g, r, tasks[g], dest[g], choice[g])
    BY Instances
  <2> HIDE DEF r, t, d, c, job
  <2>4. u \in TaskType
    BY <1>1, TaskUpdates DEF Phases
  <2>5. /\ u.at = "cancelled" /\ u.resume = t.resume /\ u.offset = t.offset /\ u.alt = t.alt
        /\ Held(u) = 0 /\ Held(t) = 1
    BY <1>1 DEF TaskType, Held, Running
  <2> HIDE DEF u
  <2>6. JobOK(JobOf[f], job)
    BY <1>3, <1>7 DEF JobOK
  <2>7. FileOK(f, job, u, d, c)
    <3>1. Placed(job, u) /\ Asked(f, job, u) /\ DecidedOnce(job, u, c)
      BY <1>2, <1>3, <1>7, <2>5 DEF Placed, Asked, DecidedOnce, Running
    <3>2. OffsetsFit(job, u, d, c)
      BY <1>1, <1>7, <2>5 DEF FileOK, OffsetsFit
    <3>3. CopiesPart(job, u, d, c)
      BY <1>1, <1>7, <2>5 DEF FileOK, CopiesPart
    <3>4. QED
      BY <1>1, <3>1, <3>2, <3>3 DEF FileOK
  <2>8. ASSUME NEW g \in FilesOf(JobOf[f]) \ {f}
        PROVE  FileOK(g, job, tasks[g], dest[g], choice[g])
    <3>1. g # None /\ g # f /\ FileOK(g, r, tasks[g], dest[g], choice[g])
      BY <2>3, TransfersAssumption DEF FilesOf
    <3>2. Placed(job, tasks[g])
      BY <1>3, <1>7, <3>1 DEF FileOK, Placed
    <3>3. QED
      BY <1>3, <1>7, <3>1, <3>2, Unnoticed
  <2>9. permits' \in Nat /\ permits' + Held(u) = permits + Held(t)
    BY <2>1, <2>2, <2>5
  <2>10. QED
    BY <1>1, <1>6, <1>7, <2>1, <2>2, <2>4, <2>5, <2>6, <2>7, <2>8, <2>9, FileStep DEF r, t
<1>9. CASE a.choice # "cancel"
  <2> DEFINE q == IF a.forAll THEN [job EXCEPT !.policy = a.choice] ELSE job
  <2>1. Decided(f, a.choice, q) /\ a.choice \in Policies \ {"ask"}
    BY <1>5, <1>6, <1>9
  <2>2. /\ q \in JobType /\ q.pc = job.pc /\ q.state = job.state /\ q.lock = job.lock
        /\ q.answer = job.answer /\ q.request = job.request /\ q.bytes = job.bytes
    <3> HIDE DEF job
    <3>1. q \in JobType
      BY <1>7, <2>1, JobUpdates
    <3>2. QED
      BY <1>7, <3>1 DEF JobType
  <2> HIDE DEF q
  <2>3. q.state \in {"done", "failed", "cancelled"} <=> q.pc = "over"
    BY <1>3, <1>7, <2>2
  <2>4. QED
    BY <1>1, <1>3, <1>6, <1>7, <2>1, <2>2, <2>3, DecidedKeeps
<1>10. QED
  BY <1>8, <1>9

-----------------------------------------------------------------------------
(* Answers, cancels, rounds and retries.                                     *)

(* The answer to a question, the user's or a cancel's.                       *)
LEMMA AnswerStep ==
    ASSUME IInv, NEW j \in Jobs, NEW job \in JobType, jobs[j].answer # None,
           jobs' = [jobs EXCEPT ![j] = job],
           tasks' = [tasks EXCEPT ![jobs[j].answer].at = "answered"],
           UNCHANGED <<dest, permits, parallel, owed, choice, budget>>,
           job.pc = jobs[j].pc, job.state = jobs[j].state, job.request = jobs[j].request,
           job.policy = jobs[j].policy, job.lock = jobs[j].lock, job.bytes = jobs[j].bytes,
           job.answer = None, job.reply \in Replies
    PROVE  IInv'
<1> DEFINE f == jobs[j].answer
           r == jobs[j]   t == tasks[f]   d == dest[f]   c == choice[f]
           u == [t EXCEPT !.at = "answered"]
<1>1. /\ r \in JobType /\ JobOK(j, r) /\ f = r.lock /\ f \in FilesOf(j)
  <2>1. r \in JobType /\ JobOK(j, r)
    BY Instances
  <2>2. QED
    BY <2>1 DEF JobOK
<1>2. f \in Files /\ JobOf[f] = j /\ f # None
  BY <1>1, TransfersAssumption DEF FilesOf
<1>3. /\ t \in TaskType /\ d \in DestType /\ c \in Keeps \cup {None}
      /\ FileOK(f, r, t, d, c)
  BY <1>1, <1>2, Instances
<1>4. /\ tasks' = [tasks EXCEPT ![f] = u] /\ jobs' = [jobs EXCEPT ![JobOf[f]] = job]
      /\ dest' = [dest EXCEPT ![f] = d] /\ choice' = [choice EXCEPT ![f] = c]
  BY <1>2 DEF IInv, TypeOK
<1>5. permits \in Nat /\ budget \in [controls : Nat, failures : Nat, retries : Nat]
  BY Instances
<1>6. \A g \in FilesOf(j) : FileOK(g, r, tasks[g], dest[g], choice[g])
  BY Instances
<1>7. /\ job.pc = r.pc /\ job.state = r.state /\ job.request = r.request
      /\ job.policy = r.policy /\ job.lock = f /\ job.bytes = r.bytes
      /\ job.reply # None /\ job.answer = None
  BY <1>1, TransfersAssumption
<1>8. t.at = "ask" /\ r.answer = f
  BY <1>3 DEF FileOK, Asked
<1> HIDE DEF f, r, t, d, c
<1>9. u \in TaskType
  BY <1>3, TaskUpdates DEF Phases, Running
<1>10. /\ u.at = "answered" /\ u.resume = t.resume /\ u.offset = t.offset /\ u.alt = t.alt
       /\ Held(u) = 1 /\ Held(t) = 1 /\ Counted(u) = Counted(t)
  BY <1>3, <1>8 DEF TaskType, Held, Running, Counted
<1> HIDE DEF u
<1>11. JobOK(j, job)
  BY <1>1, <1>7 DEF JobOK
<1>12. FileOK(f, job, u, d, c)
  <2>1. Placed(job, u) /\ Asked(f, job, u) /\ DecidedOnce(job, u, c)
    BY <1>2, <1>3, <1>7, <1>8, <1>10 DEF FileOK, Placed, Asked, DecidedOnce, Running
  <2>2. OffsetsFit(job, u, d, c)
    BY <1>3, <1>7, <1>8, <1>10 DEF FileOK, OffsetsFit
  <2>3. CopiesPart(job, u, d, c)
    BY <1>3, <1>7, <1>8, <1>10 DEF FileOK, CopiesPart
  <2>4. QED
    BY <1>3, <2>1, <2>2, <2>3 DEF FileOK
<1>13. ASSUME NEW g \in FilesOf(j) \ {f}
       PROVE  FileOK(g, job, tasks[g], dest[g], choice[g])
  <2>1. g # None /\ g # f /\ FileOK(g, r, tasks[g], dest[g], choice[g])
    BY <1>6, TransfersAssumption DEF FilesOf
  <2>2. Placed(job, tasks[g])
    BY <1>7, <2>1 DEF FileOK, Placed
  <2>3. QED
    BY <1>1, <1>7, <1>8, <2>1, <2>2, Unnoticed
<1>14. job.bytes = r.bytes + Counted(u) - Counted(t)
  BY <1>1, <1>3, <1>7, <1>10, NothingCounted
<1>15. permits' \in Nat /\ permits' + Held(u) = permits + Held(t)
  BY <1>5, <1>10
<1>16. t.at \notin {"failed", "cancelled"} /\ r = jobs[JobOf[f]] /\ t = tasks[f]
  BY <1>2, <1>8 DEF r, t
<1>17. QED
  BY <1>2, <1>3, <1>4, <1>5, <1>9, <1>11, <1>12, <1>13, <1>14, <1>15, <1>16, FileStep

LEMMA UserAnswersKeeps ==
    ASSUME IInv, NEW j \in Jobs, UserAnswers(j)
    PROVE  IInv'
<1>1. PICK reply \in Replies : Answer(j, reply)
  BY TransfersAssumption DEF UserAnswers, Replies
<1> DEFINE r == jobs[j]
           job == [r EXCEPT !.answer = None, !.reply = reply]
<1>2. r \in JobType
  BY Instances
<1>3. jobs' = [jobs EXCEPT ![j] = job]
  BY <1>1 DEF Answer
<1> HIDE DEF r
<1>4. job \in JobType
  BY <1>2, JobUpdates
<1>5. /\ job.pc = r.pc /\ job.state = r.state /\ job.request = r.request
      /\ job.policy = r.policy /\ job.lock = r.lock /\ job.bytes = r.bytes
      /\ job.answer = None /\ job.reply = reply
  BY <1>2 DEF JobType
<1> HIDE DEF job
<1>6. QED
  BY <1>1, <1>3, <1>4, <1>5, AnswerStep DEF Answer, r

LEMMA CancelKeeps ==
    ASSUME IInv, NEW j \in Jobs, Cancel(j)
    PROVE  IInv'
<1> DEFINE r == jobs[j]
           a == IF r.answer = None THEN r.reply ELSE [choice |-> "cancel", forAll |-> FALSE]
           job == [r EXCEPT !.control = "cancel", !.changed = TRUE, !.answer = None, !.reply = a]
<1>1. r \in JobType /\ JobOK(j, r)
  BY Instances
<1>2. jobs' = [jobs EXCEPT ![j] = job]
  BY DEF Cancel
<1>3. \A f \in FilesOf(j) : Placed(r, tasks[f])
  BY Instances DEF FileOK
<1> HIDE DEF r
<1>4. a \in Replies \cup {None} /\ (r.answer # None => a \in Replies)
  <2>1. [choice |-> "cancel", forAll |-> FALSE] \in Replies
    BY DEF Replies
  <2>2. r.reply \in Replies \cup {None}
    BY <1>1 DEF JobType
  <2>3. QED
    BY <2>1, <2>2
<1>5. r.answer = None => a = r.reply
  OBVIOUS
<1> HIDE DEF a
<1>6. job \in JobType
  BY <1>1, <1>4, JobUpdates
<1>7. /\ job.pc = r.pc /\ job.state = r.state /\ job.request = r.request
      /\ job.policy = r.policy /\ job.lock = r.lock /\ job.bytes = r.bytes
      /\ job.answer = None /\ job.reply = a
  BY <1>1 DEF JobType
<1> HIDE DEF job
<1>8. CASE r.answer = None
  <2>1. UNCHANGED <<tasks, dest, permits, parallel, owed, choice, budget>>
    BY <1>8 DEF Cancel, r
  <2>2. \A f \in FilesOf(j) : Placed(job, tasks[f])
    BY <1>3, <1>7 DEF Placed
  <2>3. job.state \in {"done", "failed", "cancelled"} <=> job.pc = "over"
    BY <1>1, <1>7 DEF JobOK
  <2>4. budget' \in [controls : Nat, failures : Nat, retries : Nat]
    BY <2>1, Instances
  <2>5. QED
    BY <1>2, <1>5, <1>6, <1>7, <1>8, <2>1, <2>2, <2>3, <2>4, LoopStep DEF r
<1>9. CASE r.answer # None
  <2>1. /\ tasks' = [tasks EXCEPT ![jobs[j].answer].at = "answered"]
        /\ UNCHANGED <<dest, permits, parallel, owed, choice, budget>>
    BY <1>9 DEF Cancel, r
  <2>2. QED
    BY <1>2, <1>4, <1>6, <1>7, <1>9, <2>1, AnswerStep DEF r
<1>10. QED
  BY <1>8, <1>9

(* A step of a job that puts its files, none of which is running, elsewhere. *)
LEMMA RoundStep ==
    ASSUME IInv, NEW j \in Jobs, NEW job \in JobType, NEW T \in [Files -> TaskType],
           jobs' = [jobs EXCEPT ![j] = job], tasks' = T,
           UNCHANGED <<dest, permits, parallel, owed, choice>>,
           budget' \in [controls : Nat, failures : Nat, retries : Nat],
           \A f \in Files \ FilesOf(j) : T[f] = tasks[f],
           \A f \in FilesOf(j) : /\ T[f].at \notin Running /\ tasks[f].at \notin Running
                                 /\ FileOK(f, job, T[f], dest[f], choice[f]),
           JobOK(j, job),
           job.bytes = Cardinality(Chunks(FilesOf(j), [f \in FilesOf(j) |-> Counted(T[f])]))
    PROVE  IInv'
<1>1. TypeOK'
  BY DEF IInv, TypeOK
<1>2. /\ \A k \in Jobs : jobs'[k] = IF k = j THEN job ELSE jobs[k]
      /\ \A f \in Files : f \notin FilesOf(j) => tasks'[f] = tasks[f]
  BY DEF IInv, TypeOK
<1>3. ASSUME NEW k \in Jobs
      PROVE  JobOK(k, jobs[k])'
  <2>1. JobOK(k, jobs[k])' <=> JobOK(k, jobs'[k])
    BY DEF JobOK, FilesOf
  <2>2. QED
    BY <1>2, <2>1 DEF IInv
<1>4. ASSUME NEW k \in Jobs
      PROVE  BytesOK(k)'
  <2> DEFINE old == [g \in FilesOf(k) |-> Counted(tasks[g])]
             new == [g \in FilesOf(k) |-> Counted(tasks'[g])]
  <2>1. BytesOK(k)' <=> ((\A g \in FilesOf(k) : tasks'[g].at \notin {"failed", "cancelled"})
                          => jobs'[k].bytes = Cardinality(Chunks(FilesOf(k), new)))
    BY DEF BytesOK, FilesOf, CountedFiles, Counted, Chunks
  <2>2. BytesOK(k) <=> ((\A g \in FilesOf(k) : tasks[g].at \notin {"failed", "cancelled"})
                          => jobs[k].bytes = Cardinality(Chunks(FilesOf(k), old)))
    BY DEF BytesOK, FilesOf, CountedFiles, Counted, Chunks
  <2>3. CASE k = j
    <3>1. jobs'[k].bytes = Cardinality(Chunks(FilesOf(k), new))
      BY <1>2, <2>3
    <3>2. QED
      BY <2>1, <3>1
  <2>4. CASE k # j
    <3>1. \A g \in FilesOf(k) : tasks'[g] = tasks[g]
      BY <1>2, <2>4 DEF FilesOf
    <3>2. new = old
      BY <3>1
    <3>3. BytesOK(k)
      BY DEF IInv
    <3>4. jobs'[k] = jobs[k]
      BY <1>2, <2>4
    <3> HIDE DEF new, old
    <3>5. QED
      BY <2>1, <2>2, <3>1, <3>2, <3>3, <3>4
  <2>5. QED
    BY <2>3, <2>4
<1>5. ASSUME NEW g \in Files
      PROVE  FileOK(g, jobs[JobOf[g]], tasks[g], dest[g], choice[g])'
  <2>1. FileOK(g, jobs'[JobOf[g]], tasks'[g], dest'[g], choice'[g])
    BY <1>2, TransfersAssumption DEF IInv, FilesOf
  <2>2. QED
    BY <2>1 DEF FileOK, Placed, Asked, DecidedOnce, OffsetsFit, CopiesPart, There, Part
<1>6. PermitsExact'
  <2>1. \A f \in Files : tasks'[f].at \in Running <=> tasks[f].at \in Running
    BY <1>2
  <2>2. {f \in Files : tasks'[f].at \in Running} = {f \in Files : tasks[f].at \in Running}
    BY <2>1
  <2>3. QED
    BY <2>2 DEF IInv, PermitsExact
<1>7. QED
  BY <1>1, <1>3, <1>4, <1>5, <1>6 DEF IInv

(* The next round: the parked files are handed out again.                    *)
Unparked(t) == IF t.at = "parked" THEN [t EXCEPT !.at = "pending"] ELSE t

LEMMA ParkedFile ==
    ASSUME NEW f, NEW r \in JobType, NEW q \in JobType, NEW t \in TaskType, NEW d \in DestType,
           NEW c \in Keeps \cup {None}, FileOK(f, r, t, d, c),
           r.pc = "join", t.at \notin Running \cup {"failed", "cancelled"},
           NEW u \in TaskType,
           u = Unparked(t),
           q.pc = "wait", q.state = r.state, q.request = r.request, q.policy = r.policy,
           q.lock = r.lock, q.answer = r.answer, q.reply = r.reply
    PROVE  FileOK(f, q, u, d, c) /\ Counted(u) = Counted(t)
           /\ u.at \notin Running \cup {"failed", "cancelled"}
<1>1. t.at \in {"parked", "done", "skipped"}
  BY DEF FileOK, Placed, TaskType, Phases
<1>2. Counted(u) = Counted(t) /\ u.at \in {"pending", "done", "skipped"}
  BY <1>1 DEF Counted, TaskType, Unparked
<1>3. FileOK(f, q, u, d, c)
  <2>1. CASE t.at = "parked"
    BY <2>1 DEF FileOK, Placed, Asked, DecidedOnce, OffsetsFit, CopiesPart, There, TaskType,
                Running, Unparked
  <2>2. CASE t.at # "parked"
    <3>1. u = t /\ t.at \in {"done", "skipped"}
      BY <1>1, <2>2 DEF Unparked
    <3>2. Placed(q, u)
      BY <3>1 DEF FileOK, Placed
    <3>3. QED
      BY <3>1, <3>2, Unnoticed
  <2>3. QED
    BY <2>1, <2>2
<1>4. QED
  BY <1>2, <1>3 DEF Running

LEMMA JoinKeeps ==
    ASSUME IInv, NEW j \in Jobs, Join(j)
    PROVE  IInv'
<1> DEFINE r == jobs[j]
           errors == {"failed", "cancelled"} \cap {tasks[f].at : f \in FilesOf(j)}
<1>1. /\ r \in JobType /\ JobOK(j, r) /\ r.pc = "join"
      /\ budget \in [controls : Nat, failures : Nat, retries : Nat]
  BY Instances DEF Join
<1>2. \A f \in FilesOf(j) : /\ f \in Files /\ tasks[f].at \notin Running \cup {"queued"}
                            /\ FileOK(f, r, tasks[f], dest[f], choice[f])
  <2>1. \A f \in FilesOf(j) : f \in Files /\ FileOK(f, r, tasks[f], dest[f], choice[f])
    BY Instances DEF FilesOf
  <2>2. QED
    BY <1>1, <2>1 DEF Join, FileOK, Placed
<1>3. CASE errors # {}
  <2>1. PICK e \in errors : End(j, e)
    BY <1>3 DEF Join
  <2>2. UNCHANGED <<tasks, dest, permits, parallel, owed, choice, budget>>
    BY <1>3 DEF Join
  <2>3. e \in {"failed", "cancelled"}
    BY <2>1
  <2>4. QED
    BY <1>1, <1>2, <2>1, <2>2, <2>3, EndStep
<1>4. CASE errors = {}
  <2> DEFINE job == [r EXCEPT !.pc = "wait"]
             T == [f \in Files |-> IF f \in FilesOf(j) /\ tasks[f].at = "parked"
                                   THEN [tasks[f] EXCEPT !.at = "pending"] ELSE tasks[f]]
  <2>1. /\ jobs' = [jobs EXCEPT ![j] = job] /\ tasks' = T
        /\ UNCHANGED <<dest, permits, parallel, owed, choice, budget>>
    BY <1>4 DEF Join
  <2>2. \A f \in FilesOf(j) : tasks[f].at \notin {"failed", "cancelled"}
    BY <1>4
  <2>3. /\ job \in JobType /\ job.pc = "wait" /\ job.state = r.state /\ job.request = r.request
        /\ job.policy = r.policy /\ job.lock = r.lock /\ job.answer = r.answer
        /\ job.reply = r.reply /\ job.bytes = r.bytes
    <3> HIDE DEF r
    <3>1. job \in JobType
      BY <1>1, JobUpdates
    <3>2. QED
      BY <1>1, <3>1 DEF JobType
  <2>4. \A f \in Files : tasks[f] \in TaskType /\ [tasks[f] EXCEPT !.at = "pending"] \in TaskType
    BY Instances, TaskUpdates DEF Phases
  <2>5. T \in [Files -> TaskType]
    BY <2>4
  <2>6. JobOK(j, job)
    BY <1>1, <2>3 DEF JobOK
  <2> HIDE DEF job, r
  <2>7. ASSUME NEW f \in FilesOf(j)
        PROVE  /\ FileOK(f, job, T[f], dest[f], choice[f]) /\ Counted(T[f]) = Counted(tasks[f])
               /\ T[f].at \notin Running \cup {"failed", "cancelled"}
    <3>1. /\ tasks[f] \in TaskType /\ dest[f] \in DestType /\ choice[f] \in Keeps \cup {None}
          /\ T[f] \in TaskType
      BY <1>2, <2>4, Instances
    <3>2. T[f] = Unparked(tasks[f])
      BY <1>2 DEF Unparked
    <3> HIDE DEF T
    <3>3. /\ FileOK(f, r, tasks[f], dest[f], choice[f])
          /\ tasks[f].at \notin Running \cup {"failed", "cancelled"}
      BY <1>2, <2>2
    <3>4. QED
      BY <1>1, <2>3, <3>1, <3>2, <3>3, ParkedFile
  <2>8. job.bytes = Cardinality(Chunks(FilesOf(j), [f \in FilesOf(j) |-> Counted(T[f])]))
    <3> HIDE DEF T
    <3>1. BytesOK(j) /\ FilesOf(j) \in SUBSET Files
      BY FilesOfFinite DEF IInv
    <3>2. r.bytes = Cardinality(Chunks(FilesOf(j), CountedFiles))
      BY <2>2, <3>1 DEF BytesOK, r
    <3>3. Chunks(FilesOf(j), CountedFiles)
            = Chunks(FilesOf(j), [f \in FilesOf(j) |-> Counted(T[f])])
      BY <2>7, <3>1 DEF Chunks, CountedFiles
    <3>4. QED
      BY <2>3, <3>2, <3>3
  <2>9. \A f \in Files \ FilesOf(j) : T[f] = tasks[f]
    OBVIOUS
  <2> HIDE DEF T
  <2>10. QED
    BY <1>1, <1>2, <2>1, <2>3, <2>5, <2>6, <2>7, <2>8, <2>9, RoundStep
<1>5. QED
  BY <1>3, <1>4

(* A job that starts over: its files have no offset, and nothing is counted. *)
LEMMA NewFile ==
    ASSUME NEW f \in Files, NEW r \in JobType, NEW q \in JobType, NEW t \in TaskType,
           NEW d \in DestType, NEW c \in Keeps \cup {None}, FileOK(f, r, t, d, c),
           q.pc = "scan", q.state = "scanning", q.policy = "resume", q.lock = None,
           q.answer = None
    PROVE  FileOK(f, q, NewTask, d, c)
<1>1. /\ NewTask.at = "pending" /\ NewTask.resume = None /\ NewTask.offset = 0
      /\ NewTask.alt = FALSE
  BY DEF NewTask
<1>2. f # None
  BY TransfersAssumption
<1>3. Placed(q, NewTask) /\ Asked(f, q, NewTask) /\ DecidedOnce(q, NewTask, c)
  BY <1>1, <1>2 DEF Placed, Asked, DecidedOnce
<1>4. OffsetsFit(q, NewTask, d, c)
  BY <1>1 DEF OffsetsFit
<1>5. CopiesPart(q, NewTask, d, c)
  BY <1>1 DEF FileOK, CopiesPart, OffsetsFit
<1>6. QED
  BY <1>3, <1>4, <1>5 DEF FileOK

LEMMA NothingYet ==
    ASSUME NEW F, NEW a, \A f \in F : a[f] = 0
    PROVE  Cardinality(Chunks(F, a)) = 0
<1>1. Chunks(F, a) = {}
  BY DEF Chunks
<1>2. QED
  BY <1>1, FS_EmptySet

LEMMA RetryKeeps ==
    ASSUME IInv, NEW j \in Jobs, Retry(j)
    PROVE  IInv'
<1> DEFINE r == jobs[j]
           job == NewJob([r.request EXCEPT !.policy = "resume"])
           T == [f \in Files |-> IF f \in FilesOf(j) THEN NewTask ELSE tasks[f]]
<1>1. r \in JobType /\ JobOK(j, r) /\ r.state \in {"failed", "cancelled"}
  BY Instances DEF Retry
<1>2. /\ jobs' = [jobs EXCEPT ![j] = job] /\ tasks' = T
      /\ UNCHANGED <<dest, permits, parallel, owed, choice>>
      /\ budget' \in [controls : Nat, failures : Nat, retries : Nat]
  BY Instances, BudgetType DEF Retry
<1>3. \A f \in FilesOf(j) : /\ f \in Files /\ tasks[f].at \notin Running
                            /\ FileOK(f, r, tasks[f], dest[f], choice[f])
                            /\ T[f] = NewTask
  <2>1. \A f \in FilesOf(j) : f \in Files /\ FileOK(f, r, tasks[f], dest[f], choice[f])
    BY Instances DEF FilesOf
  <2>2. r.pc = "over"
    BY <1>1 DEF JobOK
  <2>3. QED
    BY <2>1, <2>2 DEF FileOK, Placed
<1>4. /\ job \in JobType /\ job.pc = "scan" /\ job.state = "scanning" /\ job.policy = "resume"
      /\ job.lock = None /\ job.answer = None /\ job.bytes = 0
  <2> HIDE DEF r
  <2>1. job \in JobType
    BY <1>1, JobUpdates
  <2>2. [r.request EXCEPT !.policy = "resume"].policy = "resume"
    BY <1>1 DEF JobType
  <2>3. QED
    BY <2>1, <2>2 DEF NewJob
<1> HIDE DEF job, r
<1>5. NewTask \in TaskType /\ NewTask.at \notin Running /\ Counted(NewTask) = 0
  <2>1. NewTask.at = "pending" /\ NewTask.resume = None
    BY DEF NewTask
  <2>2. 0 \in 0 .. Size
    BY TransfersAssumption
  <2>3. NewTask \in TaskType
    BY <2>2 DEF NewTask, TaskType, Phases
  <2>4. QED
    BY <2>1, <2>3 DEF Running, Counted
<1>6. T \in [Files -> TaskType]
  BY <1>5, Instances
<1>7. \A f \in Files \ FilesOf(j) : T[f] = tasks[f]
  OBVIOUS
<1> HIDE DEF T
<1>8. JobOK(j, job)
  BY <1>4 DEF JobOK
<1>9. ASSUME NEW f \in FilesOf(j)
      PROVE  T[f].at \notin Running /\ FileOK(f, job, T[f], dest[f], choice[f])
  <2>1. /\ tasks[f] \in TaskType /\ dest[f] \in DestType /\ choice[f] \in Keeps \cup {None}
        /\ f \in Files /\ FileOK(f, r, tasks[f], dest[f], choice[f]) /\ T[f] = NewTask
    BY <1>3, Instances
  <2>2. QED
    BY <1>1, <1>4, <1>5, <2>1, NewFile
<1>10. job.bytes = Cardinality(Chunks(FilesOf(j), [f \in FilesOf(j) |-> Counted(T[f])]))
  <2> DEFINE a == [f \in FilesOf(j) |-> Counted(T[f])]
  <2>1. \A f \in FilesOf(j) : a[f] = 0
    BY <1>3, <1>5
  <2> HIDE DEF a
  <2>2. Cardinality(Chunks(FilesOf(j), a)) = 0
    BY <2>1, NothingYet
  <2>3. QED
    BY <1>4, <2>2 DEF a
<1>11. QED
  BY <1>2, <1>3, <1>4, <1>6, <1>7, <1>8, <1>9, <1>10, RoundStep

-----------------------------------------------------------------------------
(* The theorems.                                                             *)

(* A change of the limit and the task that takes permits back only move      *)
(* permits between the free ones, the limit and what is owed.                *)
LEMMA LimitKeeps ==
    ASSUME IInv, (\E n \in 1 .. MaxParallel : SetParallel(n)) \/ TakeBack
    PROVE  IInv'
<1> DEFINE used == Cardinality({f \in Files : tasks[f].at \in Running})
<1>1. UNCHANGED <<jobs, tasks, dest, choice>>
  BY DEF SetParallel, TakeBack
<1>2. /\ permits \in Nat /\ parallel \in 1 .. MaxParallel /\ owed \in Nat
      /\ MaxParallel \in Nat /\ permits + used = parallel + owed
      /\ budget \in [controls : Nat, failures : Nat, retries : Nat]
  BY TransfersAssumption DEF IInv, TypeOK, PermitsExact
<1>3. used \in Nat
  <2>1. {f \in Files : tasks[f].at \in Running} \in SUBSET Files
    OBVIOUS
  <2>2. QED
    BY <2>1, FS_Subset, FS_CardinalityType, TransfersAssumption
<1>4. used' = used
  BY <1>1
<1> HIDE DEF used
<1>5. /\ permits' \in Nat /\ parallel' \in 1 .. MaxParallel /\ owed' \in Nat
      /\ budget' \in [controls : Nat, failures : Nat, retries : Nat]
      /\ permits' + used = parallel' + owed'
  <2>1. ASSUME NEW n \in 1 .. MaxParallel, SetParallel(n)
        PROVE  /\ permits' \in Nat /\ parallel' \in 1 .. MaxParallel /\ owed' \in Nat
               /\ permits' + used = parallel' + owed'
    <3>1. CASE n > parallel
      BY <1>2, <1>3, <2>1, <3>1 DEF SetParallel
    <3>2. CASE ~(n > parallel)
      BY <1>2, <1>3, <2>1, <3>2 DEF SetParallel
    <3>3. QED
      BY <3>1, <3>2
  <2>2. ASSUME TakeBack
        PROVE  /\ permits' \in Nat /\ parallel' \in 1 .. MaxParallel /\ owed' \in Nat
               /\ permits' + used = parallel' + owed'
    <3>1. PICK n \in 1 .. owed :
            n <= permits /\ owed' = owed - n /\ permits' = permits - n /\ parallel' = parallel
      BY <2>2 DEF TakeBack
    <3>2. QED
      BY <1>2, <1>3, <3>1
  <2>3. budget' \in [controls : Nat, failures : Nat, retries : Nat]
    BY <1>2, BudgetType DEF SetParallel, TakeBack
  <2>4. QED
    BY <2>1, <2>2, <2>3
<1>6. TypeOK'
  BY <1>1, <1>5 DEF IInv, TypeOK
<1>7. PermitsExact'
  BY <1>4, <1>5 DEF PermitsExact, used
<1>8. ASSUME NEW j \in Jobs
      PROVE  JobOK(j, jobs[j])' /\ BytesOK(j)'
  <2>1. JobOK(j, jobs[j]) /\ BytesOK(j)
    BY DEF IInv
  <2>2. QED
    BY <1>1, <2>1 DEF JobOK, BytesOK, FilesOf, Chunks, CountedFiles, Counted
<1>9. ASSUME NEW f \in Files
      PROVE  FileOK(f, jobs[JobOf[f]], tasks[f], dest[f], choice[f])'
  <2>1. FileOK(f, jobs'[JobOf[f]], tasks'[f], dest'[f], choice'[f])
    BY <1>1 DEF IInv
  <2>2. QED
    BY <2>1 DEF FileOK, Placed, Asked, DecidedOnce, OffsetsFit, CopiesPart, There, Part
<1>10. QED
  BY <1>6, <1>7, <1>8, <1>9 DEF IInv

(* Init establishes the invariant.                                           *)
LEMMA InitIInv == Init => IInv
<1> SUFFICES ASSUME Init PROVE IInv
  OBVIOUS
<1>1. PICK request \in [Jobs -> Requests] : jobs = [j \in Jobs |-> NewJob(request[j])]
  BY DEF Init
<1>2. PICK there \in Found :
         dest = [f \in Files |-> [own |-> there[f], alt |-> Absent, found |-> there[f]]]
  BY DEF Init
<1>3. /\ tasks = [f \in Files |-> NewTask] /\ choice = [f \in Files |-> None]
      /\ permits = MaxParallel /\ parallel = MaxParallel /\ owed = 0
      /\ budget = [controls |-> 0, failures |-> 0, retries |-> 0]
  BY DEF Init
<1>4. 0 \in 0 .. Size /\ MaxParallel \in 1 .. MaxParallel /\ MaxParallel \in Nat
  BY TransfersAssumption
<1>5. /\ NewTask \in TaskType /\ NewTask.at = "pending" /\ NewTask.resume = None
      /\ NewTask.offset = 0 /\ NewTask.alt = FALSE
  BY <1>4 DEF NewTask, TaskType, Phases
<1>6. ASSUME NEW q \in [policy : Policies, resumes : BOOLEAN, moves : BOOLEAN]
      PROVE  /\ NewJob(q) \in JobType /\ NewJob(q).pc = "scan" /\ NewJob(q).state = "scanning"
             /\ NewJob(q).lock = None /\ NewJob(q).answer = None /\ NewJob(q).bytes = 0
  BY DEF NewJob, JobType
<1>7. ASSUME NEW j \in Jobs
      PROVE  /\ jobs[j] \in JobType /\ jobs[j].pc = "scan" /\ jobs[j].state = "scanning"
             /\ jobs[j].lock = None /\ jobs[j].answer = None /\ jobs[j].bytes = 0
  <2>1. request[j] \in [policy : Policies, resumes : BOOLEAN, moves : BOOLEAN]
    BY TransfersAssumption
  <2>2. jobs[j] = NewJob(request[j])
    BY <1>1
  <2>3. QED
    BY <1>6, <2>1, <2>2
<1>8. ASSUME NEW f \in Files
      PROVE  /\ tasks[f] = NewTask /\ choice[f] = None /\ JobOf[f] \in Jobs /\ f # None
             /\ dest[f].own = there[f] /\ dest[f].alt = Absent /\ dest[f].found = there[f]
             /\ dest[f] \in DestType
  <2>1. tasks[f] = NewTask /\ choice[f] = None /\ JobOf[f] \in Jobs /\ f # None
    BY <1>3, TransfersAssumption
  <2>2. there[f] \in Contents /\ Absent \in Contents
    BY TransfersAssumption DEF Contents
  <2>3. QED
    BY <1>2, <2>1, <2>2 DEF DestType
<1>9. TypeOK
  <2>1. jobs \in [Jobs -> JobType]
    BY <1>1, <1>7
  <2>2. dest \in [Files -> DestType]
    BY <1>2, <1>8
  <2>3. tasks \in [Files -> TaskType] /\ choice \in [Files -> Keeps \cup {None}]
    BY <1>3, <1>5
  <2>4. QED
    BY <1>3, <1>4, <2>1, <2>2, <2>3 DEF TypeOK
<1>10. ASSUME NEW j \in Jobs
       PROVE  JobOK(j, jobs[j]) /\ BytesOK(j)
  <2>1. JobOK(j, jobs[j])
    BY <1>7 DEF JobOK
  <2>2. \A f \in FilesOf(j) : CountedFiles[f] = 0
    BY <1>5, <1>8 DEF CountedFiles, Counted, FilesOf
  <2>3. Cardinality(Chunks(FilesOf(j), CountedFiles)) = 0
    BY <2>2, NothingYet
  <2>4. QED
    BY <1>7, <2>1, <2>3 DEF BytesOK
<1>11. ASSUME NEW f \in Files
       PROVE  FileOK(f, jobs[JobOf[f]], tasks[f], dest[f], choice[f])
  <2> DEFINE r == jobs[JobOf[f]]
  <2>1. /\ r.pc = "scan" /\ r.state = "scanning" /\ r.lock = None /\ r.answer = None
    BY <1>7, <1>8
  <2> HIDE DEF r
  <2>2. Placed(r, NewTask) /\ Asked(f, r, NewTask) /\ DecidedOnce(r, NewTask, None)
    BY <1>5, <1>8, <2>1 DEF Placed, Asked, DecidedOnce
  <2>3. OffsetsFit(r, NewTask, dest[f], None)
    BY <1>5 DEF OffsetsFit
  <2>4. CopiesPart(r, NewTask, dest[f], None)
    BY <1>5, <1>8 DEF CopiesPart
  <2>5. QED
    BY <1>8, <2>2, <2>3, <2>4 DEF FileOK, r
<1>12. PermitsExact
  <2>1. {f \in Files : tasks[f].at \in Running} = {}
    BY <1>5, <1>8 DEF Running
  <2>2. QED
    BY <1>3, <1>4, <2>1, FS_EmptySet DEF PermitsExact
<1>13. QED
  BY <1>9, <1>10, <1>11, <1>12 DEF IInv

(* Every step keeps the invariant.                                           *)
LEMMA StepIInv == ASSUME IInv, [Next]_vars PROVE IInv'
<1>1. ASSUME NEW j \in Jobs, RunStep(j)
      PROVE  IInv'
  <2>1. ASSUME NEW f \in FilesOf(j), Queue(j, f) \/ Park(j, f)
        PROVE  IInv'
    BY <2>1, QueueKeeps DEF FilesOf
  <2>2. QED
    BY <1>1, <2>1, ScanKeeps, WaitRunningKeeps, AllHandedOutKeeps, JoinKeeps, CompleteKeeps
    DEF RunStep
<1>2. ASSUME NEW f \in Files, TaskStep(f)
      PROVE  IInv'
  BY <1>2, DecideKeeps, LockKeeps, AnsweredKeeps, OpenKeeps, CopyChunkKeeps, CopyDoneKeeps,
     CopyPausedKeeps, FileEndsKeeps DEF TaskStep
<1>3. ASSUME NEW j \in Jobs, Works(j)
      PROVE  IInv'
  <2>1. ASSUME NEW f \in FilesOf(j), HandOut(j, f) \/ TaskStep(f)
        PROVE  IInv'
    BY <1>2, <2>1, HandOutKeeps DEF FilesOf
  <2>2. QED
    BY <1>1, <1>3, <2>1 DEF Works
<1>4. ASSUME NEW j \in Jobs,
             \/ ScanFails(j) \/ RemoveFails(j) \/ Pause(j) \/ Resume(j) \/ Cancel(j)
             \/ Retry(j) \/ UserAnswers(j)
      PROVE  IInv'
  BY <1>4, ScanFailsKeeps, CompleteKeeps, ControlKeeps, CancelKeeps, RetryKeeps, UserAnswersKeeps
<1>5. ASSUME NEW f \in Files, FileFails(f)
      PROVE  IInv'
  BY <1>5, FileEndsKeeps
<1>6. CASE (\E n \in 1 .. MaxParallel : SetParallel(n)) \/ TakeBack
  BY <1>6, LimitKeeps
<1>7. CASE UNCHANGED vars
  <2>1. UNCHANGED <<jobs, tasks, dest, permits, parallel, owed, choice, budget>>
    BY <1>7 DEF vars
  <2>2. TypeOK' /\ PermitsExact'
    BY <2>1 DEF IInv, TypeOK, PermitsExact
  <2>3. \A j \in Jobs : JobOK(j, jobs[j])' /\ BytesOK(j)'
    BY <2>1 DEF IInv, JobOK, BytesOK, FilesOf, Chunks, CountedFiles, Counted
  <2>4. ASSUME NEW f \in Files
        PROVE  FileOK(f, jobs[JobOf[f]], tasks[f], dest[f], choice[f])'
    <3>1. FileOK(f, jobs'[JobOf[f]], tasks'[f], dest'[f], choice'[f])
      BY <2>1 DEF IInv
    <3>2. QED
      BY <3>1 DEF FileOK, Placed, Asked, DecidedOnce, OffsetsFit, CopiesPart, There, Part
  <2>5. QED
    BY <2>2, <2>3, <2>4 DEF IInv
<1>8. QED
  BY <1>3, <1>4, <1>5, <1>6, <1>7 DEF Next

(* The inductive invariant holds in every reachable state: where files can   *)
(* be, who holds the policy lock, which offsets are kept and what is at a    *)
(* destination follow from one another at every step.                        *)
THEOREM Inductive == Spec => []IInv
<1>1. Init => IInv
  BY InitIInv
<1>2. IInv /\ [Next]_vars => IInv'
  BY StepIInv
<1>3. QED
  BY <1>1, <1>2, PTL DEF Spec

(* Every variable of the queue keeps its type.                               *)
THEOREM TypeCorrect == Spec => []TypeOK
<1>1. IInv => TypeOK
  BY DEF IInv
<1>2. QED
  BY <1>1, Inductive, PTL

(* No permit is lost or made up, for any number of jobs, files and permits   *)
(* and whatever pauses, cancels, failures and changes of the limit           *)
(* (Queue::set_parallel) come in whatever order.                             *)
THEOREM PermitsBalance == Spec => []PermitsExact
<1>1. IInv => PermitsExact
  BY DEF IInv
<1>2. QED
  BY <1>1, Inductive, PTL

(* A job that is done counted each byte once, and a job that ended has no    *)
(* task running and no question left.                                        *)
LEMMA EndedJobs == ASSUME IInv PROVE BytesAddUp /\ OverIsOver
<1>1. ASSUME NEW j \in Jobs, Finished(j)
      PROVE  /\ jobs[j].answer = None /\ jobs[j].lock = None
             /\ \A f \in FilesOf(j) : tasks[f].at \notin Running
  <2>1. JobOK(j, jobs[j]) /\ jobs[j].pc = "over"
    BY <1>1, Instances DEF Finished, JobOK
  <2>2. \A f \in FilesOf(j) : /\ f \in Files /\ tasks[f].at \notin Running
                              /\ FileOK(f, jobs[j], tasks[f], dest[f], choice[f])
    <3>1. \A f \in FilesOf(j) : f \in Files /\ FileOK(f, jobs[j], tasks[f], dest[f], choice[f])
      BY Instances DEF FilesOf
    <3>2. QED
      BY <2>1, <3>1 DEF FileOK, Placed
  <2>3. jobs[j].lock = None
    BY <2>1, <2>2 DEF JobOK, FileOK, Asked, Running
  <2>4. QED
    BY <2>1, <2>2, <2>3 DEF JobOK
<1>2. ASSUME NEW j \in Jobs, jobs[j].state = "done"
      PROVE  jobs[j].bytes = Size * Cardinality(FilesOf(j))
  <2>1. \A f \in FilesOf(j) : f \in Files /\ tasks[f].at \in {"done", "skipped"}
    BY <1>2, Instances DEF FilesOf, FileOK, Placed
  <2>2. BytesOK(j)
    BY DEF IInv
  <2>3. jobs[j].bytes = Cardinality(Chunks(FilesOf(j), CountedFiles))
    BY <2>1, <2>2 DEF BytesOK
  <2>4. \A f \in FilesOf(j) : CountedFiles[f] = Size
    BY <2>1 DEF CountedFiles, Counted
  <2>5. QED
    BY <2>3, <2>4, AllChunks, FilesOfFinite
<1>3. QED
  BY <1>1, <1>2 DEF BytesAddUp, OverIsOver

(* If the tail of a file in the way tells whether it is a first part of the  *)
(* source, a job that is done copied every file whole, but for the ones that *)
(* were to be skipped or whose new name was forgotten, counted every byte    *)
(* once, and left no task: whatever was paused, retried, cancelled, renamed  *)
(* or failed on the way, and whether or not the storage can resume.          *)
THEOREM JobsAreSound ==
    ASSUME TailsTell
    PROVE  Spec => []JobsSound
<1>1. ASSUME IInv
      PROVE  DoneIsComplete
  <2> SUFFICES ASSUME NEW f \in Files, jobs[JobOf[f]].state = "done",
                      tasks[f].at # "skipped", ~Mislaid(f)
               PROVE  dest[f][Target(f)] = [i \in 1 .. Size |-> "new"]
    BY DEF DoneIsComplete
  <2>1. /\ FileOK(f, jobs[JobOf[f]], tasks[f], dest[f], choice[f]) /\ tasks[f].at = "done"
    BY <1>1, Instances DEF FileOK, Placed
  <2>2. There(tasks[f], dest[f]) = Part(Size)
    BY <2>1 DEF FileOK, CopiesPart, Mislaid
  <2>3. dest[f][Target(f)] = There(tasks[f], dest[f])
    BY DEF Target, There
  <2>4. QED
    BY <2>2, <2>3 DEF Part
<1>2. IInv => JobsSound
  BY <1>1, EndedJobs DEF JobsSound
<1>3. QED
  BY <1>2, Inductive, PTL

(* Nothing is written behind the user's back: once a job is over, no step    *)
(* changes what is at the destinations of its files.                         *)
LeavesOverAlone == \A f \in Files : Finished(JobOf[f]) => dest'[f] = dest[f]

THEOREM OverIsLeftAlone == Spec => [][LeavesOverAlone]_vars
<1>1. ASSUME IInv, Next
      PROVE  LeavesOverAlone
  <2> SUFFICES ASSUME NEW f \in Files, Finished(JobOf[f])
               PROVE  dest'[f] = dest[f]
    BY DEF LeavesOverAlone
  <2>1. tasks[f].at \notin Running
    BY <1>1, EndedJobs, Instances DEF OverIsOver
  <2>2. ASSUME NEW g \in Files, Open(g) \/ CopyChunk(g) \/ CopyDone(g) \/ CopyCancelled(g)
        PROVE  dest'[f] = dest[f]
    <3>1. g # f
      BY <2>1, <2>2 DEF Open, CopyChunk, CopyDone, CopyCancelled, Running
    <3>2. \E e \in {dest[g]} \cup {dest'[g]} : dest' = [dest EXCEPT ![g] = e]
      BY <1>1, <2>2 DEF Open, CopyChunk, CopyDone, CopyCancelled, IInv, TypeOK
    <3>3. QED
      BY <3>1, <3>2
  <2>3. ASSUME NEW j \in Jobs, RunStep(j)
        PROVE  dest' = dest
    <3>1. CASE Scan(j) \/ WaitRunning(j) \/ AllHandedOut(j) \/ Join(j) \/ Complete(j)
      BY <3>1 DEF Scan, WaitRunning, AllHandedOut, Join, Complete
    <3>2. CASE \E g \in FilesOf(j) : Queue(j, g) \/ Park(j, g)
      BY <3>2 DEF Queue, Park
    <3>3. QED
      BY <2>3, <3>1, <3>2 DEF RunStep
  <2>4. ASSUME NEW j \in Jobs, NEW g \in Files, HandOut(j, g)
        PROVE  dest' = dest
    BY <2>4 DEF HandOut
  <2>5. ASSUME NEW g \in Files, TaskStep(g)
        PROVE  dest'[f] = dest[f]
    <3>1. CASE Decide(g) \/ Lock(g) \/ Answered(g) \/ CopyPaused(g)
      BY <3>1 DEF Decide, Lock, Answered, CopyPaused
    <3>2. QED
      BY <2>2, <2>5, <3>1 DEF TaskStep
  <2>6. ASSUME NEW j \in Jobs,
               \/ ScanFails(j) \/ RemoveFails(j)
               \/ Pause(j) \/ Resume(j) \/ Cancel(j) \/ Retry(j) \/ UserAnswers(j)
        PROVE  dest' = dest
    <3>1. CASE ScanFails(j) \/ RemoveFails(j) \/ Retry(j)
      BY <3>1 DEF ScanFails, RemoveFails, Retry
    <3>2. CASE Pause(j) \/ Resume(j) \/ Cancel(j)
      BY <3>2 DEF Pause, Resume, Control, Cancel
    <3>3. CASE UserAnswers(j)
      BY <3>3 DEF UserAnswers, Answer
    <3>4. QED
      BY <2>6, <3>1, <3>2, <3>3
  <2>7. ASSUME \/ \E g \in Files : FileFails(g)
               \/ \E n \in 1 .. MaxParallel : SetParallel(n)
               \/ TakeBack
        PROVE  dest' = dest
    BY <2>7 DEF FileFails, SetParallel, TakeBack
  <2>8. ASSUME NEW j \in Jobs, Works(j)
        PROVE  dest'[f] = dest[f]
    BY <2>3, <2>4, <2>5, <2>8 DEF Works, FilesOf
  <2>9. QED
    BY <1>1, <2>6, <2>7, <2>8 DEF Next
<1>2. QED
  BY <1>1, Inductive, PTL DEF Spec

=============================================================================
