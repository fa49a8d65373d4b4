------------------------------ MODULE Recording ------------------------------
(***************************************************************************)
(* Session recordings (opensesh-term/src/recording.rs): the recorder, a    *)
(* tap of a session with its writer thread, the reader of a file, and the  *)
(* player thread with its controls.  A behaviour is in one of two lanes:   *)
(* "record" (a program prints bytes cut anywhere, a thread writes lines    *)
(* through a buffer, writes fail, the program stops) and "player" (a file, *)
(* maybe edited by hand, is read and played while the user pauses, jumps,  *)
(* changes the speed and starts again).                                    *)
(*                                                                         *)
(* A byte is its class: "a" a character of its own, "2", "3" and "4" the   *)
(* first byte of a longer character, "c" a byte that continues one.  Time  *)
(* is a number of ticks.                                                   *)
(***************************************************************************)
EXTENDS Integers, Sequences, SequencesExt, FiniteSets

CONSTANTS None,          \* an Option's None
          IdleLimit,     \* IDLE_LIMIT
          MinSpeed,      \* the clamp of set_speed
          MaxSpeed,
          Speeds,        \* the speeds the controls ask for
          Files,         \* the files a player is given
          Programs,      \* what a recorded program prints: sequences of bytes
          MaxTicks,      \* bounds: ticks, uses of the controls
          MaxUses

VARIABLES lane,
          now,           \* the clock
          rec,           \* the recorder, its channel, writer thread and file
          file,          \* the file a player reads: its lines
          ps,            \* PlayState
          pl,            \* the player thread: its locals and what it waits for
          sent,          \* what the player has sent to the terminal
          told           \* what the user has asked of the player so far

recordingVars == <<lane, now, rec, file, ps, pl, sent, told>>

SmallerOf(a, b) == IF a < b THEN a ELSE b
LargerOf(a, b) == IF a > b THEN a ELSE b
Concat(seqs) == FlattenSeq(seqs)

-----------------------------------------------------------------------------
(* UTF-8 cut across chunks.                                                *)

Continues(b) == b = "c"
Needed(b) == CASE b = "2" -> 2 [] b = "3" -> 3 [] b = "4" -> 4 [] OTHER -> 1

\* Mutant: only the last byte is looked at.
CompleteLast(bytes) ==
    IF bytes # <<>> /\ Needed(Last(bytes)) > 1 THEN Len(bytes) - 1 ELSE Len(bytes)

\* complete_utf8: how many bytes end on a whole character.
complete_utf8(bytes) ==
    LET n == Len(bytes)
        starts == {back \in 1..SmallerOf(n, 3) : ~Continues(bytes[n - back + 1])}
        back == CHOOSE b \in starts : \A o \in starts : b <= o
    IN  IF starts # {} /\ Needed(bytes[n - back + 1]) > back THEN n - back ELSE n

\* String::from_utf8_lossy: a character that is whole is its bytes; a first
\* byte with too few to continue it, or one that continues nothing, is "?".
Lossy(bytes) ==
    LET n == Len(bytes)
        Run(i) == Cardinality({k \in 1..(Needed(bytes[i]) - 1) :
                      i + k <= n /\ \A j \in 1..k : Continues(bytes[i + j])})
        Starts == {i \in 1..n : ~Continues(bytes[i])}
        Owned(i) == \E s \in Starts : s < i /\ i <= s + Run(s)
        Heads == SelectSeq([i \in 1..n |-> i], LAMBDA i : ~Owned(i))
        Char(i) == IF ~Continues(bytes[i]) /\ Run(i) = Needed(bytes[i]) - 1
                   THEN bytes[i] ELSE "?"
    IN  [k \in 1..Len(Heads) |-> Char(Heads[k])]

-----------------------------------------------------------------------------
(* A file's lines.  time and text are what the array holds; None stands   *)
(* for what serde cannot turn into the expected type.                      *)

HeaderLine(size) == [code |-> "header", time |-> 2, data |-> size]
OutputLine(time, text) == [code |-> "o", time |-> time, data |-> text]
ResizeLine(time, size) == [code |-> "r", time |-> time, data |-> size]
\* The header: version 2 (its `time` field here), a width and a height that
\* are u16 and not 0.
HeaderOk(line) == line.code = "header" /\ line.time = 2 /\ line.data \notin {None, 0}

\* One event line: not JSON, not [time, code, data], a time below 0, or a
\* resize that isn't COLSxROWS is an error; other codes are skipped later.
EventOk(line) ==
    /\ line.code \notin {"not json", "header"}
    /\ line.time # None /\ line.data # None
    /\ line.time >= 0
    /\ line.code = "r" => line.data # "no size"

\* Times never go back: each is at least every one before it.
Ordered(events) ==
    [i \in DOMAIN events |-> [events[i] EXCEPT !.time =
        CHOOSE t \in {events[j].time : j \in 1..i} :
            \A j \in 1..i : events[j].time <= t]]

\* read
Read(text) ==
    LET lines == SelectSeq(text, LAMBDA l : l.code # "blank")
    IN  IF lines = <<>> \/ ~HeaderOk(Head(lines))
             \/ \E i \in DOMAIN Tail(lines) : ~EventOk(Tail(lines)[i])
        THEN [ok |-> FALSE, events |-> <<>>]
        ELSE [ok |-> TRUE,
              events |-> Ordered(SelectSeq(Tail(lines),
                                           LAMBDA l : l.code \in {"o", "r"}))]

\* timeline: the output events and when each plays.  A gap longer than
\* IDLE_LIMIT counts as IDLE_LIMIT, the gaps around a resize too.
timeline(events) ==
    LET Gap(i) == SmallerOf(events[i].time - (IF i = 1 THEN 0 ELSE events[i - 1].time),
                            IdleLimit)
        played[i \in 0..Len(events)] == IF i = 0 THEN 0 ELSE played[i - 1] + Gap(i)
        all == [i \in DOMAIN events |->
                   [code |-> events[i].code, at |-> played[i], text |-> events[i].data]]
    IN  SelectSeq(all, LAMBDA e : e.code = "o")

Duration(events) == IF events = <<>> THEN 0 ELSE Last(events).at
-----------------------------------------------------------------------------
(* Recording.  rec.channel is the unbounded channel, rec.buffer what the   *)
(* BufWriter holds, rec.disk the lines of the file, rec.torn whether a     *)
(* part of the next line is on the disk as well.                           *)

NoRecorder(text) ==
              [left |-> text, printed |-> <<>>, carry |-> <<>>, channel |-> <<>>, tap |-> "none",
               writer |-> "none", buffer |-> <<>>, disk |-> <<>>, torn |-> FALSE,
               dirty |-> FALSE, sends |-> <<>>]

Send(r, message) == [r EXCEPT !.channel = Append(@, message),
                              !.sends = Append(@, message)]

\* recorder: a new file and the writer thread.
recorder(r) == [r EXCEPT !.tap = "on", !.writer = "on"]

\* Recorder::attached: the header, when the session takes the tap.
Attached(r) == Send(r, HeaderLine(1))

\* recordings::start_in, for a pane that doesn't record yet.
StartRecording ==
    /\ lane = "record" /\ rec.tap = "none"
    /\ rec' = Attached(recorder(rec))
    /\ UNCHANGED <<lane, now, file, ps, pl, sent, told>>

\* Recorder::output, for a chunk of n bytes, cut anywhere.
Output(n) ==
    /\ lane = "record" /\ rec.tap = "on"
    /\ n <= Len(rec.left)
    /\ LET chunk == SubSeq(rec.left, 1, n)
           held == rec.carry \o chunk
           complete == complete_utf8(held)
           base == [rec EXCEPT !.printed = @ \o chunk,
                               !.left = SubSeq(@, n + 1, Len(@)),
                               !.carry = SubSeq(held, complete + 1, Len(held))]
       IN  rec' = IF complete = 0 THEN base
                  ELSE Send(base, OutputLine(now, Lossy(SubSeq(held, 1, complete))))
    /\ UNCHANGED <<lane, now, file, ps, pl, sent, told>>

\* Recorder::resize
Resized ==
    /\ lane = "record" /\ rec.tap = "on"
    /\ ~\E i \in DOMAIN rec.sends : rec.sends[i].code = "r"
    /\ rec' = Send(rec, ResizeLine(now, "size"))
    /\ UNCHANGED <<lane, now, file, ps, pl, sent, told>>

\* recordings::stop removes the tap, or the session ends: the sender is dropped.
DropTap ==
    /\ lane = "record" /\ rec.tap = "on"
    /\ rec' = [rec EXCEPT !.tap = "dropped"]
    /\ UNCHANGED <<lane, now, file, ps, pl, sent, told>>

WriterOn == lane = "record" /\ rec.writer = "on"

\* write_cast: a message becomes a line of the buffer.
WriteLine ==
    /\ WriterOn /\ rec.channel # <<>>
    /\ rec' = [rec EXCEPT !.buffer = Append(@, Head(rec.channel)),
                          !.channel = Tail(@), !.dirty = TRUE]
    /\ UNCHANGED <<lane, now, file, ps, pl, sent, told>>

\* The BufWriter is full (external: std): it writes what it holds, which may
\* end inside a line.
Spill ==
    /\ WriterOn /\ rec.buffer # <<>>
    /\ \E k \in 0..Len(rec.buffer), torn \in BOOLEAN :
          /\ torn => k < Len(rec.buffer)
          /\ k > 0 \/ torn
          /\ rec' = [rec EXCEPT !.disk = @ \o SubSeq(rec.buffer, 1, k), !.torn = torn,
                                !.buffer = SubSeq(@, k + 1, Len(@))]
    /\ UNCHANGED <<lane, now, file, ps, pl, sent, told>>

\* Everything the buffer holds reaches the file.
Flushed(r) == [r EXCEPT !.disk = @ \o r.buffer, !.buffer = <<>>, !.torn = FALSE]

\* 500 ms without a message: flush.
Quiet ==
    /\ WriterOn /\ rec.channel = <<>> /\ rec.dirty /\ rec.tap = "on"
    /\ rec' = [Flushed(rec) EXCEPT !.dirty = FALSE]
    /\ UNCHANGED <<lane, now, file, ps, pl, sent, told>>

\* The channel is empty and its sender gone: the last flush.
Disconnected ==
    /\ WriterOn /\ rec.channel = <<>> /\ rec.tap = "dropped"
    /\ rec' = [Flushed(rec) EXCEPT !.writer = "done"]
    /\ UNCHANGED <<lane, now, file, ps, pl, sent, told>>

\* A line cannot be written: the recording stops here.  The program stops:
\* what the buffer holds is lost.
Stops(how) ==
    /\ WriterOn
    /\ rec' = [rec EXCEPT !.writer = how,
                          !.tap = IF how = "crashed" THEN "dropped" ELSE @,
                          !.buffer = IF how = "crashed" THEN <<>> ELSE @]
    /\ UNCHANGED <<lane, now, file, ps, pl, sent, told>>
-----------------------------------------------------------------------------
(* The player.  pl.thread is "load", "run" (it holds the lock), "wait" (no *)
(* time limit), "timed" or "over"; pl.last and pl.next are play's locals.  *)

NewPlayState == [playing |-> FALSE, speed |-> 1, position |-> 0, duration |-> 0,
                 restart |-> FALSE, seek |-> None, stop |-> FALSE]
NewPlayer == [thread |-> "load", events |-> <<>>, next |-> 0, last |-> 0,
              woken |-> FALSE]

\* PlayerControl::change: the state changes under the lock and the thread is
\* woken.  A restart or a jump starts the account of `told` again.
Change(state, jump) ==
    /\ lane = "player" /\ told.uses < MaxUses
    /\ ps' = state
    /\ pl' = [pl EXCEPT !.woken = TRUE]
    /\ told' = [told EXCEPT !.uses = @ + 1, !.jumped = @ \/ jump]
    /\ UNCHANGED <<lane, now, rec, file, sent>>

AtEnd(state) == state.duration > 0 /\ state.position >= state.duration

\* play: from the start again once it reached the end.
Play ==
    Change([ps EXCEPT !.playing = TRUE, !.restart = @ \/ AtEnd(ps)], AtEnd(ps))

\* pause
Pause == Change([ps EXCEPT !.playing = FALSE], FALSE)

\* set_speed, clamped.
SetSpeed(speed) ==
    /\ told' = [told EXCEPT !.uses = @ + 1, !.fastest = MaxSpeed]
    /\ lane = "player" /\ told.uses < MaxUses
    /\ ps' = [ps EXCEPT !.speed = LargerOf(MinSpeed, SmallerOf(speed, MaxSpeed))]
    /\ pl' = [pl EXCEPT !.woken = TRUE]
    /\ UNCHANGED <<lane, now, rec, file, sent>>

\* restart
Restart == Change([ps EXCEPT !.restart = TRUE, !.playing = TRUE], TRUE)

\* seek, at least 0.
Seek(to) == Change([ps EXCEPT !.seek = LargerOf(to, 0)], TRUE)

\* Player::shutdown
Shutdown == Change([ps EXCEPT !.stop = TRUE], FALSE)

\* start_player's thread: the file is read there; one that isn't a recording
\* is an error in the terminal, and the thread ends.
Load ==
    /\ lane = "player" /\ pl.thread = "load"
    /\ LET cast == Read(file)
           events == timeline(cast.events)
       IN  IF cast.ok
           THEN /\ ps' = [ps EXCEPT !.duration = Duration(events)]
                /\ pl' = [pl EXCEPT !.thread = "run", !.events = events, !.last = now]
                /\ UNCHANGED sent
           ELSE /\ sent' = Append(sent, "error")
                /\ pl' = [pl EXCEPT !.thread = "over"]
                /\ UNCHANGED ps
    /\ UNCHANGED <<lane, now, rec, file, told>>

Reset == "reset"

\* Where a restart or a jump goes, and None without one; a restart drops the
\* jump that waits with it.
Target == IF ps.restart THEN 0
          ELSE IF ps.seek = None THEN None ELSE SmallerOf(ps.seek, ps.duration)

\* Whether the screen is cleared and the recording starts again: a jump
\* forward goes on from what is shown.
Clears(target) == ps.restart \/ target < ps.position

\* The position after this round, and the events due there.
Moved(target) ==
    IF target # None THEN target
    ELSE IF ps.playing THEN ps.position + (now - pl.last) * ps.speed
    ELSE ps.position

\* One round of play's loop, under the lock: from being woken (or timing out)
\* to waiting again.  While paused only what a jump went past goes out.
PlayRound ==
    /\ lane = "player"
    /\ \/ pl.thread \in {"run", "timed"}
       \/ pl.thread = "wait" /\ pl.woken
    /\ IF ps.stop
       THEN pl' = [pl EXCEPT !.thread = "over"] /\ UNCHANGED <<ps, sent>>
       ELSE LET target == Target
                clear == target # None /\ Clears(target)
                first == IF clear THEN 0 ELSE pl.next
                at == Moved(target)
                due == {i \in (first + 1)..Len(pl.events) :
                          /\ ps.playing \/ target # None
                          /\ \A j \in (first + 1)..i : pl.events[j].at <= at}
                next == first + Cardinality(due)
                ended == next = Len(pl.events)
            IN  /\ sent' = sent \o (IF clear THEN <<Reset>> ELSE <<>>)
                              \o [i \in 1..(next - first) |-> pl.events[first + i].text]
                /\ ps' = [ps EXCEPT !.restart = FALSE, !.seek = None,
                                    !.position = IF ended THEN ps.duration ELSE at,
                                    !.playing = @ /\ ~ended]
                /\ pl' = [pl EXCEPT !.next = next, !.last = now, !.woken = FALSE,
                                    !.thread = IF ~ended /\ ps.playing
                                               THEN "timed" ELSE "wait"]
    /\ UNCHANGED <<lane, now, rec, file, told>>

\* Time passes.  A thread that is woken, or whose wait is at most 50 ms, runs
\* within it.
Tick ==
    /\ now < MaxTicks
    /\ lane = "player" => \/ pl.thread \in {"load", "over"}
                          \/ pl.thread \in {"wait", "timed"} /\ ~pl.woken
    /\ now' = now + 1
    /\ told' = [told EXCEPT !.playing = @ + (IF ps.playing THEN 1 ELSE 0)]
    /\ UNCHANGED <<lane, rec, file, ps, pl, sent>>
-----------------------------------------------------------------------------
RecInit ==
    /\ lane \in {"record", "player"}
    /\ now = 0
    /\ rec \in {NoRecorder(text) : text \in IF lane = "record" THEN Programs ELSE {<<>>}}
    /\ file \in IF lane = "player" THEN Files ELSE {<<>>}
    /\ ps = NewPlayState
    /\ pl = NewPlayer
    /\ sent = <<>>
    /\ told = [uses |-> 0, playing |-> 0, jumped |-> FALSE, fastest |-> 1]

RecNext ==
    \/ StartRecording \/ (\E n \in 1..4 : Output(n)) \/ Resized \/ DropTap
    \/ WriteLine \/ Spill \/ Quiet \/ Disconnected
    \/ \E how \in {"failed", "crashed"} : Stops(how)
    \/ Play \/ Pause \/ Restart \/ Shutdown
    \/ (\E speed \in Speeds : SetSpeed(speed))
    \/ (\E to \in -1..(IdleLimit + 3) : Seek(to))
    \/ Load \/ PlayRound \/ Tick

RecSpec == RecInit /\ [][RecNext]_recordingVars

-----------------------------------------------------------------------------
Texts(lines) == Concat([i \in DOMAIN lines |->
                           IF lines[i].code = "o" THEN lines[i].data ELSE <<>>])

\* What a recording keeps, read back: wherever the chunks of the output are
\* cut, the lines hold the characters the bytes make when they are decoded in
\* one piece, less a last character that isn't whole yet; the file is the start
\* of what was recorded, in its order, and all of it once the tap is gone and
\* the writer ended without a failure.  A file with no half line is one `read`
\* takes, with nothing lost.
RecordedReadsBack ==
    lane = "record" =>
        /\ Len(rec.carry) <= 3
        /\ Texts(rec.sends) =
               Lossy(SubSeq(rec.printed, 1, Len(rec.printed) - Len(rec.carry)))
        /\ rec.sends # <<>> => Head(rec.sends).code = "header"
        /\ IsPrefix(rec.disk, rec.sends)
        /\ rec.writer = "done" => rec.disk = rec.sends
        /\ (rec.disk # <<>> /\ ~rec.torn) =>
               LET cast == Read(rec.disk)
               IN  cast.ok /\ cast.events = Tail(rec.disk)

\* What the terminal shows, since the last reset.
Shown == LET resets == {i \in DOMAIN sent : sent[i] = Reset}
             from == IF resets = {} THEN 0
                     ELSE CHOOSE i \in resets : \A j \in resets : j <= i
         IN  SubSeq(sent, from + 1, Len(sent))

\* When each line of the file should play: the gaps before it, none of them
\* longer than the limit, and the time never going back.
Due(lines, i) ==
    LET latest(k) == CHOOSE t \in {0} \cup {lines[j].time : j \in 1..k} :
                        \A j \in 1..k : lines[j].time <= t
        steps == {<<k, s>> \in (1..i) \X (1..IdleLimit) : s <= latest(k) - latest(k - 1)}
    IN  Cardinality(steps)

\* Whenever the player waits with nothing new asked of it, the screen holds
\* exactly the output due at its position, in the file's order and once each,
\* whatever sequence of pauses, jumps back and forth, restarts and speeds led
\* there; it says it plays only while something is left to play.
ScreenMatches ==
    (lane = "player" /\ pl.thread \in {"wait", "timed"} /\ ~pl.woken) =>
        LET lines == SelectSeq(Tail(SelectSeq(file, LAMBDA l : l.code # "blank")),
                               LAMBDA l : l.code \in {"o", "r"})
            all == SelectSeq([i \in DOMAIN lines |-> i],
                             LAMBDA i : lines[i].code = "o")
            due == SelectSeq(all, LAMBDA i : Due(lines, i) <= ps.position)
            texts == [k \in DOMAIN due |-> lines[due[k]].data]
        IN  /\ Shown = texts \/ (ps.position = 0 /\ Shown = <<>>)
            /\ ps.playing => Len(due) < Len(all)
            /\ ps.position <= ps.duration \/ Len(due) < Len(all)

\* A pause stands still: without a jump, a player is never further than the
\* time it has been playing takes it ("Pauses", "at its pace or faster, with
\* pause").
PauseIsNotPlayed ==
    (lane = "player" /\ ~told.jumped) => ps.position <= told.playing * told.fastest
=============================================================================
