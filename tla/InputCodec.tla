---------------------------- MODULE InputCodec ----------------------------
(***************************************************************************)
(* What crosses the line between a terminal and its program: keys, mouse   *)
(* reports and pastes encoded as bytes (opensesh-term/src/input/), the     *)
(* paste analyzer (opensesh-core/src/paste.rs), and, the other way, the    *)
(* OSC limiter and the side parser (opensesh-term/src/osc.rs).             *)
(*                                                                         *)
(* Bytes and characters are their codes.  The encoders are pure; the       *)
(* limiter and the side parser keep state between the chunks of output.    *)
(* `lane` says which of these independent parts a behaviour exercises.     *)
(***************************************************************************)
EXTENDS Integers, Sequences, SequencesExt, FiniteSets, Functions

CONSTANTS Columns,      \* columns and rows a mouse report may carry
          Texts,        \* texts that are pasted
          Limit,        \* MAX_OSC_STRING
          ClipLimit,    \* MAX_OSC52_STRING, over Limit
          MaxOsc        \* bound: payload bytes of one OSC string

VARIABLES
    lane,    \* "keys", "mouse", "paste", "osc" or "modes"
    given,   \* what the pure encoders are called with
    osc,     \* OscLimiter: [escape, length (-1 outside a string), prefix, clipboard]
    passed,  \* of this string: bytes passed, first one dropped, passed after that
    side,    \* SideState: [x10, hidden, synchronized, enquiries, local, shell]
    engine,  \* the engine's own mouse mode (alacritty_terminal): 0, 1000, 1002, 1003
    lastSet  \* the mouse mode the program set last (0: it turned reporting off)

codecVars == <<lane, given, osc, passed, side, engine, lastSet>>

Esc == 27
Cr == 13
Lf == 10
Del == 127
NoCode == -1

(***************************************************************************)
(* Keys.  A key is [k, n]: its name, and a number for F(n), Keypad(n) and  *)
(* Character(c).                                                           *)
(***************************************************************************)
Key(k) == [k |-> k, n |-> 0]
F(n) == [k |-> "F", n |-> n]
Keypad(c) == [k |-> "Keypad", n |-> c]
Character(c) == [k |-> "Character", n |-> c]

CursorFinals == [Up |-> 65, Down |-> 66, Right |-> 67, Left |-> 68, Begin |-> 69,
                 End |-> 70, Home |-> 72]
TildeCodes == [Insert |-> 2, Delete |-> 3, PageUp |-> 5, PageDown |-> 6, Menu |-> 29]
KeypadChars == (48..57) \cup {42, 43, 44, 45, 46, 47, 61}

\* 15 17 18 19 20 21 23 ...: the gaps are the VT220's.
FUNCTION_KEY_CODES ==
    <<15, 17, 18, 19, 20, 21, 23, 24, 25, 26, 28, 29, 31, 32, 33, 34, 42, 43, 44, 45>>

Modifiers == [shift: BOOLEAN, ctrl: BOOLEAN, alt: BOOLEAN, meta: BOOLEAN]
NoModifiers == [shift |-> FALSE, ctrl |-> FALSE, alt |-> FALSE, meta |-> FALSE]
Bit(b) == IF b THEN 1 ELSE 0

modifier_parameter(mods) ==
    1 + Bit(mods.shift) + 2 * Bit(mods.alt) + 4 * Bit(mods.ctrl) + 8 * Bit(mods.meta)

push_decimal[value \in Nat] ==
    IF value < 10 THEN <<48 + value>>
    ELSE Append(push_decimal[value \div 10], 48 + (value % 10))

with_esc(esc, bytes) == IF esc THEN <<Esc>> \o bytes ELSE bytes
ss3(final) == <<Esc, 79, final>>
csi_modified(final, parameter) == <<Esc, 91, 49, 59>> \o push_decimal[parameter] \o <<final>>

CursorKey(final, mods, term) ==
    LET parameter == modifier_parameter(mods)
    IN  CASE parameter > 1  -> csi_modified(final, parameter)
          [] term.appCursor -> ss3(final)
          [] OTHER          -> <<Esc, 91, final>>

TildeKey(code, mods) ==
    LET parameter == modifier_parameter(mods)
    IN  <<Esc, 91>> \o push_decimal[code]
        \o (IF parameter > 1 THEN <<59>> \o push_decimal[parameter] ELSE <<>>) \o <<126>>

FunctionKey(number, mods) ==
    CASE number \in 1..4 ->
            LET parameter == modifier_parameter(mods)
            IN  IF parameter > 1 THEN csi_modified(79 + number, parameter)
                ELSE ss3(79 + number)
      [] number \in 5..24 -> TildeKey(FUNCTION_KEY_CODES[number - 4], mods)
      [] OTHER -> <<>>

Newline(term) == IF term.newLine THEN <<Cr, Lf>> ELSE <<Cr>>
Vt220Keypad(term, options) == options.vt220Keypad /\ term.appKeypad

\* KeypadKey::vt220_final
Vt220Final(c) ==
    CASE c \in 48..57 -> 112 + (c - 48)
      [] c = 61       -> 88
      [] OTHER        -> c + 64            \* * + , - . / are j k l m n o

Letter(c) == c \in (65..90) \cup (97..122)
Digit(c) == c \in 48..57
Control(c) == c < 32 \/ c \in 127..159

ctrl_byte(c) ==
    CASE Letter(c)              -> c % 32
      [] c \in {64, 32, 50, 96}  -> 0
      [] c \in {91, 51, 123}     -> 27
      [] c \in {92, 52, 124}     -> 28
      [] c \in {93, 53, 125}     -> 29
      [] c \in {94, 54, 126}     -> 30
      [] c \in {95, 55, 47}      -> 31
      [] c \in {56, 63}          -> 127
      [] OTHER                  -> NoCode

lone_control(text) ==
    IF Len(text) = 1 /\ (text[1] < 32 \/ text[1] = Del) THEN text[1] ELSE NoCode

\* fn character: the bytes, or <<>> for none.
TypedCharacter(c, text, mods, options) ==
    LET esc  == mods.alt /\ options.altSendsEscape
        byte == IF c # NoCode /\ ctrl_byte(c) # NoCode THEN ctrl_byte(c) ELSE lone_control(text)
        sent == IF text = <<>> /\ mods.ctrl /\ c \in 33..126 THEN <<c>> ELSE text
    IN  CASE mods.ctrl /\ byte # NoCode -> with_esc(esc, <<byte>>)
          [] sent = <<>>              -> <<>>
          [] OTHER                    -> with_esc(esc /\ Len(sent) = 1, sent)

\* What a key sends, or <<>> for nothing.
encode_key(key, text, mods, term, options) ==
    LET esc == mods.alt /\ options.altSendsEscape
    IN  CASE key.k = "Ignored" -> <<>>
          [] key.k = "KeypadEnter" /\ Vt220Keypad(term, options) -> ss3(77)
          [] key.k \in {"Enter", "KeypadEnter"}
                /\ ~(key.k = "KeypadEnter" /\ Vt220Keypad(term, options)) ->
                with_esc(esc, Newline(term))
          [] key.k = "Backtab" \/ (key.k = "Tab" /\ mods.shift) -> with_esc(esc, <<Esc, 91, 90>>)
          [] key.k = "Tab" /\ ~mods.shift -> with_esc(esc, <<9>>)
          [] key.k = "Backspace" ->
                with_esc(esc, <<IF options.backspaceSendsCtrlH # mods.ctrl THEN 8 ELSE Del>>)
          [] key.k = "Escape" -> with_esc(esc, <<Esc>>)
          [] key.k \in DOMAIN CursorFinals -> CursorKey(CursorFinals[key.k], mods, term)
          [] key.k = "Delete" /\ options.deleteSendsDel /\ mods = NoModifiers -> <<Del>>
          [] key.k \in DOMAIN TildeCodes
                /\ ~(key.k = "Delete" /\ options.deleteSendsDel /\ mods = NoModifiers) ->
                TildeKey(TildeCodes[key.k], mods)
          [] key.k = "F" -> FunctionKey(key.n, mods)
          [] key.k = "Keypad" ->
                IF Vt220Keypad(term, options) THEN ss3(Vt220Final(key.n))
                ELSE TypedCharacter(key.n, IF text = <<>> THEN <<key.n>> ELSE text, mods, options)
          [] key.k = "Character" -> TypedCharacter(key.n, text, mods, options)

(***************************************************************************)
(* From Qt: AltGr is a group switch on Linux and Ctrl+Alt on Windows,      *)
(* where Alt and keypad digits also compose a character.                   *)
(***************************************************************************)
modifiers_from_qt(qt) ==
    [shift |-> qt.shift, ctrl |-> qt.ctrl /\ ~qt.group, alt |-> qt.alt /\ ~qt.group,
     meta |-> qt.meta]

alt_code_digit(c, qt, windows) ==
    windows /\ Digit(c) /\ qt.keypad /\ qt.alt /\ ~qt.ctrl /\ ~qt.group

is_alt_gr_text(text) ==
    Len(text) = 1 /\ ~Control(text[1]) /\ text[1] # 32 /\ ~Letter(text[1]) /\ ~Digit(text[1])

Lower(c) == IF c \in 65..90 THEN c + 32 ELSE c
Upper(c) == IF c \in 97..122 THEN c - 32 ELSE c

\* Key::from_qt for a key that types the character c.
FromQt(c, keypad) == IF keypad /\ c \in KeypadChars THEN Keypad(c) ELSE Character(c)

translate_qt(c, qt, text, windows) ==
    IF alt_code_digit(c, qt, windows)
    THEN [key |-> Key("Ignored"), mods |-> modifiers_from_qt(qt), text |-> <<>>]
    ELSE LET all  == modifiers_from_qt(qt)
             gr   == windows /\ all.ctrl /\ all.alt /\ is_alt_gr_text(text)
             mods == IF gr THEN [all EXCEPT !.ctrl = FALSE, !.alt = FALSE] ELSE all
             key  == FromQt(c, qt.keypad)
             same == /\ windows /\ mods.alt /\ ~mods.ctrl /\ Len(text) = 1
                     /\ key.k = "Character" /\ Letter(c) /\ Lower(text[1]) = Lower(c)
         IN  [key |-> key, mods |-> mods,
              text |-> IF ~same THEN text
                       ELSE <<IF mods.shift THEN Upper(text[1]) ELSE Lower(text[1])>>]

(***************************************************************************)
(* Mouse reports.                                                          *)
(***************************************************************************)
mouse_protocol(modes) ==
    IF modes.x10 THEN "x10"
    ELSE CASE modes.engine = 1003 -> "any"
           [] modes.engine = 1002 -> "button"
           [] modes.engine = 1000 -> "normal"
           [] OTHER               -> "none"

Buttons == 0..2            \* left, middle, right
modifier_bits(mods) == 4 * Bit(mods.shift) + 8 * Bit(mods.alt) + 16 * Bit(mods.ctrl)

\* The button code of a report, or NoCode when the protocol doesn't report it.
ReportCode(action, button, mods, protocol, sgr) ==
    LET bits == modifier_bits(mods)
    IN  CASE protocol = "none" -> NoCode
          [] protocol = "x10" ->
                IF action = "press" /\ button \in Buttons THEN button ELSE NoCode
          [] protocol \notin {"none", "x10"} /\ action = "press" ->
                IF button = NoCode THEN NoCode ELSE button + bits
          [] protocol \notin {"none", "x10"} /\ action = "release" ->
                IF button \in Buttons THEN (IF sgr THEN button ELSE 3) + bits ELSE NoCode
          [] protocol \notin {"none", "x10"} /\ action = "move" ->
                CASE protocol \in {"button", "any"} /\ button \in Buttons -> 32 + button + bits
                  [] protocol = "any" /\ button = NoCode                   -> 32 + 3 + bits
                  [] OTHER                                               -> NoCode

\* Mutant: 0x80 itself is written as one byte in the UTF-8 encoding.
PushLegacyLate(value, utf8) ==
    CASE utf8 /\ value > 128 ->
            IF value > 2047 THEN <<>> ELSE <<192 + (value \div 64), 128 + (value % 64)>>
      [] OTHER -> IF value > 255 THEN <<>> ELSE <<value>>
\* push_legacy: the bytes of one value, <<>> past the encoding's limit.
push_legacy(value, utf8) ==
    CASE utf8 /\ value >= 128 ->
            IF value > 2047 THEN <<>> ELSE <<192 + (value \div 64), 128 + (value % 64)>>
      [] OTHER -> IF value > 255 THEN <<>> ELSE <<value>>

encode_mouse(action, button, column, row, mods, modes) ==
    LET code == ReportCode(action, button, mods, mouse_protocol(modes), modes.sgr)
        legacy == [i \in 1..3 |-> push_legacy(32 + <<code, column + 1, row + 1>>[i], modes.utf8)]
    IN  CASE code = NoCode -> <<>>
          [] code # NoCode /\ modes.sgr ->
                <<Esc, 91, 60>> \o push_decimal[code] \o <<59>> \o push_decimal[column + 1]
                \o <<59>> \o push_decimal[row + 1] \o <<IF action = "release" THEN 109 ELSE 77>>
          [] OTHER ->
                IF \E i \in 1..3 : legacy[i] = <<>> THEN <<>>
                ELSE <<Esc, 91, 77>> \o legacy[1] \o legacy[2] \o legacy[3]

(***************************************************************************)
(* Pastes: what is sent, and what the analyzer finds in the text.          *)
(***************************************************************************)
PASTE_START == <<Esc, 91, 50, 48, 48, 126>>
PASTE_END == <<Esc, 91, 50, 48, 49, 126>>

\* CR LF and a lone LF become CR, other controls but HT are dropped.
Sanitised(text) ==
    LET keeps(i) == \/ text[i] = 9 \/ ~Control(text[i]) \/ text[i] = Cr
                    \/ text[i] = Lf /\ ~(i > 1 /\ text[i - 1] = Cr)
        kept == SelectSeq([i \in 1..Len(text) |-> i], keeps)
    IN  [j \in 1..Len(kept) |-> IF text[kept[j]] = Lf THEN Cr ELSE text[kept[j]]]

encode_paste(text, bracketed) ==
    LET body == Sanitised(text)
    IN  CASE body = <<>> -> <<>>
          [] body # <<>> /\ bracketed -> PASTE_START \o body \o PASTE_END
          [] OTHER -> body

\* paste_chunks: cut after each CR, the closing marker kept with the last line.
paste_chunks(bytes) ==
    LET ends == SetToSortSeq({i \in 1..Len(bytes) : bytes[i] = Cr} \cup
                    (IF bytes = <<>> THEN {} ELSE {Len(bytes)}), <)
        cut  == [j \in 1..Len(ends) |->
                    SubSeq(bytes, (IF j = 1 THEN 0 ELSE ends[j - 1]) + 1, ends[j])]
        n    == Len(cut)
    IN  IF n > 1 /\ cut[n] = PASTE_END
        THEN Append(SubSeq(cut, 1, n - 2), cut[n - 1] \o cut[n]) ELSE cut

\* Severities: 1 info, 2 warning, 3 danger.
Found(kind, severity, start, end) ==
    [kind |-> kind, severity |-> severity, start |-> start, end |-> end]

invisible(c) == c = 8203
bidi(c) == c = 8238
fullwidth(c) == c = 65313
lookalike_script(c) == fullwidth(c) \/ c = 1089

CharacterKind(text, i) ==
    CASE text[i] = Cr /\ i < Len(text) /\ text[i + 1] # Lf -> <<"overwrite", 2>>
      [] text[i] = Esc -> <<"control", 3>>
      [] text[i] # Esc /\ Control(text[i]) /\ text[i] \notin {Cr, Lf, 9} -> <<"control", 2>>
      [] bidi(text[i]) -> <<"bidi", 3>>
      [] invisible(text[i]) -> <<"invisible", 2>>
      [] OTHER -> <<"none", 0>>
characters(text) ==
    {Found(CharacterKind(text, i)[1], CharacterKind(text, i)[2], i, i) :
        i \in {j \in 1..Len(text) : CharacterKind(text, j)[2] > 0}}

\* Words: runs of letters, digits and the punctuation of commands and names.
WordPart(c) == Letter(c) \/ Digit(c) \/ lookalike_script(c) \/ c \in {45, 95, 46, 47, 126}
Words(text) ==
    {w \in (1..Len(text)) \X (1..Len(text)) :
        /\ w[1] <= w[2] /\ \A i \in w[1]..w[2] : WordPart(text[i])
        /\ w[1] = 1 \/ ~WordPart(text[w[1] - 1])
        /\ w[2] = Len(text) \/ ~WordPart(text[w[2] + 1])}
homoglyphs(text) ==
    {Found("homoglyph", 2, w[1], w[2]) : w \in {v \in Words(text) :
        \/ \E i \in v[1]..v[2] : fullwidth(text[i])
        \/ \E i, j \in v[1]..v[2] : Letter(text[i]) /\ lookalike_script(text[j])}}

\* A fragment one of the pattern tables matches: 9003 stands for one of the tables of
\* danger (PIPE_TO_SHELL, DECODE_TO_SHELL, DESTRUCTIVE), 9002 for one of warning
\* (PROFILE_WRITE, SUDO_PIPE).
PatternSeverity(c) == IF c \in {9002, 9003} THEN c - 9000 ELSE 0
\* The line of position i is a comment: its first character but blanks is #.
InComment(text, i) ==
    \E j \in 1..i : /\ text[j] = 35
                    /\ \A k \in j..i : text[k] # Lf
                    /\ \A k \in 1..(j - 1) : (\A l \in k..(j - 1) : text[l] # Lf) => text[k] = 32
commands(text) ==
    {Found("command", PatternSeverity(text[i]), i, i) : i \in {j \in 1..Len(text) :
        PatternSeverity(text[j]) > 0 /\ ~InComment(text, j)}}

\* lines: a newline runs what came before it, unless the program asked for bracketed paste.
LineBreaks(text) == Cardinality({i \in 1..Len(text) : text[i] = Lf})
LastShown(text) ==    \* trim_end_matches
    LET shown == {i \in 1..Len(text) : text[i] \notin {Cr, Lf}}
    IN  IF shown = {} THEN 0 ELSE CHOOSE i \in shown : \A j \in shown : j <= i
LineCount(text) == 1 + LineBreaks(SubSeq(text, 1, LastShown(text)))
lines(text, bracketed) ==
    CASE LineBreaks(text) = 0 -> {}
      [] LineBreaks(text) > 0 /\ ~bracketed -> {Found("runs-at-once", 2, 1, Len(text))}
      [] OTHER -> IF LineCount(text) < 2 THEN {} ELSE {Found("multiline", 1, 1, Len(text))}

analyze(text, bracketed) ==
    characters(text) \cup homoglyphs(text) \cup commands(text) \cup lines(text, bracketed)
worth_a_look(findings) == \E f \in findings : f.severity > 1

(***************************************************************************)
(* OscLimiter::keep, one byte at a time (the chunks of `filter` only say   *)
(* where the bytes are copied).                                            *)
(***************************************************************************)
Payloads == {53, 50, 59, 120}               \* 5 2 ; x
StreamBytes == Payloads \cup {7, Esc, 93}    \* BEL, ESC, ]

LimitOf(o) == IF o.clipboard /\ o.prefix = <<53, 50, 59>> THEN ClipLimit ELSE Limit

Keep(byte) ==
    /\ lane = "osc"
    /\ IF osc.length >= 0 THEN
          CASE byte = 7 -> osc' = [osc EXCEPT !.length = -1] /\ UNCHANGED passed
            [] byte = Esc ->
                osc' = [osc EXCEPT !.length = -1, !.escape = TRUE] /\ UNCHANGED passed
            [] OTHER ->
                /\ osc.length < MaxOsc
                /\ LET at == [osc EXCEPT !.prefix = IF osc.length < 3
                                     THEN [@ EXCEPT ![osc.length + 1] = byte] ELSE @]
                       kept == at.length < LimitOf(at)
                   IN  /\ osc' = [at EXCEPT !.length = @ + 1]
                       /\ passed' = [passed EXCEPT
                              !.bytes = IF kept THEN @ + 1 ELSE @,
                              !.dropped = @ \/ ~kept,
                              !.hole = @ \/ (kept /\ passed.dropped)]
       ELSE LET starts == osc.escape /\ byte = 93
            IN  /\ osc' = [osc EXCEPT !.length = IF starts THEN 0 ELSE -1,
                          !.prefix = IF starts THEN <<0, 0, 0>> ELSE @, !.escape = byte = Esc]
                /\ passed' = IF starts THEN [passed EXCEPT !.bytes = 0, !.dropped = FALSE,
                                  !.hole = FALSE, !.switched = FALSE]
                             ELSE passed
    /\ UNCHANGED <<lane, given, side, engine, lastSet>>

\* The profile's osc52_copy changed (Command::Options).
SetClipboard(allowed) ==
    /\ lane = "osc"
    /\ osc' = [osc EXCEPT !.clipboard = allowed]
    /\ passed' = [passed EXCEPT !.switched = @ \/ osc.clipboard # allowed]
    /\ UNCHANGED <<lane, given, side, engine, lastSet>>

(***************************************************************************)
(* The side parser, next to the engine.  The engine's own mouse modes      *)
(* replace each other when set and are removed one by one.                 *)
(***************************************************************************)
EngineMode(mode, set, old) ==
    CASE mode \in {1000, 1002, 1003} /\ set -> mode
      [] mode = old /\ ~set -> 0
      [] OTHER -> old

SideMode(mode, set) ==
    CASE mode = 9 -> [side EXCEPT !.x10 = set, !.hidden = TRUE]
      [] mode \in {1000, 1002, 1003} -> [side EXCEPT !.x10 = FALSE, !.hidden = FALSE]
      [] mode = 2026 -> [side EXCEPT !.synchronized = set]

CsiMode(mode, set) ==
    /\ lane = "modes"
    /\ side' = SideMode(mode, set)
    /\ engine' = EngineMode(mode, set, engine)
    /\ lastSet' = CASE mode = 2026 -> lastSet
                    [] mode # 2026 /\ set -> mode
                    [] mode = 9 /\ ~set -> 0
                    [] OTHER -> IF lastSet = mode \/ (lastSet = 0 /\ ~side.hidden) THEN 0 ELSE NoCode
    /\ UNCHANGED <<lane, given, osc, passed>>

FullReset ==      \* RIS
    /\ lane = "modes"
    /\ side' = [side EXCEPT !.x10 = FALSE, !.hidden = FALSE, !.synchronized = FALSE]
    /\ engine' = 0 /\ lastSet' = 0
    /\ UNCHANGED <<lane, given, osc, passed>>

Enquiry ==        \* ENQ; take_enquiries answers it
    /\ lane = "modes" /\ side.enquiries = 0
    /\ side' = [side EXCEPT !.enquiries = @ + 1]
    /\ UNCHANGED <<lane, given, osc, passed, engine, lastSet>>
TakeEnquiries ==
    /\ lane = "modes" /\ side.enquiries > 0
    /\ side' = [side EXCEPT !.enquiries = 0]
    /\ UNCHANGED <<lane, given, osc, passed, engine, lastSet>>

\* OSC 7: the host as its short name and whether it has a domain, the path's form.
HostName(short, dotted) == [short |-> short, dotted |-> dotted]
is_local_host(host, hostname) ==
    \/ host.short \in {"", "localhost"} /\ ~host.dotted
    \/ host = hostname
    \/ host.short = hostname.short /\ (~hostname.dotted \/ ~host.dotted)
\* "path": decodes to text without control characters; "bad": anything else.
parse_osc7_path(payload) == IF payload.path = "path" THEN payload.host.short ELSE "none"
parse_osc7(payload, hostname) ==
    IF payload.path = "path" /\ is_local_host(payload.host, hostname)
    THEN payload.host.short ELSE "none"
OscDispatch(host, path) ==
    /\ lane = "modes"
    /\ LET payload == [host |-> host, path |-> path]
           dir == parse_osc7(payload, HostName("here", FALSE))
       IN  side' = [side EXCEPT !.local = IF dir = "none" THEN @ ELSE dir,
                                !.shell = IF path = "path" THEN parse_osc7_path(payload) ELSE @]
    /\ UNCHANGED <<lane, given, osc, passed, engine, lastSet>>
TakeDirectories ==
    /\ lane = "modes" /\ <<side.local, side.shell>> # <<"none", "none">>
    /\ side' = [side EXCEPT !.local = "none", !.shell = "none"]
    /\ UNCHANGED <<lane, given, osc, passed, engine, lastSet>>

(***************************************************************************)
(* One behaviour exercises one part.                                       *)
(***************************************************************************)
Terms == [appCursor: BOOLEAN, appKeypad: BOOLEAN, newLine: BOOLEAN]
Options == [backspaceSendsCtrlH: BOOLEAN, altSendsEscape: BOOLEAN, deleteSendsDel: BOOLEAN,
            vt220Keypad: BOOLEAN]
MouseModes == [x10: BOOLEAN, engine: {0, 1000, 1002, 1003}, sgr: BOOLEAN, utf8: BOOLEAN]

IInit ==
    /\ lane \in {"keys", "mouse", "paste", "osc", "modes"}
    /\ CASE lane = "keys"  -> \E t \in Terms, o \in Options : given = [term |-> t, options |-> o]
         [] lane = "mouse" -> \E mm \in MouseModes : given = [modes |-> mm]
         [] lane = "paste" -> \E t \in Texts : given = [text |-> t]
         [] OTHER          -> given = [text |-> <<>>]
    /\ osc = [escape |-> FALSE, length |-> -1, prefix |-> <<0, 0, 0>>, clipboard |-> FALSE]
    /\ passed = [bytes |-> 0, dropped |-> FALSE, hole |-> FALSE, switched |-> FALSE]
    /\ side = [x10 |-> FALSE, hidden |-> FALSE, synchronized |-> FALSE, enquiries |-> 0,
               local |-> "none", shell |-> "none"]
    /\ engine = 0 /\ lastSet = 0

INext ==
    \/ \E b \in StreamBytes : Keep(b)
    \/ \E a \in BOOLEAN : SetClipboard(a)
    \/ \E mode \in {9, 1000, 1002, 1003, 2026}, set \in BOOLEAN : CsiMode(mode, set)
    \/ FullReset \/ Enquiry \/ TakeEnquiries \/ TakeDirectories
    \/ \E short \in {"", "here", "there"}, dotted \in BOOLEAN, path \in {"path", "bad"} :
          OscDispatch(HostName(short, dotted), path)

ISpec == IInit /\ [][INext]_codecVars

-----------------------------------------------------------------------------
(***************************************************************************)
(* A program can tell the editing, cursor and function keys apart, with    *)
(* their modifiers, in every mode and with every option (Menu is F16, as   *)
(* in xterm); a character typed with AltGr, on Linux or Windows, is sent   *)
(* as it is, Alt and a letter as ESC and that letter, and the digits of a  *)
(* Windows Alt code not at all.                                            *)
(***************************************************************************)
NamedKeys == {Key(k) : k \in DOMAIN CursorFinals \cup DOMAIN TildeCodes} \cup {F(n) : n \in 1..24}
KeypadKeys == {Keypad(c) : c \in KeypadChars} \cup {Key("KeypadEnter")}
QtMods(chord) ==
    [shift |-> FALSE, ctrl |-> "ctrl" \in chord, alt |-> "alt" \in chord, meta |-> FALSE,
     group |-> "group" \in chord, keypad |-> "keypad" \in chord]
SentFor(c, chord, text, windows) ==
    LET i == translate_qt(c, QtMods(chord), text, windows)
    IN  encode_key(i.key, i.text, i.mods, given.term, given.options)
KeysReach == lane = "keys" =>
    LET name(k) == IF k = F(16) THEN Key("Menu") ELSE k
        sent == {<<encode_key(k, <<>>, m, given.term, given.options), name(k), m>> :
                    k \in NamedKeys, m \in Modifiers}
                \cup {<<encode_key(k, <<>>, NoModifiers, given.term, given.options), k, NoModifiers>> :
                    k \in IF Vt220Keypad(given.term, given.options) THEN KeypadKeys ELSE {}}
    IN  /\ Cardinality(sent) = Cardinality({s[1] : s \in sent})
        /\ \A c \in {64, 91, 8364} :
              /\ SentFor(50, {"group", "ctrl", "alt"}, <<c>>, FALSE) = <<c>>
              /\ SentFor(50, {"ctrl", "alt"}, <<c>>, TRUE) = <<c>>
        /\ \A text \in {<<65>>, <<97>>} :
              SentFor(65, {"alt"}, text, TRUE) = with_esc(given.options.altSendsEscape, <<97>>)
        /\ SentFor(50, {"alt", "keypad"}, <<50>>, TRUE) = <<>>

(***************************************************************************)
(* A mouse report read the way xterm documents it gives back the button    *)
(* code and the cell, for every encoding and at its limits; what is not    *)
(* reported is past the limit of the encoding or not in the protocol.      *)
(***************************************************************************)
ReadLegacy(bytes, utf8) ==      \* the values after ESC [ M
    LET lead(i) == ~utf8 \/ bytes[i] < 128 \/ bytes[i] >= 192
        heads == SetToSortSeq({i \in 4..Len(bytes) : lead(i)}, <)
    IN  [j \in 1..Len(heads) |->
           LET b == bytes[heads[j]] IN
           IF utf8 /\ b >= 192 THEN (b - 192) * 64 + (bytes[heads[j] + 1] - 128) ELSE b]
MaxCell(modes) == IF modes.utf8 THEN 2015 ELSE 223
ReportsDecode == lane = "mouse" =>
    \A action \in {"press", "release", "move"}, button \in Buttons \cup {64, 67, NoCode},
      column \in Columns, row \in {0, 95, 223}, mods \in {NoModifiers, [NoModifiers EXCEPT !.ctrl = TRUE]} :
        LET bytes == encode_mouse(action, button, column, row, mods, given.modes)
            code  == ReportCode(action, button, mods, mouse_protocol(given.modes), given.modes.sgr)
        IN  IF code = NoCode THEN bytes = <<>>
            ELSE given.modes.sgr \/
                 IF column + 1 > MaxCell(given.modes) \/ row + 1 > MaxCell(given.modes)
                 THEN bytes = <<>>
                 ELSE ReadLegacy(bytes, given.modes.utf8) = <<32 + code, 33 + column, 33 + row>>

(***************************************************************************)
(* A paste: nothing but text, tabs and line ends reaches the program, so   *)
(* the end marker can only be the terminal's own; cut into chunks nothing  *)
(* is lost or repeated; and a text that is not worth a look never runs a   *)
(* line that has more text behind it.                                      *)
(***************************************************************************)
PasteSafe == lane = "paste" =>
    LET sent == encode_paste(given.text, TRUE)
        body == Sanitised(given.text)
    IN  /\ \A i \in 1..Len(body) : body[i] \in {9, Cr} \/ ~Control(body[i])
        /\ FlattenSeq(paste_chunks(sent)) = sent
        /\ FlattenSeq(paste_chunks(body)) = body
        /\ ~worth_a_look(analyze(given.text, FALSE)) =>
              \A i \in 1..(Len(body) - 1) : body[i] # Cr

(***************************************************************************)
(* The limiter passes the start of an OSC string, up to the limit for its  *)
(* kind, without holes (unless the setting changes inside the string); and *)
(* of the mouse protocols the one set last is in force, none after it was  *)
(* reset.                                                                  *)
(***************************************************************************)
ParsersSound ==
    /\ lane = "osc" /\ ~passed.switched /\ osc.length >= 0 =>
          LET limit == IF osc.clipboard /\ osc.prefix = <<53, 50, 59>> THEN ClipLimit ELSE Limit
          IN  ~passed.hole /\ passed.bytes = IF osc.length < limit THEN osc.length ELSE limit
    /\ lane = "modes" /\ lastSet # NoCode =>
          mouse_protocol([x10 |-> side.x10, engine |-> IF side.hidden THEN 0 ELSE engine])
          = CASE lastSet = 0 -> "none" [] lastSet = 9 -> "x10" [] lastSet = 1000 -> "normal"
              [] lastSet = 1002 -> "button" [] lastSet = 1003 -> "any"
=============================================================================
