---------------------------- MODULE QuickConnect ----------------------------
(***************************************************************************)
(* Quick connect (core/hosts/target.rs, containers.rs, the targets of      *)
(* bridge/hosts.rs): what the user types is parsed into a target, shown    *)
(* and recorded as its canonical text, and parsed again from that text     *)
(* wherever it is used: by the pane that connects, by the recent           *)
(* connections, and by the command line of ssh, docker or kubectl.         *)
(*                                                                         *)
(* A word is a sequence of tokens: names, numbers, punctuation, the        *)
(* options "-J", "-p", "-l", a scheme, a setting ("region=eu").  Texts are *)
(* sequences of words; a bare quote in a text is never closed.             *)
(***************************************************************************)
EXTENDS Naturals, Sequences, FiniteSets
LOCAL INSTANCE SequencesExt
LOCAL INSTANCE Folds

CONSTANTS
    Programs, Users, Hosts, Ports, Options,   \* the pieces typed texts are made of
    Others,                                   \* other texts typed: of the schemes with settings
    SavedJumps,                               \* saved hosts by the word that names them, and their text
    None

VARIABLES
    typed,     \* the text of the popup
    used,      \* what the pane connected to: a target, None or "refused"
    command,   \* the arguments of a target that runs a program
    recent     \* the text recorded

quickVars == <<typed, used, command, recent>>

\* A result is a set: empty when the text is refused.
Refused == {}
Only(x) == {x}
Get(r) == CHOOSE x \in r : TRUE

Target(protocol, user, host, port) ==
    [protocol |-> protocol, user |-> user, host |-> host, port |-> port,
     jump |-> <<>>, settings |-> {}, path |-> <<>>]

(***************************************************************************)
(* Tokens                                                                  *)
(***************************************************************************)
Has(w, t) == \E i \in DOMAIN w : w[i] = t
First(w, t) == CHOOSE i \in DOMAIN w : w[i] = t /\ \A k \in 1..(i - 1) : w[k] # t
Last1(w, t) == CHOOSE i \in DOMAIN w : w[i] = t /\ \A k \in (i + 1)..Len(w) : w[k] # t
Before(w, i) == SubSeq(w, 1, i - 1)
After(w, i) == SubSeq(w, i + 1, Len(w))
CutFirst(w, t) == IF Has(w, t) THEN <<Before(w, First(w, t)), After(w, First(w, t))>> ELSE <<w, <<>>>>

\* percent_decode and percent_encode, on the escapes that are tokens.
Escapes == {<<"%40", "@">>, <<"%2540", "%40">>, <<"%3F", "?">>}
DecodeToken(t) == IF \E e \in Escapes : e[1] = t THEN (CHOOSE e \in Escapes : e[1] = t)[2] ELSE t
PercentDecode(w) == [i \in DOMAIN w |-> DecodeToken(w[i])]

\* split_words: an escaped quote is a quote of the word.
SplitWords(text) ==
    IF \E i \in DOMAIN text : Has(text[i], "'") THEN Refused
    ELSE Only([i \in DOMAIN text |-> [k \in DOMAIN text[i] |-> IF text[i][k] = "\\'" THEN "'" ELSE text[i][k]]])

StartsOption(w) == w # <<>> /\ w[1] \in {"-", "-J", "-p", "-l"}
CheckUser(w) == w # <<>> /\ ~StartsOption(w) /\ ~Has(w, "/")
CheckName(w) == CheckUser(w) /\ ~Has(w, "@")
\* containers::is_name.
IsName(w) == CheckName(w) /\ ~Has(w, "?")

PortNumbers == [p \in {"5", "22", "2222", "5905", "5922"} |->
                  CASE p = "5" -> 5 [] p = "22" -> 22 [] p = "2222" -> 2222
                    [] p = "5905" -> 5905 [] OTHER -> 5922]
PortText(n) == CHOOSE p \in DOMAIN PortNumbers : PortNumbers[p] = n
ParsePort(w) == IF Len(w) = 1 /\ w[1] \in DOMAIN PortNumbers THEN Only(PortNumbers[w[1]]) ELSE Refused

\* An IPv6 address is the one token "::1", with more than one colon.
Colons(w) == Cardinality({i \in DOMAIN w : w[i] = ":"}) + 2 * Cardinality({i \in DOMAIN w : w[i] = "::1"})
BracketIpv6(w) == IF Colons(w) > 0 /\ w[1] # "[" THEN <<"[">> \o w \o <<"]">> ELSE w

(***************************************************************************)
(* Parsing                                                                 *)
(***************************************************************************)
\* `[user@]host[:port]`: a record, or refused.
HostPort(rest) ==
    IF rest # <<>> /\ rest[1] = "["
    THEN LET cut == CutFirst(Tail(rest), "]")
         IN CASE ~Has(rest, "]") -> Refused
              [] cut[2] = <<>> -> Only(<<cut[1], None>>)
              [] cut[2][1] # ":" -> Refused
              [] OTHER -> {<<cut[1], p>> : p \in ParsePort(Tail(cut[2]))}
    ELSE IF Colons(rest) > 1 THEN Only(<<rest, None>>)
    ELSE IF Has(rest, ":")
    THEN {<<Before(rest, Last1(rest, ":")), p>> : p \in ParsePort(After(rest, Last1(rest, ":")))}
    ELSE Only(<<rest, None>>)
ParseEndpoint(w) ==
    LET at == IF Has(w, "@") THEN Last1(w, "@") ELSE 0
        user == IF at = 0 THEN None ELSE PercentDecode(CutFirst(Before(w, at), ";")[1])
    IN IF at > 0 /\ ~CheckUser(user) THEN Refused
       ELSE {[user |-> user, host |-> hp[1], port |-> hp[2]] :
                hp \in {x \in HostPort(After(w, at)) : CheckName(x[1])}}
ParseJump(w) == IF ParseEndpoint(w) = Refused THEN Refused ELSE Only(<<w>>)

\* The text after a scheme: `serial:`, `s3://`, `docker://`, `kube://`, or a
\* network protocol's.
Settings == [p \in {"serial", "s3", "kube", "docker"} |->
               CASE p = "serial" -> {"baud=9600", "parity=odd"}
                 [] p = "s3" -> {"region=eu", "path_style=false"}
                 [] p = "kube" -> {"container=app", "context=prod"}
                 [] OTHER -> {}]
ParseSettings(p, query) ==
    LET given == {query[i] : i \in DOMAIN query} \ {"&"}
    IN IF given \subseteq Settings[p] THEN Only(given) ELSE Refused
ParseSerial(w) ==
    LET device == PercentDecode(CutFirst(w, "?")[1])
    IN {[Target("serial", None, device, None) EXCEPT !.settings = s] :
           s \in IF device = <<>> \/ StartsOption(device) THEN {} ELSE ParseSettings("serial", CutFirst(w, "?")[2])}
ParseS3(w) ==
    LET body == CutFirst(w, "?")[1]
        path == CutFirst(body, "/")[2]
    IN {[Target("s3", e.user, <<"https://">> \o BracketIpv6(e.host) \o (IF e.port = None THEN <<>> ELSE <<":", PortText(e.port)>>), None)
            EXCEPT !.settings = s, !.path = IF path = <<>> THEN <<>> ELSE <<"/">> \o PercentDecode(path)] :
          e \in ParseEndpoint(CutFirst(body, "/")[1]), s \in ParseSettings("s3", CutFirst(w, "?")[2])}
ParseContainer(p, w) ==
    LET body == CutFirst(w, "?")[1]
        parts == CutFirst(body, "/")
        namespace == IF p = "kube" /\ Has(body, "/") THEN PercentDecode(parts[1]) ELSE None
        at == IF p = "docker" /\ Has(body, "@") THEN Last1(body, "@") ELSE 0
        name == PercentDecode(IF namespace # None THEN parts[2] ELSE After(body, at))
        user == IF at = 0 THEN None ELSE Before(body, at)
    IN IF (namespace # None /\ ~IsName(namespace)) \/ (user # None /\ ~CheckUser(user)) \/ ~IsName(name) THEN Refused
       ELSE {[Target(p, user, name, None) EXCEPT !.settings = s, !.path = IF namespace = None THEN <<>> ELSE namespace] :
                s \in ParseSettings(p, CutFirst(w, "?")[2])}
ParsePlain(p, w) == {Target(p, e.user, e.host, e.port) : e \in ParseEndpoint(w)}
ParseUrl(p, w) == ParsePlain(p, CutFirst(CutFirst(w, "?")[1], "/")[1])

Schemes == [t \in {"serial:", "s3://", "docker://", "kube://", "vnc://", "telnet://", "mosh://"} |->
              CASE t = "serial:" -> "serial" [] t = "s3://" -> "s3" [] t = "docker://" -> "docker"
                [] t = "kube://" -> "kube" [] t = "vnc://" -> "vnc"
                [] t = "mosh://" -> "mosh" [] OTHER -> "telnet"]
ParseFirst(w, protocol) ==
    IF w # <<>> /\ w[1] \in DOMAIN Schemes
    THEN LET p == Schemes[w[1]]
         IN CASE p = "serial" -> ParseSerial(Tail(w))
              [] p = "s3" -> ParseS3(Tail(w))
              [] p \in {"docker", "kube"} -> ParseContainer(p, Tail(w))
              [] OTHER -> ParseUrl(p, Tail(w))
    ELSE ParsePlain(protocol, w)

\* The words, one after the other: options with their values, the rest.
NoWords == [jump |-> <<>>, port |-> None, user |-> None, positional |-> <<>>, wants |-> None, ok |-> TRUE]
Value(o, acc, w) ==
    CASE o = "-J" -> IF ParseJump(w) = Refused THEN [acc EXCEPT !.ok = FALSE] ELSE [acc EXCEPT !.jump = @ \o <<w>>, !.wants = None]
      [] o = "-p" -> IF ParsePort(w) = Refused THEN [acc EXCEPT !.ok = FALSE] ELSE [acc EXCEPT !.port = Get(ParsePort(w)), !.wants = None]
      [] OTHER -> IF ~CheckUser(w) THEN [acc EXCEPT !.ok = FALSE] ELSE [acc EXCEPT !.user = w, !.wants = None]
TakeWord(acc, w) ==
    CASE ~acc.ok -> acc
      [] acc.wants # None -> Value(acc.wants, acc, w)
      [] w = <<>> -> [acc EXCEPT !.positional = Append(@, w)]
      [] w[1] \in {"-J", "-p", "-l"} -> IF Len(w) = 1 THEN [acc EXCEPT !.wants = w[1]] ELSE Value(w[1], acc, Tail(w))
      [] w[1] = "-" /\ Len(w) > 1 -> [acc EXCEPT !.ok = FALSE]
      [] OTHER -> [acc EXCEPT !.positional = Append(@, w)]

\* `vnc://host:1`: a display number.
Display1(t) == IF t.protocol = "vnc" /\ t.port # None /\ t.port < 100 THEN [t EXCEPT !.port = 5900 + @] ELSE t
Network == {"ssh", "telnet", "mosh", "vnc"}
WithOptions(t, words) ==
    IF t.protocol \notin Network THEN t
    ELSE [t EXCEPT !.port = IF words.port # None THEN words.port ELSE @,
                   !.user = IF words.user # None THEN words.user ELSE @,
                   !.jump = words.jump]
ParseWords(ws) ==
    LET named == ws # <<>> /\ ws[1] \in {<<"ssh">>, <<"mosh">>, <<"telnet">>}
        protocol == IF named THEN ws[1][1] ELSE "ssh"
        words == FoldLeft(TakeWord, NoWords, IF named THEN Tail(ws) ELSE ws)
        rest == words.positional
        \* `telnet host 23`
        second(t) == t.protocol = "telnet" /\ t.port = None /\ Len(rest) = 2
    IN IF ~words.ok \/ words.wants # None \/ rest = <<>> \/ Len(rest) > 2 THEN Refused
       ELSE {WithOptions(Display1(IF second(t) THEN [t EXCEPT !.port = Get(ParsePort(rest[2]))] ELSE t), words) :
                t \in {x \in ParseFirst(rest[1], protocol) :
                          Len(rest) = 1 \/ (second(x) /\ ParsePort(rest[2]) # Refused)}}
Parse(text) == IF SplitWords(text) = Refused THEN Refused ELSE ParseWords(Get(SplitWords(text)))

(***************************************************************************)
(* The canonical text                                                      *)
(***************************************************************************)
UserText(u) == IF u = None THEN <<>> ELSE u \o <<"@">>
Query(p, s) == IF s = {} THEN <<>> ELSE <<"?">> \o FlattenSeq([i \in 1..Cardinality(s) |->
                  IF i = 1 THEN <<SetToSeq(s)[1]>> ELSE <<"&", SetToSeq(s)[i]>>])
FmtContainer(t) ==
    IF t.protocol = "kube"
    THEN <<"kube://">> \o (IF t.path = <<>> THEN <<>> ELSE t.path \o <<"/">>) \o t.host \o Query("kube", t.settings)
    ELSE <<"docker://">> \o UserText(t.user) \o t.host
FmtS3(t) == <<"s3://">> \o UserText(t.user) \o Tail(t.host) \o t.path \o Query("s3", t.settings)
SchemeOf(p) == IF p = "ssh" THEN <<>> ELSE <<CHOOSE s \in DOMAIN Schemes : Schemes[s] = p>>
\* The jumps are joined with commas; parse_jump splits them again.
JumpText(j) == FlattenSeq([i \in DOMAIN j |-> <<<<"-J">>, j[i]>>])
Fmt(t) ==
    CASE t.protocol = "serial" -> <<<<"serial:">> \o t.host \o Query("serial", t.settings)>>
      [] t.protocol \in {"docker", "kube"} -> <<FmtContainer(t)>>
      [] t.protocol = "s3" -> <<FmtS3(t)>>
      [] OTHER -> <<SchemeOf(t.protocol) \o UserText(t.user) \o BracketIpv6(t.host)
                    \o (IF t.port = None THEN <<>> ELSE <<":", PortText(t.port)>>)>> \o JumpText(t.jump)

(***************************************************************************)
(* Commands                                                                *)
(***************************************************************************)
JumpSpec(w) == IF w \in DOMAIN SavedJumps THEN SavedJumps[w] ELSE w
\* SshArgs::check, on the jumps that go on the command line.
CheckArgs(t, jump) ==
    /\ CheckName(t.host)
    /\ t.user # None => CheckUser(t.user)
    /\ \A i \in DOMAIN jump : ParseEndpoint(jump[i]) # Refused
ToArgs(t, jump) ==
    [options |-> (IF t.port # None /\ t.port # 22 THEN <<<<"-p">>, <<PortText(t.port)>>>> ELSE <<>>) \o JumpText(jump),
     words |-> <<UserText(t.user) \o t.host>>]
ContainerCommand(t) ==
    IF ~IsName(t.host) THEN None
    ELSE [options |-> IF t.protocol = "docker" /\ t.user # None THEN <<<<"--user">>, t.user>>
                      ELSE IF t.path # <<>> THEN <<<<"--namespace">>, t.path>> ELSE <<>>,
          words |-> <<t.host>>]
TargetCommandUnchecked(text) ==
    IF Parse(text) = Refused THEN None
    ELSE LET t == Get(Parse(text))
         IN IF t.protocol # "ssh" THEN None ELSE ToArgs(t, [i \in DOMAIN t.jump |-> JumpSpec(t.jump[i])])
TargetCommand(text) ==
    IF Parse(text) = Refused THEN None
    ELSE LET t == Get(Parse(text))
             jump == [i \in DOMAIN t.jump |-> JumpSpec(t.jump[i])]
         IN CASE t.protocol \in {"docker", "kube"} -> ContainerCommand(t)
              [] t.protocol = "ssh" /\ CheckArgs(t, jump) -> ToArgs(t, jump)
              [] OTHER -> None

(***************************************************************************)
(* The popup                                                               *)
(***************************************************************************)
Text(program, user, host, port, options) ==
    program \o <<UserText(user) \o host \o port>> \o options
CInit ==
    /\ \/ typed \in Others
       \/ \E pr \in Programs, u \in Users, h \in Hosts, p \in Ports, o \in Options : typed = Text(pr, u, h, p, o)
    /\ used = None /\ command = None /\ recent = None

\* connectTarget: the text is parsed and everything after uses its canonical
\* form: record_target and the pane parse that.
ConnectTarget ==
    /\ used = None
    /\ IF Parse(typed) = Refused THEN used' = "refused" /\ UNCHANGED <<command, recent>>
       ELSE LET text == Fmt(Get(Parse(typed)))
            IN /\ used' = IF Parse(text) = Refused THEN "refused" ELSE Get(Parse(text))
               /\ recent' = IF Parse(text) = Refused THEN None ELSE Fmt(Get(Parse(text)))
               /\ command' = TargetCommand(text)
    /\ UNCHANGED typed
\* A recent connection is connected to again.
ConnectRecent ==
    /\ recent # None
    /\ used' = IF Parse(recent) = Refused THEN "refused" ELSE Get(Parse(recent))
    /\ command' = TargetCommand(recent)
    /\ UNCHANGED <<typed, recent>>

CNext == ConnectTarget \/ ConnectRecent

CSpec == CInit /\ [][CNext]_quickVars

(***************************************************************************)
(* Properties                                                              *)
(***************************************************************************)
\* "Hosts and users that start with `-` are refused: `ssh` would read them as
\* options.": whatever was typed, and whatever a saved jump host says, every
\* word of the command that names a place or a user is no option.
NothingReadAsOption ==
    command # None =>
        /\ \A i \in DOMAIN command.words : ~StartsOption(command.words[i])
        /\ \A i \in DOMAIN command.options : i % 2 = 0 => ~StartsOption(command.options[i])

\* Names without quotes, escapes and parameters, a host that is no program's
\* name, and a port that no display number hides behind.
Plain(w) == \A t \in {"'", "%40", ";", "?"} : ~Has(w, t)
PlainTarget(t) ==
    /\ Plain(t.host) /\ Plain(t.path) /\ (t.user # None => Plain(t.user))
    /\ t.host \notin {<<"ssh">>, <<"telnet">>}
    /\ t.protocol = "vnc" => t.port = None \/ t.port >= 100
    /\ \A i \in DOMAIN t.jump : Plain(t.jump[i])
\* The pane, and later the recent connections, go where the user said: for
\* plain names the canonical text means the target it was made from.
GoesWhereSaid ==
    /\ used # None => \A t \in Parse(typed) : PlainTarget(t) => used = t
    /\ recent # None => \A t \in Parse(typed) : PlainTarget(t) => Parse(recent) = {t}

=============================================================================
