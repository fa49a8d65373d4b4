----------------------------- MODULE SshConnect -----------------------------
(***************************************************************************)
(* Establishing an SSH connection (opensesh-ssh/src/connect.rs): each hop  *)
(* is reached, its host key is checked against the known_hosts files       *)
(* (opensesh-vault/src/known_hosts.rs) and perhaps asked about, and the    *)
(* user is authenticated with the methods in order, secrets coming from    *)
(* the keychain or typed in.  Connecting happens again and again (after a  *)
(* loss, or in another pane of the host).                                  *)
(*                                                                         *)
(* A line of known_hosts is [host, key]; a key is [type, id].  A secret is *)
(* "saved" (the keychain's) or what was typed.  The server decides about   *)
(* keys and keyboard answers; about a password it decides by the one that  *)
(* is right.                                                               *)
(***************************************************************************)
EXTENDS Naturals, Sequences, FiniteSets

CONSTANTS Hops,       \* hops of the connection: 1..n, the target last
          Keys,       \* host keys: [type, id]
          UserLines,  \* the possible contents of ~/.ssh/known_hosts: sets of lines
          Revoked,    \* keys marked @revoked there
          Typed,      \* what the user may type as a password or passphrase
          Offers,     \* what the server may say it takes: sets of methods
          KeyFiles,   \* sequence: whether each private key needs a passphrase
          MaxTries,   \* 3: prompts for one secret
          MaxConnects \* bound: connections

Methods == {"publickey", "keyboard", "password"}
Order == <<"publickey", "keyboard", "password">>   \* AuthMethod::DEFAULT_ORDER

VARIABLES
    own, user,  \* the lines of OpenSesh's known_hosts and of the user's
    once,       \* TrustedOnce
    right,      \* the password that is right
    savedPw,    \* the keychain's password, "none" without one
    step,       \* "idle", "reach", "check", "ask", "none", "pick", "key", "phrase",
                \* "keyboard", "code", "password", "pwAsk", "pwSend", "connected", "failed"
    hop,        \* the hop being connected
    key,        \* the key it presents
    remaining, done, pwUsed, tries, nth, \* authenticate's variables
    sending,    \* the password about to be sent: [secret, remember]
    remembered, \* secrets handed to the SecretSink
    accepted,   \* history: host and key pairs the user accepted
    saved,      \* history: pairs remembered in `own` and still there
    savedSent,  \* history: how often the saved password went out in this authentication
    connects

sshcVars == <<own, user, once, right, savedPw, step, hop, key, remaining, done, pwUsed,
              tries, nth, sending, remembered, accepted, saved, savedSent, connects>>
files == <<own, user, once>>
authVars == <<remaining, done, pwUsed, tries, nth, sending>>
ghosts == <<accepted, saved>>

NoSecret == [secret |-> "none", remember |-> FALSE]
Line(h, k) == [host |-> h, key |-> k]

KInit ==
    /\ own = {} /\ user \in UserLines /\ once = {}
    /\ right \in Typed \cup {"saved"} /\ savedPw \in {"saved", "none"}
    /\ step = "idle" /\ hop = 1 /\ key \in Keys
    /\ remaining = {} /\ done = {} /\ pwUsed = FALSE /\ tries = 0 /\ nth = 1
    /\ sending = NoSecret /\ remembered = {}
    /\ accepted = {} /\ saved = {} /\ savedSent = 0 /\ connects = 0

(***************************************************************************)
(* known_hosts::check: revoked anywhere; else the first file that knows    *)
(* the host decides.                                                       *)
(***************************************************************************)
ForHost(file, h) == {l \in file : l.host = h}

StatusByType(file, h, k) ==
    IF \E l \in ForHost(file, h) : l.key.type = k.type THEN "known" ELSE "new"
Status(file, h, k) ==
    IF Line(h, k) \in file THEN "known"
    ELSE IF \E l \in ForHost(file, h) : l.key.type = k.type THEN "changed"
    ELSE "new"

Check(h, k) ==
    IF k \in Revoked THEN "revoked"
    ELSE IF ForHost(own, h) # {} THEN Status(own, h, k)
    ELSE Status(user, h, k)

\* remember: the host's keys of the same type give way to the new one.
Remember(h, k) ==
    {l \in own : ~(l.host = h /\ l.key.type = k.type)} \cup {Line(h, k)}

(***************************************************************************)
(* connect: the hops in order.                                             *)
(***************************************************************************)
Begin ==
    /\ step \in {"idle", "connected", "failed"} /\ connects < MaxConnects
    /\ connects' = connects + 1
    /\ step' = "reach" /\ hop' = 1
    /\ UNCHANGED <<files, right, savedPw, key, authVars, remembered, ghosts, savedSent>>

Fails == step' = "failed"

\* Unreachable, timed out, refused by the proxy, or the hop before refuses the tunnel.
ReachFails ==
    /\ step = "reach" /\ Fails
    /\ UNCHANGED <<files, right, savedPw, hop, key, authVars, remembered, ghosts,
                   savedSent, connects>>

Presents(k) ==
    /\ step = "reach" /\ key' = k /\ step' = "check"
    /\ UNCHANGED <<files, right, savedPw, hop, authVars, remembered, ghosts, savedSent,
                   connects>>

\* decide, up to the question.
CheckKey ==
    /\ step = "check"
    /\ LET c == Check(hop, key) IN
       step' = IF c = "known" THEN "none"
               ELSE IF c = "revoked" THEN "failed"
               ELSE IF Line(hop, key) \in once THEN "none" ELSE "ask"
    /\ UNCHANGED <<files, right, savedPw, hop, key, authVars, remembered, ghosts,
                   savedSent, connects>>

TrustOnce ==
    /\ step = "ask" /\ step' = "none"
    /\ once' = once \cup {Line(hop, key)}
    /\ accepted' = accepted \cup {Line(hop, key)}
    /\ UNCHANGED <<own, user, right, savedPw, hop, key, authVars, remembered, saved,
                   savedSent, connects>>

\* Writing the file may fail; the key is trusted all the same.
TrustAndRemember(ok) ==
    /\ step = "ask" /\ step' = "none"
    /\ own' = IF ok THEN Remember(hop, key) ELSE own
    /\ saved' = IF ok THEN {l \in saved : ~(l.host = hop /\ l.key.type = key.type)}
                               \cup {Line(hop, key)} ELSE saved
    /\ accepted' = accepted \cup {Line(hop, key)}
    /\ UNCHANGED <<user, once, right, savedPw, hop, key, authVars, remembered, savedSent,
                   connects>>

Distrust ==
    /\ step = "ask" /\ Fails
    /\ UNCHANGED <<files, right, savedPw, hop, key, authVars, remembered, ghosts,
                   savedSent, connects>>

\* known_hosts::forget, from the keychain's view.
Forget(l) ==
    /\ step \in {"idle", "connected", "failed"} /\ l \in own
    /\ own' = own \ {l} /\ saved' = saved \ {l}
    /\ UNCHANGED <<user, once, right, savedPw, step, hop, key, authVars, remembered,
                   accepted, savedSent, connects>>

(***************************************************************************)
(* authenticate: `none` tells the methods; then the first method that is   *)
(* not done and still offered, in order.                                   *)
(***************************************************************************)
Offered(m) == remaining = {} \/ m \in remaining
Left == {i \in DOMAIN Order : Order[i] \notin done /\ Offered(Order[i])}

Authenticated ==
    IF hop = Cardinality(Hops) THEN step' = "connected" /\ UNCHANGED hop
    ELSE step' = "reach" /\ hop' = hop + 1

AuthNone(offers) ==
    /\ step = "none"
    /\ step' = "pick" /\ remaining' = offers /\ done' = {} /\ pwUsed' = FALSE
    /\ savedSent' = 0 /\ tries' = 0 /\ nth' = 1 /\ sending' = NoSecret
    /\ UNCHANGED <<files, right, savedPw, hop, key, remembered, ghosts, connects>>

NoneSuffices ==
    /\ step = "none" /\ Authenticated
    /\ UNCHANGED <<files, right, savedPw, key, authVars, remembered, ghosts, savedSent,
                   connects>>

Pick ==
    /\ step = "pick"
    /\ IF Left = {} THEN Fails /\ UNCHANGED <<done, nth, tries>>
       ELSE LET m == Order[CHOOSE i \in Left : \A j \in Left : i <= j] IN
            /\ done' = done \cup {m} /\ tries' = 0 /\ nth' = 1
            /\ step' = CASE m = "publickey" -> "key" [] m = "keyboard" -> "keyboard"
                         [] m = "password" -> "password"
    /\ UNCHANGED <<files, right, savedPw, hop, key, remaining, pwUsed, sending,
                   remembered, ghosts, savedSent, connects>>

\* Step::Partial starts over with what the server still wants.
Current == CHOOSE m \in Methods :
    m = CASE step \in {"key", "phrase"} -> "publickey"
          [] step \in {"keyboard", "code"} -> "keyboard"
          [] OTHER -> "password"
Accepted(offers) ==
    \/ Authenticated /\ UNCHANGED <<remaining, done>>
    \/ /\ step' = "pick" /\ remaining' = offers
       /\ done' = done \cap {Current} /\ UNCHANGED hop
RefusedWith(offers) == step' = "pick" /\ remaining' = offers /\ UNCHANGED <<done, hop>>

(***************************************************************************)
(* public_keys: the keychain's keys, key files, the agent's keys, fallback *)
(* files, in order; a file may ask for its passphrase and be skipped.      *)
(***************************************************************************)
OfferKey(offers) ==
    /\ step = "key" /\ (nth > Len(KeyFiles) \/ ~KeyFiles[nth] \/ tries = MaxTries + 1)
    /\ \/ nth <= Len(KeyFiles) /\ Accepted(offers) /\ UNCHANGED <<nth, tries>>
       \/ /\ nth < Len(KeyFiles) /\ nth' = nth + 1 /\ tries' = 0
          /\ UNCHANGED <<step, hop, remaining, done>>
       \/ nth >= Len(KeyFiles) /\ RefusedWith(offers) /\ UNCHANGED <<nth, tries>>
    /\ UNCHANGED <<files, right, savedPw, key, pwUsed, sending, remembered, ghosts,
                   savedSent, connects>>

\* load_key_file: an encrypted file asks up to MaxTries times.  `tries` past the
\* bound says the key is open.
AskPhrase ==
    /\ step = "key" /\ nth <= Len(KeyFiles) /\ KeyFiles[nth] /\ tries = 0
    /\ step' = "phrase"
    /\ UNCHANGED <<files, right, savedPw, hop, key, authVars, remembered, ghosts,
                   savedSent, connects>>

PhraseOpens(remember) ==
    /\ step = "phrase" /\ step' = "key" /\ tries' = MaxTries + 1
    /\ remembered' = IF remember THEN remembered \cup {[what |-> "phrase", ok |-> TRUE]}
                     ELSE remembered
    /\ UNCHANGED <<files, right, savedPw, hop, key, remaining, done, pwUsed, nth, sending,
                   ghosts, savedSent, connects>>

NextFile ==
    IF nth < Len(KeyFiles) THEN step' = "key" /\ nth' = nth + 1 /\ tries' = 0
    ELSE step' = "pick" /\ UNCHANGED <<nth, tries>>

PhraseWrong ==
    /\ step = "phrase"
    /\ IF tries + 1 = MaxTries THEN NextFile
       ELSE tries' = tries + 1 /\ UNCHANGED <<step, nth>>
    /\ UNCHANGED <<files, right, savedPw, hop, key, remaining, done, pwUsed, sending,
                   remembered, ghosts, savedSent, connects>>

PhraseSkipped ==
    /\ step = "phrase" /\ NextFile
    /\ UNCHANGED <<files, right, savedPw, hop, key, remaining, done, pwUsed, sending,
                   remembered, ghosts, savedSent, connects>>

(***************************************************************************)
(* keyboard: rounds of questions.  The saved password answers one masked   *)
(* question that asks for a password, once.                                *)
(***************************************************************************)
KeyboardRound(asksPassword) ==
    /\ step = "keyboard" /\ tries < MaxTries   \* bound: rounds
    /\ IF asksPassword /\ savedPw # "none" /\ ~pwUsed
       THEN pwUsed' = TRUE /\ savedSent' = savedSent + 1 /\ UNCHANGED <<step, tries>>
       ELSE step' = "code" /\ tries' = tries + 1 /\ UNCHANGED <<savedSent, pwUsed>>
    /\ UNCHANGED <<files, right, savedPw, hop, key, remaining, done, nth, sending,
                   remembered, ghosts, connects>>

CodeTyped ==
    /\ step = "code" /\ step' = "keyboard"
    /\ UNCHANGED <<files, right, savedPw, hop, key, authVars, remembered, ghosts,
                   savedSent, connects>>

KeyboardOver(offers) ==
    /\ step = "keyboard"
    /\ Accepted(offers) \/ RefusedWith(offers)
    /\ UNCHANGED <<files, right, savedPw, key, pwUsed, tries, nth, sending, remembered,
                   ghosts, savedSent, connects>>

\* A question that is cancelled ends the connection.
Cancel ==
    /\ step \in {"code", "pwAsk"} /\ Fails
    /\ UNCHANGED <<files, right, savedPw, hop, key, authVars, remembered, ghosts,
                   savedSent, connects>>

(***************************************************************************)
(* password: the saved one first, then up to MaxTries questions in all.    *)
(***************************************************************************)
PasswordNext ==
    /\ step = "password"
    /\ IF savedPw # "none" /\ ~pwUsed
       THEN /\ pwUsed' = TRUE /\ savedSent' = savedSent + 1
            /\ sending' = [secret |-> savedPw, remember |-> FALSE] /\ step' = "pwSend"
       ELSE step' = "pwAsk" /\ UNCHANGED <<pwUsed, savedSent, sending>>
    /\ UNCHANGED <<files, right, savedPw, hop, key, remaining, done, tries, nth,
                   remembered, ghosts, connects>>

PasswordTyped(t, remember) ==
    /\ step = "pwAsk" /\ step' = "pwSend"
    /\ sending' = [secret |-> t, remember |-> remember]
    /\ UNCHANGED <<files, right, savedPw, hop, key, remaining, done, pwUsed, tries, nth,
                   remembered, ghosts, savedSent, connects>>

RememberedAs(s) ==
    IF s.remember THEN remembered \cup {[what |-> "password", ok |-> s.secret = right]}
    ELSE remembered

Works(s) == s.secret = right
PasswordWorks(offers) ==
    /\ step = "pwSend" /\ Works(sending)
    /\ Accepted(offers)
    /\ remembered' = RememberedAs(sending)
    /\ UNCHANGED <<files, right, savedPw, key, pwUsed, tries, nth, sending, ghosts,
                   savedSent, connects>>

PasswordRefused(offers) ==
    /\ step = "pwSend" /\ sending.secret # right
    /\ IF tries + 1 < MaxTries /\ (offers = {} \/ "password" \in offers)
       THEN step' = "password" /\ tries' = tries + 1 /\ UNCHANGED <<remaining, done, hop>>
       ELSE RefusedWith(offers) /\ UNCHANGED tries
    /\ UNCHANGED <<files, right, savedPw, key, pwUsed, nth, sending, remembered, ghosts,
                   savedSent, connects>>

KNext ==
    \/ Begin \/ ReachFails \/ (\E k \in Keys : Presents(k)) \/ CheckKey
    \/ TrustOnce \/ (\E ok \in BOOLEAN : TrustAndRemember(ok)) \/ Distrust
    \/ (\E l \in own : Forget(l))
    \/ NoneSuffices \/ Pick \/ AskPhrase
    \/ (\E o \in Offers : AuthNone(o))
    \/ (\E o \in Offers : OfferKey(o))
    \/ (\E r \in BOOLEAN : PhraseOpens(r)) \/ PhraseWrong \/ PhraseSkipped
    \/ (\E a \in BOOLEAN : KeyboardRound(a)) \/ CodeTyped
    \/ (\E o \in Offers : KeyboardOver(o))
    \/ Cancel \/ PasswordNext
    \/ (\E t \in Typed, r \in BOOLEAN : PasswordTyped(t, r))
    \/ (\E o \in Offers : PasswordWorks(o))
    \/ (\E o \in Offers : PasswordRefused(o))

KSpec == KInit /\ [][KNext]_sshcVars

-----------------------------------------------------------------------------
\* Nothing is sent to a server whose key is revoked, or is neither in a
\* known_hosts file nor accepted by the user for that very host.
Past == step \notin {"idle", "reach", "check", "ask", "failed"}
NoUnknownKey ==
    Past => key \notin Revoked /\ Line(hop, key) \in own \cup user \cup accepted

\* A key the user chose to remember is not asked about again, whatever the
\* user's own known_hosts says of the host, until it is replaced or forgotten.
NoSecondQuestion == step = "ask" => Line(hop, key) \notin saved

\* The keychain's password goes to a server at most once per authentication,
\* by keyboard questions or as a password, over partial successes too.
SavedOnce == savedSent <= 1

\* What goes to the keychain to be remembered is what the server accepted.
RememberedWorks == \A r \in remembered : r.ok
=============================================================================
