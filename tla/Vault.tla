------------------------------- MODULE Vault -------------------------------
(***************************************************************************)
(* The encrypted vault of opensesh-vault/src/vault.rs: one file, vault.bin, *)
(* sealed with a random key that either the system keyring holds or a       *)
(* master password wraps.  Changing who holds the key takes several steps   *)
(* on two stores, the keyring and the disk, and each step can fail or be    *)
(* the last one before a crash.  The model keeps those steps apart.         *)
(*                                                                          *)
(* A file is a record: the vault's id (which names its key and its keyring  *)
(* entry), the holder of the key, and the secrets.  The cipher is           *)
(* abstracted: a file opens with its key, and with nothing else.  The worker *)
(* thread runs one operation at a time (app/src/keychain.rs), so only       *)
(* failures and crashes interleave with an operation's steps.               *)
(***************************************************************************)
EXTENDS Naturals, FiniteSets, TLAPS

CONSTANTS
    Passwords,     \* the master passwords the user can type
    Contents,      \* the sets of secrets a vault can hold
    Empty,         \* the secrets of a new vault, in Contents
    MaxVaults,     \* bound: vaults ever created
    Keyring,       \* the holder that is not a password
    NoFile,        \* vault.bin does not exist
    Idle           \* no operation is running

Ids == 1 .. MaxVaults

Holders == Passwords \cup {Keyring}

Files == [id : Ids, holder : Holders, content : Contents]

Operations ==
    [kind : {"create", "change", "set_password", "change_password",
             "remove_password", "reset"},
     new : Files \cup {NoFile}, remember : BOOLEAN, written : BOOLEAN]

ASSUME VaultAssumption ==
    /\ MaxVaults \in Nat
    /\ Empty \in Contents
    /\ Keyring \notin Passwords
    /\ NoFile \notin Files
    /\ Idle \notin Operations

VARIABLES
    disk,        \* vault.bin
    keyring,     \* the ids of the vaults whose key the system keyring has
    state,       \* Vault::status
    file,        \* the file in memory (State::Locked, State::Unlocked)
    remembered,  \* Unlocked::remembered
    op,          \* the operation the worker is in the middle of
    created,     \* how many vaults were created: ids are never used again
    told,        \* the holders the user may expect to open the vault
    expected,    \* the secrets the user may expect to find in it
    late         \* a save failed after its rename, or vault.bin could not be removed

vars == <<disk, keyring, state, file, remembered, op, created, told, expected, late>>

TypeOK ==
    /\ disk \in Files \cup {NoFile}
    /\ keyring \subseteq Ids
    /\ state \in {"missing", "unreadable", "locked", "unlocked"}
    /\ file \in Files \cup {NoFile}
    /\ remembered \in BOOLEAN
    /\ op \in Operations \cup {Idle}
    /\ created \in 0 .. MaxVaults
    /\ told \subseteq Holders
    /\ expected \subseteq Contents
    /\ late \in BOOLEAN

Init ==
    /\ disk = NoFile
    /\ keyring = {}
    /\ state = "missing"
    /\ file = NoFile
    /\ remembered = FALSE
    /\ op = Idle
    /\ created = 0
    /\ told = {}
    /\ expected = {}
    /\ late = FALSE

-----------------------------------------------------------------------------
(* The operations, up to the point where they write vault.bin.  Each first   *)
(* step also has the silent outcome in which the keyring refuses and the     *)
(* operation returns its error with nothing changed: a stuttering step.      *)

Begin(kind, new, remember) ==
    op' = [kind |-> kind, new |-> new, remember |-> remember, written |-> FALSE]

(* Mutant: a create that only looks for an open or locked vault.             *)
CreateOverUnreadable(holder) ==
    /\ op = Idle
    /\ file = NoFile
    /\ created < MaxVaults
    /\ created' = created + 1
    /\ keyring' = IF holder = Keyring THEN keyring \cup {created + 1} ELSE keyring
    /\ Begin("create", [id |-> created + 1, holder |-> holder, content |-> Empty], FALSE)
    /\ UNCHANGED <<disk, state, file, remembered, told, expected, late>>

(* Vault::create: without a password the key goes to the keyring first.      *)
Create(holder) ==
    /\ op = Idle
    /\ state = "missing"
    /\ created < MaxVaults
    /\ created' = created + 1
    /\ keyring' = IF holder = Keyring THEN keyring \cup {created + 1} ELSE keyring
    /\ Begin("create", [id |-> created + 1, holder |-> holder, content |-> Empty], FALSE)
    /\ UNCHANGED <<disk, state, file, remembered, told, expected, late>>

(* Vault::change: insert, replace and retain, on a copy of the secrets.      *)
Change(content) ==
    /\ op = Idle
    /\ state = "unlocked"
    /\ content # file.content
    /\ Begin("change", [file EXCEPT !.content = content], FALSE)
    /\ UNCHANGED <<disk, keyring, state, file, remembered, created, told, expected, late>>

(* What Vault::set_password does before its write: with remember, the        *)
(* keyring gets a copy of the key.                                           *)
Rewrap(kind, password, remember) ==
    /\ op = Idle
    /\ state = "unlocked"
    /\ keyring' = IF remember THEN keyring \cup {file.id} ELSE keyring
    /\ Begin(kind, [file EXCEPT !.holder = password], remember)
    /\ UNCHANGED <<disk, state, file, remembered, created, told, expected, late>>

SetPassword(password, remember) == Rewrap("set_password", password, remember)

(* Vault::change_password, the current password checked.                     *)
ChangePassword(password) ==
    /\ state = "unlocked"
    /\ file.holder \in Passwords
    /\ Rewrap("change_password", password, remembered)

(* Vault::remove_password, the current password checked.                     *)
RemovePassword ==
    /\ op = Idle
    /\ state = "unlocked"
    /\ file.holder \in Passwords
    /\ keyring' = keyring \cup {file.id}
    /\ Begin("remove_password", [file EXCEPT !.holder = Keyring], FALSE)
    /\ UNCHANGED <<disk, state, file, remembered, created, told, expected, late>>

(* Vault::reset: the keyring entry goes first, on a best-effort basis, if    *)
(* the header could be read at all.  (Without a file it changes nothing.)    *)
Reset ==
    /\ op = Idle
    /\ disk # NoFile
    /\ \/ /\ file # NoFile
          /\ keyring' = keyring \ {file.id}
       \/ UNCHANGED keyring
    /\ Begin("reset", NoFile, FALSE)
    /\ UNCHANGED <<disk, state, file, remembered, created, told, expected, late>>

-----------------------------------------------------------------------------
(* The write of vault.bin (Vault::write) and what follows it.                *)

Writing == op # Idle /\ op.kind # "reset" /\ ~op.written

(* The operation returned: the user knows what to expect from now on.        *)
Acknowledge ==
    /\ told' = IF op.kind = "change" /\ told # {} THEN told ELSE {op.new.holder}
    /\ expected' = IF op.kind \in {"create", "change"} \/ expected = {}
                   THEN {op.new.content} ELSE expected

(* set_password without remember still has to remove the keyring's copy.     *)
ForgetsAfter(kind) ==
    kind \in {"set_password", "change_password"} /\ ~op.remember

(* Mutant: a change that writes the new secrets and keeps the old ones in    *)
(* memory.                                                                   *)
WriteKeepsMemory ==
    /\ Writing
    /\ disk' = op.new
    /\ IF ForgetsAfter(op.kind)
       THEN /\ op' = [op EXCEPT !.written = TRUE]
            /\ UNCHANGED <<state, file, remembered, told, expected>>
       ELSE /\ op' = Idle
            /\ state' = "unlocked"
            /\ file' = IF op.kind = "change" THEN file ELSE op.new
            /\ remembered' = IF op.kind = "change" THEN remembered ELSE op.remember
            /\ Acknowledge
    /\ UNCHANGED <<keyring, created, late>>

(* The write succeeded: memory takes the new file.                           *)
Write ==
    /\ Writing
    /\ disk' = op.new
    /\ IF ForgetsAfter(op.kind)
       THEN /\ op' = [op EXCEPT !.written = TRUE]
            /\ UNCHANGED <<state, file, remembered, told, expected>>
       ELSE /\ op' = Idle
            /\ state' = "unlocked"
            /\ file' = op.new
            /\ remembered' = IF op.kind = "change" THEN remembered ELSE op.remember
            /\ Acknowledge
    /\ UNCHANGED <<keyring, created, late>>

(* The write failed: memory is not changed.  create takes the key it stored  *)
(* back out of the keyring, which may fail in turn and is then ignored.      *)
GiveUp ==
    /\ op' = Idle
    /\ \/ /\ op.kind = "create" /\ op.new.holder = Keyring
          /\ keyring' = keyring \ {op.new.id}
       \/ UNCHANGED keyring
    /\ UNCHANGED <<state, file, remembered, created, told, expected>>

WriteFails ==
    /\ Writing
    /\ GiveUp
    /\ UNCHANGED <<disk, late>>

(* The rename happened, syncing the folder failed, and the operation reports *)
(* a failure.                                                                *)
WriteFailsLate ==
    /\ Writing
    /\ disk' = op.new
    /\ late' = TRUE
    /\ GiveUp

(* Mutant: a set_password that leaves the old header in memory.              *)
ForgetKeepsHeader(refused) ==
    /\ op # Idle /\ op.written
    /\ keyring' = IF refused THEN keyring ELSE keyring \ {op.new.id}
    /\ remembered' = refused
    /\ Acknowledge
    /\ op' = Idle
    /\ UNCHANGED <<disk, state, file, created, late>>

(* set_password without remember, after the write: the keyring's copy goes,  *)
(* or the keyring refuses and the vault reports itself as remembered.        *)
Forget(refused) ==
    /\ op # Idle /\ op.written
    /\ keyring' = IF refused THEN keyring ELSE keyring \ {op.new.id}
    /\ remembered' = refused
    /\ file' = op.new
    /\ Acknowledge
    /\ op' = Idle
    /\ UNCHANGED <<disk, state, created, late>>

(* The rest of reset.  A user who asked for it expects nothing of the vault. *)
RemoveFile ==
    /\ op # Idle /\ op.kind = "reset"
    /\ \/ /\ disk' = NoFile
          /\ state' = "missing"
          /\ file' = NoFile
          /\ remembered' = FALSE
          /\ UNCHANGED late
       \/ /\ late' = TRUE
          /\ UNCHANGED <<disk, state, file, remembered>>
    /\ told' = {}
    /\ expected' = {}
    /\ op' = Idle
    /\ UNCHANGED <<keyring, created>>

-----------------------------------------------------------------------------
(* Mutant: a set_remember that drops the copy whoever holds the key.         *)
RemembersAnyway(remember) ==
    /\ op = Idle
    /\ state = "unlocked"
    /\ keyring' = IF remember THEN keyring \cup {file.id} ELSE keyring \ {file.id}
    /\ remembered' = remember
    /\ UNCHANGED <<disk, state, file, op, created, told, expected, late>>

(* Vault::set_remember: one keyring call, then the flag.                     *)
SetRemember(remember) ==
    /\ op = Idle
    /\ state = "unlocked"
    /\ file.holder \in Passwords
    /\ keyring' = IF remember THEN keyring \cup {file.id} ELSE keyring \ {file.id}
    /\ remembered' = remember
    /\ UNCHANGED <<disk, state, file, op, created, told, expected, late>>

(* Vault::lock keeps the file as last written or read.                       *)
Lock ==
    /\ op = Idle
    /\ state = "unlocked"
    /\ state' = "locked"
    /\ remembered' = FALSE
    /\ UNCHANGED <<disk, keyring, file, op, created, told, expected, late>>

(* Vault::unlock_with_keyring.  An open vault shows what it holds.           *)
UnlockWithKeyring ==
    /\ op = Idle
    /\ state = "locked"
    /\ file.id \in keyring
    /\ state' = "unlocked"
    /\ remembered' = (file.holder \in Passwords)
    /\ told' = {file.holder}
    /\ expected' = {file.content}
    /\ UNCHANGED <<disk, keyring, file, op, created, late>>

(* Vault::unlock with the right master password.  A keyring that cannot be   *)
(* read counts as one without a copy.                                        *)
Unlock ==
    /\ op = Idle
    /\ state = "locked"
    /\ file.holder \in Passwords
    /\ state' = "unlocked"
    /\ \E readable \in BOOLEAN : remembered' = (readable /\ file.id \in keyring)
    /\ told' = {file.holder}
    /\ expected' = {file.content}
    /\ UNCHANGED <<disk, keyring, file, op, created, late>>

(* The process ends, at any point of an operation, and starts again:         *)
(* Vault::open reads the file; reading it may fail.  An operation cut short  *)
(* never told the user how it went.                                          *)
Restart ==
    /\ \/ /\ state' = IF disk = NoFile THEN "missing" ELSE "locked"
          /\ file' = disk
       \/ /\ disk # NoFile
          /\ state' = "unreadable"
          /\ file' = NoFile
    /\ remembered' = FALSE
    /\ op' = Idle
    /\ CASE op = Idle -> UNCHANGED <<told, expected>>
         [] op # Idle /\ op.kind \in {"create", "reset"} -> told' = {} /\ expected' = {}
         [] OTHER -> /\ told' = told \cup {op.new.holder}
                     /\ expected' = expected \cup {op.new.content}
    /\ UNCHANGED <<disk, keyring, created, late>>

-----------------------------------------------------------------------------
Next ==
    \/ \E holder \in Holders : Create(holder)
    \/ \E content \in Contents : Change(content)
    \/ \E password \in Passwords, remember \in BOOLEAN : SetPassword(password, remember)
    \/ \E password \in Passwords : ChangePassword(password)
    \/ RemovePassword
    \/ Reset
    \/ Write
    \/ WriteFails
    \/ WriteFailsLate
    \/ \E refused \in BOOLEAN : Forget(refused)
    \/ RemoveFile
    \/ \E remember \in BOOLEAN : SetRemember(remember)
    \/ Lock
    \/ UnlockWithKeyring
    \/ Unlock
    \/ Restart

Spec == Init /\ [][Next]_vars

-----------------------------------------------------------------------------
(* While the vault is in use, and no save or removal has failed after it     *)
(* took effect: memory then differs from the disk for good.                  *)
InUse == op = Idle /\ told # {} /\ ~late

(* Whenever no operation is running, also after a restart in the middle of   *)
(* one, a vault.bin whose header says that the keyring holds the key has its *)
(* key in the keyring: create and remove_password store the key before they  *)
(* write, and nothing takes it out afterwards.                               *)
KeyKept ==
    InUse => disk # NoFile /\ (disk.holder = Keyring => disk.id \in keyring)

(* The master password that opens vault.bin is the one the user was last     *)
(* told of (or typed for an operation a crash cut short): set_password,      *)
(* change_password and remove_password never leave the old holder in memory  *)
(* for a later save to bring back.                                           *)
HolderTold ==
    InUse => disk # NoFile /\ disk.holder \in told

(* Rewrapping the key, locking, unlocking and restarting never bring back    *)
(* secrets older than the last save that succeeded (Vault::change).          *)
SecretsKept ==
    InUse => disk # NoFile /\ disk.content \in expected

(* A vault.bin that could not be read is never overwritten, only removed by  *)
(* a reset, whatever fails: it may be whole, or a newer version's.           *)
UnreadableKept ==
    [][state = "unreadable" => disk' \in {disk, NoFile}]_vars

-----------------------------------------------------------------------------
(* The inductive invariant behind KeyKept, HolderTold and SecretsKept.       *)

(* What is in memory, and the operation in progress, fit each other.         *)
StateFits ==
    /\ state \in {"missing", "unreadable"} <=> file = NoFile
    /\ disk = NoFile => state = "missing"
    /\ op # Idle =>
         /\ op.kind = "reset" <=> op.new = NoFile
         /\ op.kind = "create" => state = "missing" /\ ~op.remember
         /\ op.kind \notin {"create", "reset"} => state = "unlocked" /\ op.new.id = file.id
         /\ op.written => op.kind \in {"set_password", "change_password"} /\ ~op.remember
         /\ op.kind \in {"set_password", "change_password"} => op.new.holder \in Passwords
         /\ op.kind = "change" => op.new.holder = file.holder
         /\ op.kind \notin {"create", "change", "reset"} => op.new.content = file.content

(* Memory and disk hold the same file, except between a write and the end of *)
(* its operation.                                                            *)
MemoryIsDisk ==
    /\ state = "missing" => disk = NoFile
    /\ file # NoFile =>
         disk = IF op # Idle /\ op.written THEN op.new ELSE file

(* The keyring has the key of every file it holds, or is about to hold.      *)
KeyHeld ==
    /\ (told # {} /\ (op = Idle \/ op.kind # "reset") /\ disk # NoFile)
          => (disk.holder = Keyring => disk.id \in keyring)
    /\ (op # Idle /\ op.kind # "reset")
          => (op.new.holder = Keyring => op.new.id \in keyring)

(* What the user expects is what is on disk, or about to be.                 *)
ExpectationMet ==
    /\ told = {} <=> expected = {}
    /\ told # {} =>
         /\ disk # NoFile
         /\ disk.holder \in told \/ (op # Idle /\ op.written)
         /\ disk.content \in expected
    /\ state = "unlocked" => file.holder \in told /\ file.content \in expected

(* A failure that came late breaks everything but the shape of the state.    *)
IInv ==
    /\ TypeOK
    /\ StateFits
    /\ ~late => MemoryIsDisk /\ KeyHeld /\ ExpectationMet

-----------------------------------------------------------------------------
(* Proofs: no sequence of operations, failures and crashes loses the key or  *)
(* the secrets, as long as every save that fails changes nothing on disk and *)
(* every removal works.                                                      *)

(* The record an operation begins with: Begin sets every field of op, and    *)
(* nothing has been written yet.                                             *)
LEMMA Begins ==
    ASSUME NEW k \in {"create", "change", "set_password", "change_password",
                      "remove_password", "reset"},
           NEW f \in Files \cup {NoFile}, NEW r \in BOOLEAN,
           Begin(k, f, r)
    PROVE  /\ op' \in Operations
           /\ op' # Idle
           /\ op'.kind = k /\ op'.new = f /\ op'.remember = r /\ ~op'.written
<1>1. op' = [kind |-> k, new |-> f, remember |-> r, written |-> FALSE]
  BY DEF Begin
<1>2. op' \in Operations
  BY <1>1, Zenon DEF Operations
<1>3. op' # Idle
  BY <1>2, VaultAssumption
<1>4. op'.kind = k /\ op'.new = f /\ op'.remember = r
  BY <1>1
<1>5. op'.written = FALSE
  BY <1>1
<1>6. QED
  BY <1>2, <1>3, <1>4, <1>5

(* Init establishes the invariant.                                           *)
LEMMA InitIInv == Init => IInv
<1> SUFFICES ASSUME Init PROVE IInv
  OBVIOUS
<1>1. TypeOK
  <2>1. created \in 0 .. MaxVaults
    BY VaultAssumption DEF Init
  <2>2. QED
    BY <2>1, Zenon DEF Init, TypeOK
<1>2. StateFits /\ MemoryIsDisk
  BY DEF Init, StateFits, MemoryIsDisk
<1>3. KeyHeld /\ ExpectationMet
  BY DEF Init, KeyHeld, ExpectationMet
<1>4. QED
  BY <1>1, <1>2, <1>3 DEF IInv

(* Every step of an operation, a failed write, a lock, an unlock and a       *)
(* restart at any point keep the inductive invariant.                        *)
LEMMA StepIInv ==
    ASSUME IInv, [Next]_vars
    PROVE  IInv'
<1> USE VaultAssumption
<1>1. ASSUME NEW holder \in Holders, Create(holder)
      PROVE  IInv'
  <2> DEFINE new == [id |-> created + 1, holder |-> holder, content |-> Empty]
  <2>1. new \in Files
    BY <1>1 DEF IInv, TypeOK, StateFits, Create, Files, Ids
  <2>2. new.holder = holder /\ new.id = created + 1
    BY <1>1 DEF IInv, TypeOK, StateFits, Create, Files
  <2> HIDE DEF new
  <2>3. /\ op' \in Operations /\ op' # Idle /\ op = Idle
        /\ op'.kind = "create" /\ op'.new = new /\ op'.remember = FALSE /\ ~op'.written
    <3>1. Begin("create", new, FALSE)
      BY <1>1 DEF Create, new
    <3>2. QED
      BY <1>1, <2>1, <3>1, Begins DEF Create
  <2>4. /\ UNCHANGED <<disk, state, file, remembered, told, expected, late>>
        /\ state = "missing"
    BY <1>1 DEF Create
  <2>5. TypeOK'
    BY <1>1, <2>3, <2>4 DEF Create, IInv, TypeOK, StateFits, Files, Ids
  <2>6. StateFits'
    BY <2>1, <2>2, <2>3, <2>4 DEF IInv, StateFits
  <2>7. ~late' => MemoryIsDisk'
    BY <2>3, <2>4 DEF IInv, MemoryIsDisk
  <2>8. ~late' => KeyHeld'
    BY <1>1, <2>2, <2>3, <2>4 DEF Create, IInv, StateFits, MemoryIsDisk, KeyHeld, ExpectationMet
  <2>9. ~late' => ExpectationMet'
    BY <2>3, <2>4 DEF IInv, ExpectationMet
  <2>10. QED
    BY <2>5, <2>6, <2>7, <2>8, <2>9 DEF IInv
<1>2. ASSUME NEW content \in Contents, Change(content)
      PROVE  IInv'
  <2> DEFINE new == [file EXCEPT !.content = content]
  <2>1. new \in Files
    BY <1>2 DEF IInv, TypeOK, StateFits, Change, Files
  <2>2. new.holder = file.holder /\ new.id = file.id
    BY <1>2 DEF IInv, TypeOK, StateFits, Change, Files
  <2> HIDE DEF new
  <2>3. /\ op' \in Operations /\ op' # Idle /\ op = Idle
        /\ op'.kind = "change" /\ op'.new = new /\ op'.remember = FALSE /\ ~op'.written
    <3>1. Begin("change", new, FALSE)
      BY <1>2 DEF Change, new
    <3>2. QED
      BY <1>2, <2>1, <3>1, Begins DEF Change
  <2>4. /\ UNCHANGED <<disk, state, file, remembered, told, expected, late>>
        /\ state = "unlocked"
    BY <1>2 DEF Change
  <2>5. TypeOK'
    BY <1>2, <2>3, <2>4 DEF Change, IInv, TypeOK, StateFits, Files
  <2>6. StateFits'
    BY <2>1, <2>2, <2>3, <2>4 DEF IInv, StateFits
  <2>7. ~late' => MemoryIsDisk'
    BY <2>3, <2>4 DEF IInv, MemoryIsDisk
  <2>8. ~late' => KeyHeld'
    BY <1>2, <2>2, <2>3, <2>4 DEF Change, IInv, StateFits, MemoryIsDisk, KeyHeld, ExpectationMet
  <2>9. ~late' => ExpectationMet'
    BY <2>3, <2>4 DEF IInv, ExpectationMet
  <2>10. QED
    BY <2>5, <2>6, <2>7, <2>8, <2>9 DEF IInv
<1>3. ASSUME NEW kind \in {"set_password", "change_password"},
             NEW password \in Passwords, NEW remember \in BOOLEAN,
             Rewrap(kind, password, remember)
      PROVE  IInv'
  <2> DEFINE new == [file EXCEPT !.holder = password]
  <2>1. new \in Files
    BY <1>3 DEF IInv, TypeOK, StateFits, Rewrap, Files, Holders
  <2>2. new.holder = password /\ new.id = file.id /\ new.content = file.content
    BY <1>3 DEF IInv, TypeOK, StateFits, Rewrap, Files
  <2> HIDE DEF new
  <2>3. /\ op' \in Operations /\ op' # Idle /\ op = Idle
        /\ op'.kind = kind /\ op'.new = new /\ op'.remember = remember /\ ~op'.written
    <3>1. Begin(kind, new, remember)
      BY <1>3 DEF Rewrap, new
    <3>2. QED
      BY <1>3, <2>1, <3>1, Begins DEF Rewrap
  <2>4. /\ UNCHANGED <<disk, state, file, remembered, told, expected, late>>
        /\ state = "unlocked"
    BY <1>3 DEF Rewrap
  <2>5. TypeOK'
    BY <1>3, <2>3, <2>4 DEF Rewrap, IInv, TypeOK, StateFits, Files
  <2>6. StateFits'
    BY <2>1, <2>2, <2>3, <2>4 DEF IInv, StateFits
  <2>7. ~late' => MemoryIsDisk'
    BY <2>3, <2>4 DEF IInv, MemoryIsDisk
  <2>8. ~late' => KeyHeld'
    BY <1>3, <2>2, <2>3, <2>4 DEF Rewrap, IInv, StateFits, MemoryIsDisk, KeyHeld, ExpectationMet
  <2>9. ~late' => ExpectationMet'
    BY <2>3, <2>4 DEF IInv, ExpectationMet
  <2>10. QED
    BY <2>5, <2>6, <2>7, <2>8, <2>9 DEF IInv
<1>4. CASE RemovePassword
  <2> DEFINE new == [file EXCEPT !.holder = Keyring]
  <2>1. new \in Files
    BY <1>4 DEF IInv, TypeOK, StateFits, RemovePassword, Files, Holders
  <2>2. new.holder = Keyring /\ new.id = file.id /\ new.content = file.content
    BY <1>4 DEF IInv, TypeOK, StateFits, RemovePassword, Files
  <2> HIDE DEF new
  <2>3. /\ op' \in Operations /\ op' # Idle /\ op = Idle
        /\ op'.kind = "remove_password" /\ op'.new = new /\ op'.remember = FALSE /\ ~op'.written
    <3>1. Begin("remove_password", new, FALSE)
      BY <1>4 DEF RemovePassword, new
    <3>2. QED
      BY <1>4, <2>1, <3>1, Begins DEF RemovePassword
  <2>4. /\ UNCHANGED <<disk, state, file, remembered, told, expected, late>>
        /\ state = "unlocked"
    BY <1>4 DEF RemovePassword
  <2>5. TypeOK'
    BY <1>4, <2>3, <2>4 DEF RemovePassword, IInv, TypeOK, StateFits, Files
  <2>6. StateFits'
    BY <2>1, <2>2, <2>3, <2>4 DEF IInv, StateFits
  <2>7. ~late' => MemoryIsDisk'
    BY <2>3, <2>4 DEF IInv, MemoryIsDisk
  <2>8. ~late' => KeyHeld'
    BY <1>4, <2>2, <2>3, <2>4 DEF RemovePassword, IInv, StateFits, MemoryIsDisk, KeyHeld, ExpectationMet
  <2>9. ~late' => ExpectationMet'
    BY <2>3, <2>4 DEF IInv, ExpectationMet
  <2>10. QED
    BY <2>5, <2>6, <2>7, <2>8, <2>9 DEF IInv
<1>5. CASE Reset
  <2> DEFINE new == NoFile
  <2>1. new \in Files \cup {NoFile}
    BY <1>5 DEF IInv, TypeOK, StateFits, Reset
  <2>2. new = NoFile
    BY <1>5 DEF IInv, TypeOK, StateFits, Reset, Files
  <2> HIDE DEF new
  <2>3. /\ op' \in Operations /\ op' # Idle /\ op = Idle
        /\ op'.kind = "reset" /\ op'.new = new /\ op'.remember = FALSE /\ ~op'.written
    <3>1. Begin("reset", new, FALSE)
      BY <1>5 DEF Reset, new
    <3>2. QED
      BY <1>5, <2>1, <3>1, Begins DEF Reset
  <2>4. /\ UNCHANGED <<disk, state, file, remembered, told, expected, late>>
        /\ disk # NoFile
    BY <1>5 DEF Reset
  <2>5. TypeOK'
    BY <1>5, <2>3, <2>4 DEF Reset, IInv, TypeOK, StateFits, Files
  <2>6. StateFits'
    BY <2>1, <2>2, <2>3, <2>4 DEF IInv, StateFits
  <2>7. ~late' => MemoryIsDisk'
    BY <2>3, <2>4 DEF IInv, MemoryIsDisk
  <2>8. ~late' => KeyHeld'
    BY <1>5, <2>2, <2>3, <2>4 DEF Reset, IInv, StateFits, MemoryIsDisk, KeyHeld, ExpectationMet
  <2>9. ~late' => ExpectationMet'
    BY <2>3, <2>4 DEF IInv, ExpectationMet
  <2>10. QED
    BY <2>5, <2>6, <2>7, <2>8, <2>9 DEF IInv
<1>6. CASE Write
  <2>1. /\ op # Idle /\ op \in Operations /\ op.kind # "reset" /\ ~op.written
        /\ op.new \in Files /\ disk' = op.new
    BY <1>6 DEF Write, Writing, IInv, TypeOK, StateFits, Operations
  <2>2. CASE ForgetsAfter(op.kind)
    <3>1. op' = [op EXCEPT !.written = TRUE] /\ UNCHANGED <<state, file, remembered, told, expected, keyring, created, late>>
      BY <1>6, <2>2 DEF Write
    <3>2. /\ op' \in Operations /\ op' # Idle /\ op'.written
          /\ op'.kind = op.kind /\ op'.new = op.new /\ op'.remember = op.remember
      BY <2>1, <3>1 DEF Operations
    <3>3. op.kind \in {"set_password", "change_password"} /\ ~op.remember
      BY <2>2 DEF ForgetsAfter
    <3>4. TypeOK' /\ StateFits' /\ (~late' => MemoryIsDisk')
      BY <2>1, <3>1, <3>2, <3>3 DEF IInv, TypeOK, StateFits, MemoryIsDisk
    <3>5. ~late' => KeyHeld'
      BY <2>1, <3>1, <3>2, <3>3 DEF IInv, StateFits, KeyHeld
    <3>6. ~late' => ExpectationMet'
      BY <2>1, <3>1, <3>2, <3>3 DEF IInv, StateFits, ExpectationMet
    <3>7. QED
      BY <3>4, <3>5, <3>6 DEF IInv
  <2>3. CASE ~ForgetsAfter(op.kind)
    <3>1. /\ op' = Idle /\ state' = "unlocked" /\ file' = op.new
          /\ remembered' = IF op.kind = "change" THEN remembered ELSE op.remember
          /\ Acknowledge
          /\ UNCHANGED <<keyring, created, late>>
      BY <1>6, <2>3 DEF Write
    <3>2. /\ told' \subseteq Holders /\ expected' \subseteq Contents
          /\ told' # {} /\ expected' # {}
          /\ ~late => op.new.holder \in told' /\ op.new.content \in expected'
      BY <2>1, <3>1 DEF Acknowledge, IInv, TypeOK, StateFits, ExpectationMet, Files, Operations
    <3>3. TypeOK'
      BY <2>1, <3>1, <3>2 DEF IInv, TypeOK, Operations
    <3>4. StateFits' /\ (~late' => MemoryIsDisk' /\ ExpectationMet')
      BY <2>1, <3>1, <3>2, VaultAssumption DEF StateFits, MemoryIsDisk, ExpectationMet
    <3>5. ~late' => KeyHeld'
      BY <2>1, <3>1 DEF IInv, KeyHeld
    <3>6. QED
      BY <3>3, <3>4, <3>5 DEF IInv
  <2>4. QED
    BY <2>2, <2>3
<1>7. CASE WriteFails
  BY <1>7 DEF WriteFails, GiveUp, Writing, IInv, TypeOK, StateFits, MemoryIsDisk, KeyHeld, ExpectationMet, Files, Operations
<1>8. CASE WriteFailsLate
  BY <1>8 DEF WriteFailsLate, GiveUp, Writing, IInv, TypeOK, StateFits, Files, Operations
<1>9. ASSUME NEW refused \in BOOLEAN, Forget(refused)
      PROVE  IInv'
  BY <1>9 DEF Forget, Acknowledge, IInv, TypeOK, StateFits, MemoryIsDisk, KeyHeld, ExpectationMet, Files, Operations
<1>10. CASE RemoveFile
  BY <1>10 DEF RemoveFile, IInv, TypeOK, StateFits, MemoryIsDisk, KeyHeld, ExpectationMet, Files, Operations
<1>11. ASSUME NEW remember \in BOOLEAN, SetRemember(remember)
       PROVE  IInv'
  BY <1>11 DEF SetRemember, IInv, TypeOK, StateFits, MemoryIsDisk, KeyHeld, ExpectationMet, Files
<1>12. CASE Lock
  BY <1>12 DEF Lock, IInv, TypeOK, StateFits, MemoryIsDisk, KeyHeld, ExpectationMet, Files
<1>13. CASE UnlockWithKeyring
  BY <1>13 DEF UnlockWithKeyring, IInv, TypeOK, StateFits, MemoryIsDisk, KeyHeld, ExpectationMet, Files
<1>14. CASE Unlock
  <2>1. /\ op = Idle /\ op' = Idle /\ state = "locked" /\ state' = "unlocked"
        /\ told' = {file.holder} /\ expected' = {file.content}
        /\ file.holder \in Passwords
        /\ UNCHANGED <<disk, keyring, file, created, late>>
    BY <1>14 DEF Unlock
  <2>2. file \in Files /\ (~late => disk = file)
    BY <2>1 DEF IInv, TypeOK, StateFits, MemoryIsDisk
  <2>3. remembered' \in BOOLEAN
    BY <1>14, Zenon DEF Unlock
  <2>4. TypeOK'
    BY <2>1, <2>2, <2>3 DEF IInv, TypeOK, Files
  <2>5. StateFits' /\ (~late' => MemoryIsDisk' /\ ExpectationMet')
    BY <2>1, <2>2 DEF IInv, StateFits, MemoryIsDisk, ExpectationMet
  <2>6. ~late' => KeyHeld'
    BY <2>1, <2>2 DEF KeyHeld
  <2>7. QED
    BY <2>4, <2>5, <2>6 DEF IInv
<1>15. CASE Restart
  <2>1. TypeOK'
    <3>1. op # Idle /\ op.kind # "reset" => op.new \in Files
      BY DEF IInv, TypeOK, StateFits, Operations
    <3>2. told' \subseteq Holders /\ expected' \subseteq Contents
      BY <1>15, <3>1 DEF Restart, IInv, TypeOK, Files
    <3>3. QED
      BY <1>15, <3>2 DEF Restart, IInv, TypeOK
  <2>2. StateFits'
    BY <1>15 DEF Restart, IInv, TypeOK, StateFits, ExpectationMet, Files
  <2>3. ~late' => MemoryIsDisk'
    BY <1>15 DEF Restart, IInv, StateFits, MemoryIsDisk
  <2>4. ~late' => KeyHeld'
    BY <1>15 DEF Restart, IInv, TypeOK, StateFits, MemoryIsDisk, KeyHeld, ExpectationMet, Files
  <2>5. ~late' => ExpectationMet'
    BY <1>15 DEF Restart, IInv, StateFits, MemoryIsDisk, ExpectationMet
  <2>6. QED
    BY <2>1, <2>2, <2>3, <2>4, <2>5 DEF IInv
<1>16. CASE UNCHANGED vars
  BY <1>16 DEF vars, IInv, TypeOK, StateFits, MemoryIsDisk, KeyHeld, ExpectationMet
<1>17. QED
  BY <1>1, <1>2, <1>3, <1>4, <1>5, <1>6, <1>7, <1>8, <1>9, <1>10, <1>11, <1>12, <1>13, <1>14, <1>15, <1>16
     DEF Next, SetPassword, ChangePassword, IInv, TypeOK

(* The inductive invariant holds in every reachable state of the vault.      *)
THEOREM Invariant == Spec => []IInv
<1>1. IInv /\ [Next]_vars => IInv'
  BY StepIInv
<1>2. QED
  BY InitIInv, <1>1, PTL DEF Spec

(* Wherever the program is killed and whatever fails, short of a failure     *)
(* reported after its effect, a vault whose header names the keyring has its *)
(* key there (vault.rs: create, remove_password, set_remember,               *)
(* set_password), for any number of vaults and passwords.                    *)
THEOREM KeyIsKept == Spec => []KeyKept
<1>1. IInv => KeyKept
  BY DEF IInv, KeyHeld, ExpectationMet, KeyKept, InUse
<1>2. QED
  BY Invariant, <1>1, PTL

(* The password the user was last told of opens the file on disk.            *)
THEOREM HolderIsTold == Spec => []HolderTold
<1>1. IInv => HolderTold
  BY DEF IInv, ExpectationMet, HolderTold, InUse
<1>2. QED
  BY Invariant, <1>1, PTL

(* No change of holder, restart or failure brings older secrets back.        *)
THEOREM SecretsAreKept == Spec => []SecretsKept
<1>1. IInv => SecretsKept
  BY DEF IInv, ExpectationMet, SecretsKept, InUse
<1>2. QED
  BY Invariant, <1>1, PTL

(* A vault.bin that could not be read is never overwritten (vault.rs,        *)
(* State::Unreadable: every operation but reset refuses), late failures and  *)
(* restarts in the middle of an operation included.                          *)
THEOREM UnreadableIsKept == Spec => UnreadableKept
<1>1. IInv /\ [Next]_vars => [state = "unreadable" => disk' \in {disk, NoFile}]_vars
  <2> SUFFICES ASSUME IInv, Next, state = "unreadable", disk' # disk
               PROVE  disk' = NoFile
    BY DEF vars
  <2>1. ~Writing
    BY DEF IInv, StateFits, Writing
  <2>2. RemoveFile
    BY <2>1 DEF Next, Create, Change, SetPassword, ChangePassword, Rewrap, RemovePassword, Reset,
                Write, WriteFails, WriteFailsLate, Forget, SetRemember, Lock, UnlockWithKeyring,
                Unlock, Restart
  <2>3. QED
    BY <2>2 DEF RemoveFile
<1>2. QED
  BY Invariant, <1>1, PTL DEF Spec, UnreadableKept

=============================================================================
