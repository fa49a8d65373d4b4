------------------------------ MODULE Keychain ------------------------------
(***************************************************************************)
(* The keychain of opensesh-vault/src/manager.rs, run by the worker thread  *)
(* of opensesh-app/src/keychain.rs.  Two files have to agree: keychain.toml  *)
(* lists identities, keys and hosts and refers to their secrets by id, and  *)
(* the vault holds the secrets.  No operation writes both at once, either    *)
(* write can fail, the program can be killed between them, and the user can *)
(* edit keychain.toml by hand at any time.                                  *)
(*                                                                          *)
(* A slot is one place of keychain.toml that can refer to a secret: an      *)
(* identity's password, a key's private part, a host's password or key      *)
(* passphrase.  The vault is the map of its entries; how its file and its   *)
(* key are kept is Vault.tla's subject.                                     *)
(***************************************************************************)
EXTENDS Naturals, FiniteSets, Functions

CONSTANTS
    Slots,      \* the places that can refer to a secret
    Values,     \* the secrets a user can type
    NoValue,    \* what a slot without a reference holds
    Lost,       \* what a reference to no entry of the vault holds
    MaxRefs,    \* bound: secret ids ever generated
    MaxEdits    \* bound: edits of keychain.toml by hand

Refs == 1 .. MaxRefs

NoRef == 0

\* NoValue and Lost are two values that are none of Values.

References == [Slots -> Refs \cup {NoRef}]

IdleOp == [phase |-> "idle", new |-> [s \in Slots |-> NoRef], doomed |-> {}, inserted |-> {},
           touched |-> {}]

VARIABLES
    toml,        \* keychain.toml on disk: the references, the slots whose entry has a value
                 \* of the wrong type, and whether this version can read it
    vault,       \* the vault's entries: Values, or Lost for an id it does not have
    status,      \* Vault::status
    file,        \* Keychain::file, the references in memory
    lockedFile,  \* Keychain::locked_file
    op,          \* the job the worker is in the middle of
    nextRef,     \* the next id to be generated
    edits,       \* edits by hand so far
    expected     \* for each slot, what the user may expect it to hold

vars == <<toml, vault, status, file, lockedFile, op, nextRef, edits, expected>>

TypeOK ==
    /\ toml \in [refs : References, mistyped : SUBSET Slots, readable : BOOLEAN]
    /\ vault \in [Refs -> Values \cup {Lost}]
    /\ status \in {"missing", "locked", "unlocked"}
    /\ file \in References
    /\ lockedFile \in BOOLEAN
    /\ op \in [phase : {"idle", "commit", "forget", "tidy"}, new : References,
               doomed : SUBSET Refs, inserted : SUBSET Refs, touched : SUBSET Slots]
    /\ nextRef \in 1 .. MaxRefs + 1
    /\ edits \in 0 .. MaxEdits
    /\ expected \in [Slots -> SUBSET (Values \cup {NoValue, Lost})]

Init ==
    /\ toml = [refs |-> [s \in Slots |-> NoRef], mistyped |-> {}, readable |-> TRUE]
    /\ vault = [r \in Refs |-> Lost]
    /\ status = "missing"
    /\ file = [s \in Slots |-> NoRef]
    /\ lockedFile = FALSE
    /\ op = IdleOp
    /\ nextRef = 1
    /\ edits = 0
    /\ expected = [s \in Slots |-> {NoValue}]

Free == op.phase = "idle"

(* KeychainFile::load: what cannot be read is an empty, locked keychain; an  *)
(* entry with a value of the wrong type is skipped with a warning.           *)
Loaded(text) ==
    [s \in Slots |-> IF text.readable /\ s \notin text.mistyped THEN text.refs[s] ELSE NoRef]

(* Keychain::secret_ids.                                                     *)
secret_ids(refs) == Range(refs) \ {NoRef}

Without(entries, gone) == [r \in Refs |-> IF r \in gone THEN Lost ELSE entries[r]]

-----------------------------------------------------------------------------
(* The first step of each job.                                               *)

(* save_identity, set_host_secret and add_key with a new secret: the vault   *)
(* (created now if there is none) takes it first, in the entry the slot      *)
(* already has or in a new one.                                              *)
SetSecret(slot, value) ==
    /\ Free /\ ~lockedFile /\ status # "locked"
    /\ file[slot] = NoRef => nextRef <= MaxRefs
    /\ LET ref == IF file[slot] = NoRef THEN nextRef ELSE file[slot]
       IN  /\ vault' = [vault EXCEPT ![ref] = value]
           /\ op' = [phase |-> "commit", new |-> [file EXCEPT ![slot] = ref],
                     doomed |-> {}, inserted |-> {ref} \ {file[slot]}, touched |-> {slot}]
           /\ nextRef' = IF ref = nextRef THEN nextRef + 1 ELSE nextRef
    /\ status' = "unlocked"
    /\ expected' = [expected EXCEPT ![slot] = @ \cup {value}]
    /\ UNCHANGED <<toml, file, lockedFile, edits>>

(* Clearing a secret, or deleting the identity, key or host that has some:   *)
(* keychain.toml goes first.                                                 *)
ClearSecrets(slots) ==
    /\ Free /\ ~lockedFile
    /\ secret_ids(Restrict(file, slots)) # {}
    /\ op' = [phase |-> "commit", new |-> [s \in Slots |-> IF s \in slots THEN NoRef ELSE file[s]],
              doomed |-> secret_ids(Restrict(file, slots)), inserted |-> {}, touched |-> slots]
    /\ expected' = [s \in Slots |-> IF s \in slots THEN expected[s] \cup {NoValue} ELSE expected[s]]
    /\ UNCHANGED <<toml, vault, status, file, lockedFile, nextRef, edits>>

(* Saving an identity with PasswordChange::Keep, renaming a key.             *)
SaveOther ==
    /\ Free /\ ~lockedFile
    /\ op' = [IdleOp EXCEPT !.phase = "commit", !.new = file]
    /\ UNCHANGED <<toml, vault, status, file, lockedFile, nextRef, edits, expected>>

(* reset_vault: the vault goes, and then the references to it.               *)
ResetVault ==
    /\ Free /\ status # "missing"
    /\ vault' = [r \in Refs |-> Lost]
    /\ status' = "missing"
    /\ op' = IF lockedFile THEN IdleOp ELSE [IdleOp EXCEPT !.phase = "commit", !.touched = Slots]
    /\ expected' = [s \in Slots |-> {NoValue, Lost}]
    /\ UNCHANGED <<toml, file, lockedFile, nextRef, edits>>

(* Job::Reload, sent by the watcher whenever keychain.toml changed.          *)
Reload ==
    /\ Free
    /\ file' = Loaded(toml)
    /\ lockedFile' = ~toml.readable
    /\ op' = [IdleOp EXCEPT !.phase = "tidy"]
    /\ UNCHANGED <<toml, vault, status, nextRef, edits, expected>>

Unlock ==
    /\ Free /\ status = "locked"
    /\ status' = "unlocked"
    /\ op' = [IdleOp EXCEPT !.phase = "tidy"]
    /\ UNCHANGED <<toml, vault, file, lockedFile, nextRef, edits, expected>>

Lock ==
    /\ Free /\ status = "unlocked"
    /\ status' = "locked"
    /\ UNCHANGED <<toml, vault, file, lockedFile, op, nextRef, edits, expected>>

-----------------------------------------------------------------------------
(* The rest of a job.                                                        *)

(* Keychain::commit: keychain.toml is written from memory, and kept in       *)
(* memory once that worked.  The slots the job is about now hold what it     *)
(* put there.                                                                *)
Commit ==
    /\ op.phase = "commit"
    /\ toml' = [refs |-> op.new, mistyped |-> {}, readable |-> TRUE]
    /\ file' = op.new
    /\ op' = [op EXCEPT !.phase = IF op.doomed = {} THEN "tidy" ELSE "forget"]
    /\ expected' = [s \in Slots |->
                       IF s \notin op.touched THEN expected[s]
                       ELSE {IF op.new[s] = NoRef THEN NoValue ELSE vault[op.new[s]]}]
    /\ UNCHANGED <<vault, status, lockedFile, nextRef, edits>>

(* keychain.toml could not be written: the secret inserted for it goes.      *)
CommitFails ==
    /\ op.phase = "commit"
    /\ op' = [op EXCEPT !.phase = IF op.inserted = {} THEN "tidy" ELSE "forget",
                        !.doomed = op.inserted]
    /\ UNCHANGED <<toml, vault, status, file, lockedFile, nextRef, edits, expected>>

(* Keychain::forget_secret, when the vault is open; a failure is only logged. *)
Forget ==
    /\ op.phase = "forget"
    /\ \/ vault' = IF status = "unlocked" THEN Without(vault, op.doomed) ELSE vault
       \/ UNCHANGED vault
    /\ op' = [op EXCEPT !.phase = "tidy"]
    /\ UNCHANGED <<toml, status, file, lockedFile, nextRef, edits, expected>>

(* Mutant: a collect_garbage that does not ask whether keychain.toml was     *)
(* read.                                                                     *)
TidyUnread ==
    /\ op.phase = "tidy"
    /\ \/ /\ status = "unlocked"
          /\ vault' = Without(vault, Refs \ secret_ids(file))
       \/ UNCHANGED vault
    /\ op' = IdleOp
    /\ UNCHANGED <<toml, status, file, lockedFile, nextRef, edits, expected>>

(* Worker::run ends every job with Keychain::collect_garbage: the entries    *)
(* nothing in memory refers to go, unless the write fails.                   *)
Tidy ==
    /\ op.phase = "tidy"
    /\ \/ /\ status = "unlocked" /\ ~lockedFile
          /\ vault' = Without(vault, Refs \ secret_ids(file))
       \/ UNCHANGED vault
    /\ op' = IdleOp
    /\ UNCHANGED <<toml, status, file, lockedFile, nextRef, edits, expected>>

-----------------------------------------------------------------------------
(* The process ends, whatever it was doing, and starts again.                *)
Restart ==
    /\ file' = Loaded(toml)
    /\ lockedFile' = ~toml.readable
    /\ status' = IF status = "missing" THEN "missing" ELSE "locked"
    /\ op' = IdleOp
    /\ UNCHANGED <<toml, vault, nextRef, edits, expected>>

(* The user edits keychain.toml: removes what a slot refers to, gives an     *)
(* entry a value of the wrong type, breaks the file's syntax, or mends it.   *)
EditByHand ==
    /\ edits < MaxEdits
    /\ edits' = edits + 1
    /\ \/ /\ \E s \in Slots :
               /\ toml' = [toml EXCEPT !.refs[s] = NoRef]
               /\ expected' = [expected EXCEPT ![s] = @ \cup {NoValue}]
       \/ \E s \in Slots :
               /\ toml' = [toml EXCEPT !.mistyped = @ \cup {s}]
               /\ expected' = [expected EXCEPT ![s] = @ \cup {NoValue, Lost}]
       \/ /\ \E readable \in BOOLEAN : toml' = [toml EXCEPT !.readable = readable, !.mistyped = {}]
          /\ UNCHANGED expected
    /\ UNCHANGED <<vault, status, file, lockedFile, op, nextRef>>

Next ==
    \/ \E slot \in Slots, value \in Values : SetSecret(slot, value)
    \/ \E slots \in SUBSET Slots : ClearSecrets(slots)
    \/ SaveOther
    \/ ResetVault
    \/ Reload
    \/ Unlock
    \/ Lock
    \/ Commit
    \/ CommitFails
    \/ Forget
    \/ Tidy
    \/ Restart
    \/ EditByHand

Spec == Init /\ [][Next]_vars

-----------------------------------------------------------------------------
(* What a slot holds for a user who looks at keychain.toml.                  *)
Holds(slot) ==
    IF toml.refs[slot] = NoRef THEN NoValue ELSE vault[toml.refs[slot]]

(* A slot of keychain.toml holds what its last save put there, or what a     *)
(* save that failed or was cut short may have: no other job, no collection   *)
(* of garbage, no restart and no broken keychain.toml makes a saved secret   *)
(* disappear or leaves a reference to a secret that is gone.  (The secret of *)
(* an entry mistyped by hand is collected as garbage: its slot is excepted.) *)
SecretsStay ==
    Free => \A s \in Slots : Holds(s) \in expected[s]

(* While keychain.toml cannot be read, the program neither writes over it    *)
(* nor drops a single secret from the vault, short of a reset.               *)
UnreadKept ==
    (lockedFile /\ lockedFile') =>
        /\ toml' # toml => edits' # edits
        /\ vault' # vault => status' = "missing"

=============================================================================
