-------------------------------- MODULE Vault --------------------------------
(***************************************************************************)
(* The credential vault: the in-memory store of src/credential/vault.c in  *)
(* each running instance of the program, the encrypted file they share,    *)
(* and the write-to-temporary, sync, rename protocol of                    *)
(* src/platform/secure_file_posix.c that replaces it.                      *)
(*                                                                         *)
(* An instance is single-threaded, so it does one operation at a time; the *)
(* system calls of a save are separate steps, and other instances, a crash *)
(* of the instance or a power loss may come between any two.  Encryption   *)
(* is ideal: a key is the pair of the password and the salt it was derived *)
(* from, and an image decrypts under the key it was written with only.     *)
(*                                                                         *)
(* File contents reach stable storage by fsync; the directory entry by     *)
(* the best-effort fsync of the directory or by the system at any time.    *)
(***************************************************************************)
EXTENDS Integers, Sequences, SequencesExt

CONSTANTS Procs,       \* running instances of the program
          Names,       \* credential names
          Users,       \* user names
          Secrets,     \* non-empty secrets
          Passwords,   \* master passwords a user may type
          MaxRecords,  \* NAV_CREDENTIAL_MAX
          MaxCreates,  \* bound on the number of vaults created
          None         \* no file, no key, no operation, no new secret

ASSUME MaxRecordsAssumption == MaxRecords \in Nat \ {0}
ASSUME MaxCreatesAssumption == MaxCreates \in Nat

Records == [name : Names, user : Users, secret : Secrets]
Salts == 1 .. MaxCreates
Keys == [password : Passwords, salt : Salts]
Images == [salt : Salts, key : Keys, records : Seq(Records)]
Files == [image : Images, whole : BOOLEAN, synced : BOOLEAN]
Operations == [kind  : {"create", "add", "edit", "delete"},
               index : Nat,  \* where, 1-based
               old   : Records \cup {None}]

ASSUME NoneAssumption ==
    None \notin Files \cup Keys \cup Operations \cup Images \cup Secrets \cup Records

VARIABLES
    store,    \* store[p]: no store, or a locked or unlocked one
    records,  \* records[p]: the decrypted records, <<>> unless unlocked
    salt,     \* salt[p]: the salt of the last header parsed (0: none)
    key,      \* key[p]: the key held while unlocked
    op,       \* op[p]: what vault_put and vault_delete remember to roll back
    pc,       \* pc[p]: the next system call of the save in progress
    temp,     \* temp[p]: the temporary file of the save in progress
    disk,     \* vault.bin as readers find it
    durable,  \* vault.bin as stable storage is known to hold it
    creates,  \* number of salts drawn
    fresh     \* ghost: instances whose memory saw the latest replacement

memory == <<store, records, salt, key, op, pc>>
files == <<temp, disk, durable>>
vars == <<memory, files, creates, fresh>>

BeforeRename == {"mkstemp", "write", "fsync", "rename"}

----------------------------------------------------------------------------
(* Operators on records and files *)

\* What find_record finds, 1-based: at most one record has the name.
Named(rs, name) == {i \in 1 .. Len(rs) : rs[i].name = name}

\* The image vault_save writes: header salt, key and encrypted records.
Image(p) == [salt |-> salt[p], key |-> key[p], records |-> records[p]]

Idle(p) == pc[p] = "idle"
Unlocked(p) == store[p] = "unlocked"

\* Mutant: the removed record is put back at the end.
PutBackAtEnd(rs, o) == Append(rs, o.old)

PutBack(rs, o) == InsertAt(rs, o.index, o.old)

\* The records before the operation, from those after it.
Undo(rs, o) ==
    CASE o.kind = "add"    -> Front(rs)
      [] o.kind = "edit"   -> ReplaceAt(rs, o.index, o.old)
      [] o.kind = "delete" -> PutBack(rs, o)
      [] o.kind = "create" -> <<>>

\* What is left of a file whose contents may not have reached the device.
AfterPowerLoss(f) ==
    IF f = None \/ (f # None /\ f.synced)
    THEN {f}
    ELSE {f, [f EXCEPT !.whole = FALSE]}

----------------------------------------------------------------------------
Init ==
    /\ store = [p \in Procs |-> "none"]
    /\ records = [p \in Procs |-> <<>>]
    /\ salt = [p \in Procs |-> 0]
    /\ key = [p \in Procs |-> None]
    /\ op = [p \in Procs |-> None]
    /\ pc = [p \in Procs |-> "idle"]
    /\ temp = [p \in Procs |-> None]
    /\ disk = None
    /\ durable = None
    /\ creates = 0
    /\ fresh = {}

\* nav_vault_backend_open: only the header is read.
OpenStore(p) ==
    /\ Idle(p) /\ store[p] = "none"
    /\ disk # None /\ disk.whole
    /\ store' = [store EXCEPT ![p] = "locked"]
    /\ salt' = [salt EXCEPT ![p] = disk.image.salt]
    /\ UNCHANGED <<records, key, op, pc, files, creates, fresh>>

\* vault_unlock reads the file again; the header's salt replaces the one in
\* memory even if the password turns out wrong.
Unlock(p, password) ==
    /\ Idle(p) /\ store[p] = "locked"
    /\ disk # None /\ disk.whole
    /\ salt' = [salt EXCEPT ![p] = disk.image.salt]
    /\ IF disk.image.key = [password |-> password, salt |-> disk.image.salt]
       THEN /\ store' = [store EXCEPT ![p] = "unlocked"]
            /\ records' = [records EXCEPT ![p] = disk.image.records]
            /\ key' = [key EXCEPT ![p] = disk.image.key]
            /\ fresh' = fresh \cup {p}
       ELSE UNCHANGED <<store, records, key, fresh>>
    /\ UNCHANGED <<op, pc, files, creates>>

Lock(p) ==
    /\ Idle(p) /\ Unlocked(p)
    /\ store' = [store EXCEPT ![p] = "locked"]
    /\ records' = [records EXCEPT ![p] = <<>>]
    /\ key' = [key EXCEPT ![p] = None]
    /\ UNCHANGED <<salt, op, pc, files, creates, fresh>>

\* The memory is changed and the save begins.
BeginSave(p, rs, operation) ==
    /\ records' = [records EXCEPT ![p] = rs]
    /\ op' = [op EXCEPT ![p] = operation]
    /\ pc' = [pc EXCEPT ![p] = "mkstemp"]

NoVaultFile == disk = None

\* nav_vault_backend_create: the file is tested for, then written; the store
\* is handed out once the save has succeeded.
CreateVault(p, password) ==
    /\ Idle(p) /\ store[p] = "none"
    /\ NoVaultFile
    /\ creates < MaxCreates
    /\ creates' = creates + 1
    /\ salt' = [salt EXCEPT ![p] = creates']
    /\ key' = [key EXCEPT ![p] = [password |-> password, salt |-> creates']]
    /\ BeginSave(p, <<>>, [kind |-> "create", index |-> 0, old |-> None])
    /\ UNCHANGED <<store, files, fresh>>

\* Mutant: the name is not looked up.
NameNotChecked(rs, name) == TRUE

NameIsFree(rs, name) == Named(rs, name) = {}
HasRoom(rs) == Len(rs) < MaxRecords

\* vault_put without replace.
Add(p, r) ==
    /\ Idle(p) /\ Unlocked(p)
    /\ NameIsFree(records[p], r.name)
    /\ HasRoom(records[p])
    /\ BeginSave(p, Append(records[p], r),
                 [kind |-> "add", index |-> 0, old |-> None])
    /\ UNCHANGED <<store, salt, key, files, creates, fresh>>

\* Mutant: a blank secret is stored.
EditedToBlank(r, user, secret) == [r EXCEPT !.user = user, !.secret = secret]

\* vault_put with replace: a blank secret keeps the current one.
Edited(r, user, secret) ==
    [r EXCEPT !.user = user, !.secret = IF secret = None THEN @ ELSE secret]

Edit(p, name, user, secret) ==
    /\ Idle(p) /\ Unlocked(p)
    /\ \E i \in Named(records[p], name) :
           BeginSave(p, ReplaceAt(records[p], i, Edited(records[p][i], user, secret)),
                     [kind |-> "edit", index |-> i, old |-> records[p][i]])
    /\ UNCHANGED <<store, salt, key, files, creates, fresh>>

Delete(p, name) ==
    /\ Idle(p) /\ Unlocked(p)
    /\ \E i \in Named(records[p], name) :
           BeginSave(p, RemoveAt(records[p], i),
                     [kind |-> "delete", index |-> i, old |-> records[p][i]])
    /\ UNCHANGED <<store, salt, key, files, creates, fresh>>

----------------------------------------------------------------------------
(* vault_save and nav_platform_secure_write_atomic, one step per call *)

Goto(p, from, to) == pc[p] = from /\ pc' = [pc EXCEPT ![p] = to]

CreateTemp(p) ==
    /\ Goto(p, "mkstemp", "write")
    /\ temp' = [temp EXCEPT ![p] =
                    [image |-> Image(p), whole |-> FALSE, synced |-> FALSE]]
    /\ UNCHANGED <<store, records, salt, key, op, disk, durable, creates, fresh>>

\* Mutant: fsync is forgotten.
RenameNext == "rename"

AfterWrite == "fsync"

WriteTemp(p) ==
    /\ Goto(p, "write", AfterWrite)
    /\ temp' = [temp EXCEPT ![p].whole = TRUE]
    /\ UNCHANGED <<store, records, salt, key, op, disk, durable, creates, fresh>>

SyncTemp(p) ==
    /\ Goto(p, "fsync", "rename")
    /\ temp' = [temp EXCEPT ![p].synced = TRUE]
    /\ UNCHANGED <<store, records, salt, key, op, disk, durable, creates, fresh>>

Rename(p) ==
    /\ Goto(p, "rename", "syncdir")
    /\ disk' = temp[p]
    /\ temp' = [temp EXCEPT ![p] = None]
    /\ fresh' = {p}
    /\ UNCHANGED <<store, records, salt, key, op, durable, creates>>

\* The directory sync is best-effort; the save has succeeded either way.
SyncDirectory(p, synced) ==
    /\ Goto(p, "syncdir", "idle")
    /\ durable' = IF synced THEN disk ELSE durable
    /\ op' = [op EXCEPT ![p] = None]
    /\ store' = [store EXCEPT ![p] = "unlocked"]
    /\ UNCHANGED <<records, salt, key, temp, disk, creates, fresh>>

\* Mutant: the temporary file is left behind.
TempLeft(p) == temp

TempRemoved(p) == [temp EXCEPT ![p] = None]

\* Any call up to the rename fails: the temporary file is removed and the
\* memory rolled back; a vault being created is closed.
SaveFails(p) ==
    /\ pc[p] \in BeforeRename
    /\ pc' = [pc EXCEPT ![p] = "idle"]
    /\ temp' = TempRemoved(p)
    /\ records' = [records EXCEPT ![p] = Undo(@, op[p])]
    /\ IF op[p].kind = "create"
       THEN /\ salt' = [salt EXCEPT ![p] = 0]
            /\ key' = [key EXCEPT ![p] = None]
       ELSE UNCHANGED <<salt, key>>
    /\ op' = [op EXCEPT ![p] = None]
    /\ UNCHANGED <<store, disk, durable, creates, fresh>>

----------------------------------------------------------------------------
(* The environment *)

\* The system writes the directory back in its own time.
WriteBack ==
    /\ durable' = disk
    /\ UNCHANGED <<memory, temp, disk, creates, fresh>>

\* An instance exits or is killed.  A temporary file it leaves behind is
\* never looked at again.
Crash(p) ==
    /\ store[p] # "none" \/ ~Idle(p)
    /\ store' = [store EXCEPT ![p] = "none"]
    /\ records' = [records EXCEPT ![p] = <<>>]
    /\ salt' = [salt EXCEPT ![p] = 0]
    /\ key' = [key EXCEPT ![p] = None]
    /\ op' = [op EXCEPT ![p] = None]
    /\ pc' = [pc EXCEPT ![p] = "idle"]
    /\ temp' = [temp EXCEPT ![p] = None]
    /\ fresh' = fresh \ {p}
    /\ UNCHANGED <<disk, durable, creates>>

PowerLoss ==
    /\ store' = [p \in Procs |-> "none"]
    /\ records' = [p \in Procs |-> <<>>]
    /\ salt' = [p \in Procs |-> 0]
    /\ key' = [p \in Procs |-> None]
    /\ op' = [p \in Procs |-> None]
    /\ pc' = [p \in Procs |-> "idle"]
    /\ temp' = [p \in Procs |-> None]
    /\ disk' \in AfterPowerLoss(disk) \cup AfterPowerLoss(durable)
    /\ durable' = disk'
    /\ fresh' = {}
    /\ UNCHANGED creates

Request(p) ==
    \/ OpenStore(p) \/ Lock(p)
    \/ \E password \in Passwords : Unlock(p, password) \/ CreateVault(p, password)
    \/ \E r \in Records : Add(p, r)
    \/ \E name \in Names, user \in Users, secret \in Secrets \cup {None} :
           Edit(p, name, user, secret)
    \/ \E name \in Names : Delete(p, name)

SaveStep(p) ==
    \/ CreateTemp(p) \/ WriteTemp(p) \/ SyncTemp(p) \/ Rename(p) \/ SaveFails(p)
    \/ \E synced \in BOOLEAN : SyncDirectory(p, synced)

Next ==
    \/ \E p \in Procs : Request(p) \/ SaveStep(p) \/ Crash(p)
    \/ WriteBack
    \/ PowerLoss

Spec == Init /\ [][Next]_vars

----------------------------------------------------------------------------
(* Properties *)

\* Every variable has its type.
TypeOK ==
    /\ store \in [Procs -> {"none", "locked", "unlocked"}]
    /\ records \in [Procs -> Seq(Records)]
    /\ salt \in [Procs -> {0} \cup Salts]
    /\ key \in [Procs -> Keys \cup {None}]
    /\ op \in [Procs -> Operations \cup {None}]
    /\ pc \in [Procs -> BeforeRename \cup {"idle", "syncdir"}]
    /\ temp \in [Procs -> Files \cup {None}]
    /\ disk \in Files \cup {None}
    /\ durable \in Files \cup {None}
    /\ creates \in 0 .. MaxCreates
    /\ fresh \subseteq Procs

WellFormed(rs) ==
    /\ Len(rs) <= MaxRecords
    /\ \A i, j \in 1 .. Len(rs) : rs[i].name = rs[j].name => i = j

\* vault.bin is absent or a whole, synced image, before and after a power
\* loss, whatever save was in progress in whichever instance.
VaultFileWhole ==
    \A f \in {disk, durable} : f # None => f.whole /\ f.synced

\* A vault that was written can be opened again: the salt in the header is
\* the one the key was derived from, and payload_parse accepts the records
\* (no more than the limit, no name twice).
SavedImageOpens ==
    disk # None => /\ disk.image.key.salt = disk.image.salt
                   /\ WellFormed(disk.image.records)

\* Between operations an unlocked instance that saw the last replacement holds
\* exactly what is on disk: a successful save stored all of the memory and a
\* failed one rolled all of it back.
MemoryMirrorsDisk ==
    \A p \in fresh : Unlocked(p) /\ Idle(p) => disk # None /\ disk.image = Image(p)

\* A failed save removes its temporary file; only a crash can leave one.
IdleLeavesNoTemp == \A p \in Procs : Idle(p) => temp[p] = None

\* Whoever saves and whatever fails, the file is an atomic register.
Contents(f) ==
    IF f = None THEN None
    ELSE IF f.whole /\ f.synced THEN f.image ELSE [torn |-> f.image]

Register == INSTANCE AtomicStore WITH visible <- Contents(disk),
                                      durable <- Contents(durable)
ReplacedAtomically == Register!Spec
=============================================================================
