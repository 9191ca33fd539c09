----------------------------- MODULE Vault_proofs -----------------------------
(* Proofs about Vault for any number of instances, names, users, secrets,   *)
(* passwords and records: the vault file is never torn, it can always be    *)
(* opened again, memory and disk agree after a success and after a failure, *)
(* and the file implements AtomicStore.                                     *)
EXTENDS Vault, SequenceTheorems, TLAPS

-----------------------------------------------------------------------------
(* Undo gives back the records an operation started from. *)

LEMMA UndoAdd ==
    ASSUME NEW rs \in Seq(Records), NEW r \in Records, NEW o, o.kind = "add"
    PROVE  /\ Append(rs, r) \in Seq(Records)
           /\ Undo(Append(rs, r), o) = rs
<1>1. Append(rs, r) \in Seq(Records) /\ Len(Append(rs, r)) = Len(rs) + 1
  OBVIOUS
<1>2. Front(Append(rs, r)) = rs
  <2> DEFINE f == SubSeq(Append(rs, r), 1, Len(Append(rs, r)) - 1)
  <2>1. f \in Seq(Records) /\ Len(f) = Len(rs)
    BY <1>1
  <2>2. \A i \in 1 .. Len(rs) : f[i] = rs[i]
    BY <1>1
  <2> HIDE DEF f
  <2>3. f = rs
    BY <2>1, <2>2
  <2> QED
    BY <2>3 DEF f, Front
<1>3. Undo(Append(rs, r), o) = Front(Append(rs, r))
  BY DEF Undo, PutBack
<1> QED
  BY <1>1, <1>2, <1>3

LEMMA UndoEdit ==
    ASSUME NEW rs \in Seq(Records), NEW i \in 1 .. Len(rs), NEW r \in Records,
           NEW o, o.kind = "edit", o.index = i, o.old = rs[i]
    PROVE  /\ ReplaceAt(rs, i, r) \in Seq(Records)
           /\ Len(ReplaceAt(rs, i, r)) = Len(rs)
           /\ Undo(ReplaceAt(rs, i, r), o) = rs
<1>1. /\ ReplaceAt(rs, i, r) \in Seq(Records)
      /\ Len(ReplaceAt(rs, i, r)) = Len(rs)
  BY DEF ReplaceAt
<1>2. Undo(ReplaceAt(rs, i, r), o) = [[rs EXCEPT ![i] = r] EXCEPT ![i] = rs[i]]
  BY DEF Undo, PutBack, ReplaceAt
<1>3. [[rs EXCEPT ![i] = r] EXCEPT ![i] = rs[i]] = rs
  <2> DEFINE s == [rs EXCEPT ![i] = r]
             t == [s EXCEPT ![i] = rs[i]]
  <2>1. /\ s \in Seq(Records) /\ Len(s) = Len(rs)
        /\ \A j \in 1 .. Len(rs) : s[j] = IF j = i THEN r ELSE rs[j]
    BY ExceptSeq
  <2>2. rs[i] \in Records
    OBVIOUS
  <2> HIDE DEF s
  <2>3. /\ t \in Seq(Records) /\ Len(t) = Len(s)
        /\ \A j \in 1 .. Len(s) : t[j] = IF j = i THEN rs[i] ELSE s[j]
    BY <2>1, <2>2, ExceptSeq
  <2> HIDE DEF t
  <2>4. t = rs
    BY <2>1, <2>3, SeqEqual
  <2> QED
    BY <2>4 DEF s, t
<1> QED
  BY <1>1, <1>2, <1>3

LEMMA RemovedRecords ==
    ASSUME NEW rs \in Seq(Records), NEW i \in 1 .. Len(rs)
    PROVE  LET d == RemoveAt(rs, i) IN
           /\ d \in Seq(Records)
           /\ Len(d) = Len(rs) - 1
           /\ \A j \in 1 .. i - 1 : d[j] = rs[j]
           /\ \A j \in i .. Len(d) : d[j] = rs[j + 1]
<1> DEFINE a == SubSeq(rs, 1, i - 1)
           b == SubSeq(rs, i + 1, Len(rs))
<1>1. /\ a \in Seq(Records) /\ Len(a) = i - 1
      /\ \A j \in 1 .. i - 1 : a[j] = rs[j]
  OBVIOUS
<1>2. /\ b \in Seq(Records) /\ Len(b) = Len(rs) - i
      /\ \A j \in 1 .. Len(rs) - i : b[j] = rs[i + j]
  OBVIOUS
<1>3. RemoveAt(rs, i) = a \o b
  BY DEF RemoveAt
<1> HIDE DEF a, b
<1>4. a \o b \in Seq(Records) /\ Len(a \o b) = Len(rs) - 1
  <2>1. a \o b \in Seq(Records) /\ Len(a \o b) = Len(a) + Len(b)
    BY <1>1, <1>2, ConcatProperties, Zenon
  <2> QED
    BY <1>1, <1>2, <2>1
<1>5. \A j \in 1 .. Len(rs) - 1 :
          (a \o b)[j] = IF j <= i - 1 THEN a[j] ELSE b[j - (i - 1)]
  BY <1>1, <1>2, ConcatProperties
<1>6. /\ \A j \in 1 .. i - 1 : (a \o b)[j] = rs[j]
      /\ \A j \in i .. Len(rs) - 1 : (a \o b)[j] = rs[j + 1]
  BY <1>1, <1>2, <1>5
<1> QED
  BY <1>3, <1>4, <1>6

LEMMA UndoDelete ==
    ASSUME NEW rs \in Seq(Records), NEW i \in 1 .. Len(rs),
           NEW o, o.kind = "delete", o.index = i, o.old = rs[i]
    PROVE  Undo(RemoveAt(rs, i), o) = rs
<1> DEFINE d == RemoveAt(rs, i)
           a == SubSeq(d, 1, i - 1)
           b == SubSeq(d, i, Len(d))
           c == <<rs[i]>>
<1>1. /\ d \in Seq(Records)
      /\ Len(d) = Len(rs) - 1
      /\ \A j \in 1 .. i - 1 : d[j] = rs[j]
      /\ \A j \in i .. Len(d) : d[j] = rs[j + 1]
  BY RemovedRecords
<1>2. Undo(d, o) = a \o c \o b
  BY DEF Undo, PutBack, InsertAt
<1> HIDE DEF d
<1>3. /\ a \in Seq(Records) /\ Len(a) = i - 1
      /\ \A j \in 1 .. i - 1 : a[j] = rs[j]
  BY <1>1
<1>4. /\ b \in Seq(Records) /\ Len(b) = Len(rs) - i
      /\ \A j \in 1 .. Len(rs) - i : b[j] = rs[i + j]
  BY <1>1
<1>5. c \in Seq(Records) /\ Len(c) = 1 /\ c[1] = rs[i]
  OBVIOUS
<1> HIDE DEF a, b, c
<1>6. /\ a \o c \in Seq(Records) /\ Len(a \o c) = i
      /\ \A j \in 1 .. i : (a \o c)[j] = rs[j]
  <2>1. /\ a \o c \in Seq(Records) /\ Len(a \o c) = Len(a) + Len(c)
        /\ \A j \in 1 .. Len(a) + Len(c) :
               (a \o c)[j] = IF j <= Len(a) THEN a[j] ELSE c[j - Len(a)]
    BY <1>3, <1>5, ConcatProperties
  <2> QED
    BY <1>3, <1>5, <2>1
<1> DEFINE ac == a \o c
<1> HIDE DEF ac
<1>7. /\ ac \o b \in Seq(Records) /\ Len(ac \o b) = Len(rs)
      /\ \A j \in 1 .. Len(rs) : (ac \o b)[j] = rs[j]
  <2>1. /\ ac \in Seq(Records) /\ Len(ac) = i
        /\ \A j \in 1 .. i : ac[j] = rs[j]
    BY <1>6 DEF ac
  <2>2. /\ ac \o b \in Seq(Records) /\ Len(ac \o b) = Len(ac) + Len(b)
        /\ \A j \in 1 .. Len(ac) + Len(b) :
               (ac \o b)[j] = IF j <= Len(ac) THEN ac[j] ELSE b[j - Len(ac)]
    BY <1>4, <2>1, ConcatProperties
  <2> QED
    BY <1>4, <2>1, <2>2
<1>8. ac \o b = rs
  BY <1>7, SeqEqual
<1> QED
  BY <1>2, <1>8 DEF d, ac

(* No operation gives two records the same name or exceeds the limit.       *)
LEMMA AddWellFormed ==
    ASSUME NEW rs \in Seq(Records), NEW r \in Records, WellFormed(rs),
           Named(rs, r.name) = {}, Len(rs) < MaxRecords
    PROVE  WellFormed(Append(rs, r))
<1> DEFINE a == Append(rs, r)
<1>1. /\ Len(a) = Len(rs) + 1 /\ a[Len(rs) + 1] = r /\ Len(rs) \in Nat
      /\ \A i \in 1 .. Len(rs) : a[i] = rs[i]
  OBVIOUS
<1>2. \A i \in 1 .. Len(rs) : rs[i].name # r.name
  BY DEF Named
<1>3. \A i, j \in 1 .. Len(rs) : rs[i].name = rs[j].name => i = j
  BY DEF WellFormed
<1> HIDE DEF a
<1>4. ASSUME NEW i \in 1 .. Len(a), NEW j \in 1 .. Len(a), a[i].name = a[j].name
      PROVE  i = j
  <2>1. CASE i \in 1 .. Len(rs) /\ j \in 1 .. Len(rs)
    BY <1>1, <1>3, <1>4, <2>1
  <2>2. CASE ~(i \in 1 .. Len(rs) /\ j \in 1 .. Len(rs))
    BY <1>1, <1>2, <1>4, <2>2
  <2> QED
    BY <2>1, <2>2
<1>5. Len(a) <= MaxRecords
  BY <1>1, MaxRecordsAssumption
<1> QED
  BY <1>4, <1>5 DEF WellFormed, a

LEMMA EditWellFormed ==
    ASSUME NEW rs \in Seq(Records), NEW i \in 1 .. Len(rs), WellFormed(rs),
           NEW r \in Records, r.name = rs[i].name
    PROVE  WellFormed(ReplaceAt(rs, i, r))
<1> DEFINE e == ReplaceAt(rs, i, r)
<1>1. Len(e) = Len(rs) /\ \A j \in 1 .. Len(rs) : e[j] = IF j = i THEN r ELSE rs[j]
  BY DEF ReplaceAt
<1> HIDE DEF e
<1>2. \A j \in 1 .. Len(rs) : e[j].name = rs[j].name
  BY <1>1
<1> QED
  BY <1>1, <1>2 DEF WellFormed, e

LEMMA DeleteWellFormed ==
    ASSUME NEW rs \in Seq(Records), NEW i \in 1 .. Len(rs), WellFormed(rs)
    PROVE  WellFormed(RemoveAt(rs, i))
<1> DEFINE d == RemoveAt(rs, i)
           at(j) == IF j < i THEN j ELSE j + 1
<1>1. /\ d \in Seq(Records)
      /\ Len(d) = Len(rs) - 1
      /\ \A j \in 1 .. i - 1 : d[j] = rs[j]
      /\ \A j \in i .. Len(d) : d[j] = rs[j + 1]
  BY RemovedRecords
<1> HIDE DEF d
<1>2. \A j \in 1 .. Len(d) : at(j) \in 1 .. Len(rs) /\ d[j] = rs[at(j)]
  BY <1>1
<1>3. \A j, k \in 1 .. Len(d) : at(j) = at(k) => j = k
  BY <1>1
<1>4. \A j, k \in 1 .. Len(rs) : rs[j].name = rs[k].name => j = k
  BY DEF WellFormed
<1> HIDE DEF at
<1>5. \A j, k \in 1 .. Len(d) : d[j].name = d[k].name => j = k
  BY <1>2, <1>3, <1>4
<1>6. Len(d) <= MaxRecords
  BY <1>1, MaxRecordsAssumption DEF WellFormed
<1> QED
  BY <1>5, <1>6 DEF WellFormed, d

-----------------------------------------------------------------------------
(* The inductive invariant.  What makes the properties inductive is the     *)
(* state of a save in progress: the temporary file holds the image of the   *)
(* memory, the rollback would give well-formed records back, and an         *)
(* instance that saw the last replacement would roll back to what is on     *)
(* disk.                                                                    *)

Opens(image) == image.key.salt = image.salt /\ WellFormed(image.records)

FileSafe(f) == f # None => f.whole /\ f.synced /\ Opens(f.image)

Before(p) ==
    [salt |-> salt[p], key |-> key[p], records |-> Undo(records[p], op[p])]

Keyed(p) ==
    /\ key[p] \in Keys /\ salt[p] \in Salts /\ key[p].salt = salt[p]
    /\ WellFormed(records[p])

SaveInv(p) ==
    /\ Idle(p) <=> op[p] = None
    /\ ~Idle(p) => store[p] = IF op[p].kind = "create" THEN "none" ELSE "unlocked"
    /\ Unlocked(p) \/ ~Idle(p) => Keyed(p)
    /\ ~Idle(p) => /\ Undo(records[p], op[p]) \in Seq(Records)
                   /\ WellFormed(Undo(records[p], op[p]))

TempInv(p) ==
    /\ pc[p] \in {"idle", "mkstemp", "syncdir"} => temp[p] = None
    /\ pc[p] \in {"write", "fsync", "rename"} =>
           temp[p] \in Files /\ temp[p].image = Image(p)
    /\ pc[p] \in {"fsync", "rename"} => temp[p].whole
    /\ pc[p] = "rename" => temp[p].synced

FreshInv(p) ==
    p \in fresh =>
        /\ Unlocked(p) /\ Idle(p) => disk # None /\ disk.image = Image(p)
        /\ pc[p] \in BeforeRename /\ op[p].kind # "create" =>
               disk # None /\ disk.image = Before(p)
        /\ pc[p] = "syncdir" => disk # None /\ disk.image = Image(p)

ProcInv(p) == SaveInv(p) /\ TempInv(p) /\ FreshInv(p)

Inv == /\ TypeOK
       /\ FileSafe(disk) /\ FileSafe(durable)
       /\ \A p \in Procs : ProcInv(p)

LEMMA InitInv == Init => Inv
  BY MaxCreatesAssumption
  DEF Init, Inv, TypeOK, FileSafe, ProcInv, SaveInv, TempInv, FreshInv,
      Idle, Unlocked

(* A step of one instance that does not replace the file leaves the others  *)
(* alone.                                                                   *)
LEMMA OthersInv ==
    ASSUME NEW q, ProcInv(q),
           store'[q] = store[q], records'[q] = records[q], salt'[q] = salt[q],
           key'[q] = key[q], op'[q] = op[q], pc'[q] = pc[q], temp'[q] = temp[q],
           disk' = disk, q \in fresh' => q \in fresh
    PROVE  ProcInv(q)'
  BY DEF ProcInv, SaveInv, TempInv, FreshInv, Idle, Unlocked, Keyed, Image, Before

(* Steps between operations: open, unlock, lock.                            *)
LEMMA OpenStoreInv ==
    ASSUME Inv, NEW p \in Procs, OpenStore(p)
    PROVE  Inv'
<1>1. TypeOK /\ ProcInv(p) /\ FileSafe(disk) /\ FileSafe(durable)
  BY DEF Inv
<1>2. TypeOK'
  BY <1>1, NoneAssumption DEF OpenStore, TypeOK, Files, Images, files
<1>3. \A q \in Procs \ {p} : ProcInv(q)'
  <2> SUFFICES ASSUME NEW q \in Procs \ {p} PROVE ProcInv(q)'
    OBVIOUS
  <2> QED
    BY <1>1, OthersInv DEF Inv, OpenStore, TypeOK, files
<1>4. ProcInv(p)'
  BY <1>1 DEF OpenStore, TypeOK, files, ProcInv, SaveInv, TempInv, FreshInv,
      Idle, Unlocked, Keyed, BeforeRename
<1> QED
  BY <1>1, <1>2, <1>3, <1>4 DEF Inv, OpenStore, files, FileSafe

LEMMA UnlockInv ==
    ASSUME Inv, NEW p \in Procs, NEW w \in Passwords, Unlock(p, w)
    PROVE  Inv'
<1>1. TypeOK /\ ProcInv(p) /\ FileSafe(disk) /\ FileSafe(durable)
  BY DEF Inv
<1>2. /\ disk \in Files /\ disk.image.salt \in Salts /\ disk.image.key \in Keys
      /\ disk.image.records \in Seq(Records) /\ Opens(disk.image)
  BY <1>1 DEF Unlock, TypeOK, Files, Images, FileSafe
<1>3. TypeOK'
  BY <1>1, <1>2 DEF Unlock, TypeOK, files
<1>4. \A q \in Procs \ {p} : ProcInv(q)'
  <2> SUFFICES ASSUME NEW q \in Procs \ {p} PROVE ProcInv(q)'
    OBVIOUS
  <2> QED
    BY <1>1, OthersInv DEF Inv, Unlock, TypeOK, files
<1>5. ProcInv(p)'
  <2>1. /\ Idle(p) /\ Idle(p)' /\ op'[p] = None /\ temp'[p] = None
        /\ disk' = disk /\ disk # None
        /\ salt'[p] = disk.image.salt
    BY <1>1 DEF Unlock, TypeOK, files, Idle, ProcInv, SaveInv, TempInv
  <2>2. CASE disk.image.key = [password |-> w, salt |-> disk.image.salt]
    <3>1. /\ records'[p] = disk.image.records /\ key'[p] = disk.image.key
          /\ Unlocked(p)'
      BY <1>1, <2>2 DEF Unlock, TypeOK, Unlocked
    <3>2. Image(p)' = disk.image
      BY <1>2, <2>1, <3>1 DEF Image, Images, Files
    <3>3. Keyed(p)'
      BY <1>2, <2>1, <3>1 DEF Keyed, Opens, WellFormed
    <3> QED
      BY <2>1, <3>1, <3>2, <3>3
      DEF ProcInv, SaveInv, TempInv, FreshInv, Idle, BeforeRename
  <2>3. CASE disk.image.key # [password |-> w, salt |-> disk.image.salt]
    <3>1. ~Unlocked(p)'
      BY <2>3 DEF Unlock, Unlocked
    <3> QED
      BY <2>1, <3>1
      DEF ProcInv, SaveInv, TempInv, FreshInv, Idle, BeforeRename
  <2> QED
    BY <2>2, <2>3
<1> QED
  BY <1>1, <1>3, <1>4, <1>5 DEF Inv, Unlock, files, FileSafe

LEMMA LockInv ==
    ASSUME Inv, NEW p \in Procs, Lock(p)
    PROVE  Inv'
<1>1. TypeOK /\ ProcInv(p) /\ FileSafe(disk) /\ FileSafe(durable)
  BY DEF Inv
<1>2. TypeOK'
  BY <1>1 DEF Lock, TypeOK, files
<1>3. \A q \in Procs \ {p} : ProcInv(q)'
  <2> SUFFICES ASSUME NEW q \in Procs \ {p} PROVE ProcInv(q)'
    OBVIOUS
  <2> QED
    BY <1>1, OthersInv DEF Inv, Lock, TypeOK, files
<1>4. ProcInv(p)'
  BY <1>1 DEF Lock, TypeOK, files, ProcInv, SaveInv, TempInv, FreshInv,
      Idle, Unlocked, Keyed, BeforeRename
<1> QED
  BY <1>1, <1>2, <1>3, <1>4 DEF Inv, Lock, files, FileSafe

-----------------------------------------------------------------------------
(* The operations: memory is changed so that Undo gives the old records.    *)

LEMMA BeginSaveInv ==
    ASSUME Inv, NEW p \in Procs, NEW rs \in Seq(Records), NEW o \in Operations,
           Idle(p), Unlocked(p), o.kind # "create",
           WellFormed(rs), Undo(rs, o) = records[p],
           BeginSave(p, rs, o),
           UNCHANGED <<store, salt, key, files, creates, fresh>>
    PROVE  Inv'
<1>1. TypeOK /\ ProcInv(p) /\ FileSafe(disk) /\ FileSafe(durable)
  BY DEF Inv
<1>2. TypeOK'
  BY <1>1 DEF BeginSave, TypeOK, files, BeforeRename
<1>3. \A q \in Procs \ {p} : ProcInv(q)'
  <2> SUFFICES ASSUME NEW q \in Procs \ {p} PROVE ProcInv(q)'
    OBVIOUS
  <2> QED
    BY <1>1, OthersInv DEF Inv, BeginSave, TypeOK, files
<1>4. ProcInv(p)'
  <2>1. /\ records'[p] = rs /\ op'[p] = o /\ pc'[p] = "mkstemp"
        /\ o # None /\ Keyed(p) /\ temp[p] = None
        /\ records[p] \in Seq(Records) /\ WellFormed(records[p])
    BY <1>1, NoneAssumption
    DEF BeginSave, TypeOK, ProcInv, SaveInv, TempInv, Idle, Keyed
  <2>2. SaveInv(p)'
    BY <2>1 DEF SaveInv, Idle, Unlocked, Keyed, files
  <2>3. TempInv(p)'
    BY <2>1 DEF TempInv, files
  <2>4. Before(p)' = Image(p)
    BY <2>1 DEF Before, Image
  <2>5. FreshInv(p)'
    BY <1>1, <2>1, <2>4 DEF ProcInv, FreshInv, Idle, Unlocked, files, BeforeRename
  <2> QED
    BY <2>2, <2>3, <2>5 DEF ProcInv
<1> QED
  BY <1>1, <1>2, <1>3, <1>4 DEF Inv, files, FileSafe

LEMMA AddInv ==
    ASSUME Inv, NEW p \in Procs, NEW r \in Records, Add(p, r)
    PROVE  Inv'
<1> DEFINE o == [kind |-> "add", index |-> 0, old |-> None]
           rs == Append(records[p], r)
<1>1. /\ records[p] \in Seq(Records) /\ WellFormed(records[p])
  BY DEF Inv, TypeOK, ProcInv, SaveInv, Keyed, Add, NameIsFree, HasRoom
<1>2. o \in Operations /\ o.kind = "add"
  BY DEF Operations
<1>3. rs \in Seq(Records) /\ Undo(rs, o) = records[p]
  BY <1>1, <1>2, UndoAdd
<1>4. WellFormed(rs)
  BY <1>1, AddWellFormed DEF Add, NameIsFree, HasRoom
<1> QED
  BY <1>2, <1>3, <1>4, BeginSaveInv DEF Add, NameIsFree, HasRoom

LEMMA EditInv ==
    ASSUME Inv, NEW p \in Procs, NEW name \in Names, NEW user \in Users,
           NEW secret \in Secrets \cup {None}, Edit(p, name, user, secret)
    PROVE  Inv'
<1>1. PICK i \in Named(records[p], name) :
          BeginSave(p, ReplaceAt(records[p], i, Edited(records[p][i], user, secret)),
                    [kind |-> "edit", index |-> i, old |-> records[p][i]])
  BY DEF Edit
<1> DEFINE o == [kind |-> "edit", index |-> i, old |-> records[p][i]]
           r == Edited(records[p][i], user, secret)
           rs == ReplaceAt(records[p], i, r)
<1>2. /\ records[p] \in Seq(Records) /\ WellFormed(records[p])
      /\ i \in 1 .. Len(records[p]) /\ records[p][i] \in Records
  BY DEF Inv, TypeOK, ProcInv, SaveInv, Keyed, Edit, Named
<1>3. r \in Records /\ r.name = records[p][i].name
  BY <1>2 DEF Edited, Records
<1>4. o \in Operations /\ o.kind = "edit" /\ o.index = i /\ o.old = records[p][i]
  BY <1>2 DEF Operations
<1>5. rs \in Seq(Records) /\ Undo(rs, o) = records[p]
  BY <1>2, <1>3, <1>4, UndoEdit
<1>6. WellFormed(rs)
  BY <1>2, <1>3, EditWellFormed
<1>7. o.kind # "create"
  BY <1>4
<1> HIDE DEF o, rs
<1>8. BeginSave(p, rs, o)
  BY <1>1 DEF o, rs
<1> QED
  BY <1>4, <1>5, <1>6, <1>7, <1>8, BeginSaveInv DEF Edit

LEMMA DeleteInv ==
    ASSUME Inv, NEW p \in Procs, NEW name \in Names, Delete(p, name)
    PROVE  Inv'
<1>1. PICK i \in Named(records[p], name) :
          BeginSave(p, RemoveAt(records[p], i),
                    [kind |-> "delete", index |-> i, old |-> records[p][i]])
  BY DEF Delete
<1> DEFINE o == [kind |-> "delete", index |-> i, old |-> records[p][i]]
           rs == RemoveAt(records[p], i)
<1>2. /\ records[p] \in Seq(Records) /\ WellFormed(records[p])
      /\ i \in 1 .. Len(records[p]) /\ records[p][i] \in Records
  BY DEF Inv, TypeOK, ProcInv, SaveInv, Keyed, Delete, Named
<1>3. o \in Operations /\ o.kind = "delete" /\ o.index = i /\ o.old = records[p][i]
  BY <1>2 DEF Operations
<1>4. rs \in Seq(Records) /\ WellFormed(rs)
  BY <1>2, RemovedRecords, DeleteWellFormed
<1>5. Undo(rs, o) = records[p]
  BY <1>2, <1>3, UndoDelete
<1>6. o.kind # "create"
  BY <1>3
<1> HIDE DEF o, rs
<1>7. BeginSave(p, rs, o)
  BY <1>1 DEF o, rs
<1> QED
  BY <1>3, <1>4, <1>5, <1>6, <1>7, BeginSaveInv DEF Delete

LEMMA CreateVaultInv ==
    ASSUME Inv, NEW p \in Procs, NEW w \in Passwords, CreateVault(p, w)
    PROVE  Inv'
<1> DEFINE o == [kind |-> "create", index |-> 0, old |-> None]
<1>1. TypeOK /\ ProcInv(p) /\ FileSafe(disk) /\ FileSafe(durable)
  BY DEF Inv
<1>2. /\ creates' \in Salts /\ creates' \in 0 .. MaxCreates
      /\ [password |-> w, salt |-> creates'] \in Keys
  BY <1>1, MaxCreatesAssumption DEF CreateVault, NoVaultFile, TypeOK, Salts, Keys
<1>3. o \in Operations /\ o.kind = "create" /\ o # None
  BY NoneAssumption DEF Operations
<1>4. /\ records' = [records EXCEPT ![p] = <<>>]
      /\ op' = [op EXCEPT ![p] = o]
      /\ pc' = [pc EXCEPT ![p] = "mkstemp"]
      /\ salt' = [salt EXCEPT ![p] = creates']
      /\ key' = [key EXCEPT ![p] = [password |-> w, salt |-> creates']]
      /\ UNCHANGED <<store, temp, disk, durable, fresh>>
      /\ Idle(p) /\ store[p] = "none"
  BY DEF CreateVault, NoVaultFile, BeginSave, files
<1> HIDE DEF o
<1>5. TypeOK'
  BY <1>1, <1>2, <1>3, <1>4 DEF TypeOK, BeforeRename
<1>6. \A q \in Procs \ {p} : ProcInv(q)'
  <2> SUFFICES ASSUME NEW q \in Procs \ {p} PROVE ProcInv(q)'
    OBVIOUS
  <2> QED
    BY <1>1, <1>4, OthersInv DEF Inv, TypeOK
<1>7. ProcInv(p)'
  <2>1. /\ records'[p] = <<>> /\ op'[p] = o /\ pc'[p] = "mkstemp"
        /\ salt'[p] = creates' /\ key'[p] = [password |-> w, salt |-> creates']
        /\ store'[p] = "none" /\ temp'[p] = None
    BY <1>1, <1>4 DEF TypeOK, ProcInv, TempInv, Idle
  <2>2. WellFormed(<<>>) /\ <<>> \in Seq(Records)
    BY MaxRecordsAssumption DEF WellFormed
  <2>3. Undo(<<>>, o) = <<>>
    BY <1>3 DEF Undo, PutBack
  <2>4. SaveInv(p)'
    <3>1. Keyed(p)'
      <4>1. [password |-> w, salt |-> creates'].salt = creates'
        OBVIOUS
      <4> QED
        BY <1>2, <2>1, <2>2, <4>1 DEF Keyed
    <3> QED
      BY <1>3, <2>1, <2>2, <2>3, <3>1 DEF SaveInv, Idle, Unlocked
  <2>5. TempInv(p)' /\ FreshInv(p)'
    BY <1>3, <2>1 DEF TempInv, FreshInv, Idle, Unlocked
  <2> QED
    BY <2>4, <2>5 DEF ProcInv
<1> QED
  BY <1>1, <1>4, <1>5, <1>6, <1>7 DEF Inv, FileSafe

-----------------------------------------------------------------------------
(* The system calls of a save.                                              *)

LEMMA CreateTempInv ==
    ASSUME Inv, NEW p \in Procs, CreateTemp(p)
    PROVE  Inv'
<1> DEFINE f == [image |-> Image(p), whole |-> FALSE, synced |-> FALSE]
<1>1. TypeOK /\ ProcInv(p) /\ FileSafe(disk) /\ FileSafe(durable)
  BY DEF Inv
<1>2. /\ pc[p] = "mkstemp" /\ pc' = [pc EXCEPT ![p] = "write"]
      /\ temp' = [temp EXCEPT ![p] = f]
      /\ UNCHANGED <<store, records, salt, key, op, disk, durable, creates, fresh>>
  BY DEF CreateTemp, Goto
<1>3. f \in Files /\ f.image = Image(p) /\ Image(p)' = Image(p)
  BY <1>1, <1>2
  DEF Files, Images, Image, TypeOK, ProcInv, SaveInv, Keyed, Idle
<1> HIDE DEF f
<1>4. TypeOK'
  BY <1>1, <1>2, <1>3 DEF TypeOK, BeforeRename
<1>5. \A q \in Procs \ {p} : ProcInv(q)'
  <2> SUFFICES ASSUME NEW q \in Procs \ {p} PROVE ProcInv(q)'
    OBVIOUS
  <2> QED
    BY <1>1, <1>2, OthersInv DEF Inv, TypeOK
<1>6. ProcInv(p)'
  <2>1. pc'[p] = "write" /\ temp'[p] = f /\ Before(p)' = Before(p)
    BY <1>1, <1>2 DEF TypeOK, Before
  <2>2. SaveInv(p)'
    BY <1>1, <1>2, <2>1 DEF ProcInv, SaveInv, Idle, Unlocked, Keyed
  <2>3. TempInv(p)'
    BY <1>3, <2>1 DEF TempInv
  <2>4. FreshInv(p)'
    BY <1>1, <1>2, <2>1 DEF ProcInv, FreshInv, Idle, Unlocked, BeforeRename
  <2> QED
    BY <2>2, <2>3, <2>4 DEF ProcInv
<1> QED
  BY <1>1, <1>2, <1>4, <1>5, <1>6 DEF Inv, FileSafe

LEMMA WriteSyncInv ==
    ASSUME Inv, NEW p \in Procs, WriteTemp(p) \/ SyncTemp(p)
    PROVE  Inv'
<1>1. TypeOK /\ ProcInv(p) /\ FileSafe(disk) /\ FileSafe(durable)
  BY DEF Inv
<1>2. /\ temp[p] \in Files /\ temp[p].image = Image(p)
      /\ pc[p] \in {"write", "fsync"}
      /\ UNCHANGED <<store, records, salt, key, op, disk, durable, creates, fresh>>
  BY <1>1 DEF ProcInv, TempInv, WriteTemp, AfterWrite, SyncTemp, Goto
<1>3. PICK f \in Files :
          /\ temp' = [temp EXCEPT ![p] = f]
          /\ f.image = Image(p)
          /\ \/ WriteTemp(p) /\ f.whole /\ pc' = [pc EXCEPT ![p] = "fsync"]
             \/ SyncTemp(p) /\ f.whole /\ f.synced /\ pc' = [pc EXCEPT ![p] = "rename"]
  <2>1. CASE WriteTemp(p)
    <3> DEFINE f == [temp[p] EXCEPT !.whole = TRUE]
    <3>1. f \in Files /\ f.image = Image(p) /\ f.whole
      BY <1>2 DEF Files
    <3>2. temp' = [temp EXCEPT ![p] = f] /\ pc' = [pc EXCEPT ![p] = "fsync"]
      BY <2>1 DEF WriteTemp, AfterWrite, Goto
    <3> QED
      BY <2>1, <3>1, <3>2
  <2>2. CASE SyncTemp(p)
    <3> DEFINE f == [temp[p] EXCEPT !.synced = TRUE]
    <3>1. f \in Files /\ f.image = Image(p) /\ f.whole /\ f.synced
      BY <1>1, <1>2, <2>2 DEF Files, ProcInv, TempInv, SyncTemp, Goto
    <3>2. temp' = [temp EXCEPT ![p] = f] /\ pc' = [pc EXCEPT ![p] = "rename"]
      BY <2>2 DEF SyncTemp, Goto
    <3> QED
      BY <2>2, <3>1, <3>2
  <2> QED
    BY <2>1, <2>2
<1>4. TypeOK'
  BY <1>1, <1>2, <1>3 DEF TypeOK, BeforeRename
<1>5. \A q \in Procs \ {p} : ProcInv(q)'
  <2> SUFFICES ASSUME NEW q \in Procs \ {p} PROVE ProcInv(q)'
    OBVIOUS
  <2>1. pc'[q] = pc[q] /\ temp'[q] = temp[q]
    BY <1>1, <1>3 DEF TypeOK
  <2> QED
    BY <1>1, <1>2, <2>1, OthersInv DEF Inv, TypeOK
<1>6. ProcInv(p)'
  <2>1. /\ Before(p)' = Before(p) /\ Image(p)' = Image(p) /\ temp'[p] = f
        /\ \/ f.whole /\ pc'[p] = "fsync"
           \/ f.whole /\ f.synced /\ pc'[p] = "rename"
    BY <1>1, <1>2, <1>3 DEF TypeOK, Before, Image
  <2>2. SaveInv(p)'
    BY <1>1, <1>2, <2>1 DEF ProcInv, SaveInv, Idle, Unlocked, Keyed
  <2>3. TempInv(p)'
    BY <1>3, <2>1 DEF TempInv
  <2>4. FreshInv(p)'
    BY <1>1, <1>2, <2>1 DEF ProcInv, FreshInv, Idle, Unlocked, BeforeRename
  <2> QED
    BY <2>2, <2>3, <2>4 DEF ProcInv
<1> QED
  BY <1>1, <1>2, <1>4, <1>5, <1>6 DEF Inv, FileSafe

(* The replacement: the new file holds the image of the memory that wrote   *)
(* it, and no other instance has seen it.                                   *)
LEMMA RenameInv ==
    ASSUME Inv, NEW p \in Procs, Rename(p)
    PROVE  Inv'
<1>1. TypeOK /\ ProcInv(p) /\ FileSafe(durable)
  BY DEF Inv
<1>2. /\ pc[p] = "rename" /\ pc' = [pc EXCEPT ![p] = "syncdir"]
      /\ disk' = temp[p] /\ temp' = [temp EXCEPT ![p] = None] /\ fresh' = {p}
      /\ UNCHANGED <<store, records, salt, key, op, durable, creates>>
  BY DEF Rename, Goto
<1>3. /\ temp[p] \in Files /\ temp[p].image = Image(p)
      /\ temp[p].whole /\ temp[p].synced /\ Keyed(p)
  BY <1>1, <1>2 DEF ProcInv, TempInv, SaveInv, Idle
<1>4. TypeOK'
  BY <1>1, <1>2, <1>3 DEF TypeOK, BeforeRename
<1>5. FileSafe(disk)' /\ FileSafe(durable)'
  BY <1>1, <1>2, <1>3 DEF FileSafe, Opens, Image, Keyed
<1>6. \A q \in Procs \ {p} : ProcInv(q)'
  <2> SUFFICES ASSUME NEW q \in Procs \ {p} PROVE ProcInv(q)'
    OBVIOUS
  <2>1. pc'[q] = pc[q] /\ temp'[q] = temp[q] /\ q \notin fresh' /\ ProcInv(q)
    BY <1>1, <1>2 DEF TypeOK, Inv
  <2> QED
    BY <1>2, <2>1
    DEF ProcInv, SaveInv, TempInv, FreshInv, Idle, Unlocked, Keyed, Image
<1>7. ProcInv(p)'
  <2>1. /\ pc'[p] = "syncdir" /\ temp'[p] = None
        /\ disk' # None /\ disk'.image = Image(p) /\ Image(p)' = Image(p)
    BY <1>1, <1>2, <1>3, NoneAssumption DEF TypeOK, Image
  <2>2. SaveInv(p)'
    BY <1>1, <1>2, <2>1 DEF ProcInv, SaveInv, Idle, Unlocked, Keyed
  <2>3. TempInv(p)' /\ FreshInv(p)'
    BY <2>1 DEF TempInv, FreshInv, Idle, BeforeRename
  <2> QED
    BY <2>2, <2>3 DEF ProcInv
<1> QED
  BY <1>4, <1>5, <1>6, <1>7 DEF Inv

LEMMA SyncDirectoryInv ==
    ASSUME Inv, NEW p \in Procs, NEW synced \in BOOLEAN, SyncDirectory(p, synced)
    PROVE  Inv'
<1>1. TypeOK /\ ProcInv(p) /\ FileSafe(disk) /\ FileSafe(durable)
  BY DEF Inv
<1>2. /\ pc[p] = "syncdir" /\ pc' = [pc EXCEPT ![p] = "idle"]
      /\ durable' \in {disk, durable}
      /\ op' = [op EXCEPT ![p] = None] /\ store' = [store EXCEPT ![p] = "unlocked"]
      /\ UNCHANGED <<records, salt, key, temp, disk, creates, fresh>>
  BY DEF SyncDirectory, Goto
<1>3. TypeOK'
  BY <1>1, <1>2 DEF TypeOK
<1>4. \A q \in Procs \ {p} : ProcInv(q)'
  <2> SUFFICES ASSUME NEW q \in Procs \ {p} PROVE ProcInv(q)'
    OBVIOUS
  <2> QED
    BY <1>1, <1>2, OthersInv DEF Inv, TypeOK
<1>5. ProcInv(p)'
  <2>1. /\ pc'[p] = "idle" /\ op'[p] = None /\ store'[p] = "unlocked"
        /\ temp'[p] = None /\ Keyed(p)
        /\ p \in fresh => disk # None /\ disk.image = Image(p)
    BY <1>1, <1>2 DEF TypeOK, ProcInv, SaveInv, TempInv, FreshInv, Idle
  <2>2. Keyed(p)' /\ Image(p)' = Image(p)
    BY <1>2, <2>1 DEF Keyed, Image
  <2> QED
    BY <1>2, <2>1, <2>2
    DEF ProcInv, SaveInv, TempInv, FreshInv, Idle, BeforeRename
<1> QED
  BY <1>1, <1>2, <1>3, <1>4, <1>5 DEF Inv, FileSafe

(* A failed call: the memory is what it was before the operation, and a     *)
(* vault being created is closed.                                           *)
LEMMA SaveFailsInv ==
    ASSUME Inv, NEW p \in Procs, SaveFails(p)
    PROVE  Inv'
<1>1. TypeOK /\ ProcInv(p) /\ FileSafe(disk) /\ FileSafe(durable)
  BY DEF Inv
<1>2. /\ pc[p] \in BeforeRename /\ pc' = [pc EXCEPT ![p] = "idle"]
      /\ temp' = [temp EXCEPT ![p] = None]
      /\ records' = [records EXCEPT ![p] = Undo(records[p], op[p])]
      /\ op' = [op EXCEPT ![p] = None]
      /\ UNCHANGED <<store, disk, durable, creates, fresh>>
      /\ op[p].kind = "create" => /\ salt' = [salt EXCEPT ![p] = 0]
                                  /\ key' = [key EXCEPT ![p] = None]
      /\ op[p].kind # "create" => UNCHANGED <<salt, key>>
  BY DEF SaveFails, TempRemoved
<1>3. /\ ~Idle(p) /\ Undo(records[p], op[p]) \in Seq(Records)
      /\ WellFormed(Undo(records[p], op[p])) /\ Keyed(p)
      /\ store[p] = IF op[p].kind = "create" THEN "none" ELSE "unlocked"
  BY <1>1, <1>2 DEF ProcInv, SaveInv, Idle, BeforeRename
<1>4. TypeOK'
  BY <1>1, <1>2, <1>3 DEF TypeOK
<1>5. \A q \in Procs \ {p} : ProcInv(q)'
  <2> SUFFICES ASSUME NEW q \in Procs \ {p} PROVE ProcInv(q)'
    OBVIOUS
  <2>1. salt'[q] = salt[q] /\ key'[q] = key[q]
    BY <1>1, <1>2 DEF TypeOK
  <2> QED
    BY <1>1, <1>2, <2>1, OthersInv DEF Inv, TypeOK
<1>6. ProcInv(p)'
  <2>1. /\ pc'[p] = "idle" /\ op'[p] = None /\ temp'[p] = None
        /\ store'[p] = store[p]
        /\ records'[p] = Undo(records[p], op[p])
    BY <1>1, <1>2 DEF TypeOK
  <2>2. CASE op[p].kind = "create"
    BY <1>3, <2>1, <2>2
    DEF ProcInv, SaveInv, TempInv, FreshInv, Idle, Unlocked, BeforeRename
  <2>3. CASE op[p].kind # "create"
    <3>1. Keyed(p)'
      BY <1>2, <1>3, <2>1, <2>3 DEF Keyed
    <3>2. Image(p)' = Before(p)
      BY <1>2, <2>1, <2>3 DEF Image, Before
    <3>3. FreshInv(p)'
      BY <1>1, <1>2, <2>1, <2>3, <3>2 DEF ProcInv, FreshInv, Idle, BeforeRename
    <3> QED
      BY <2>1, <3>1, <3>3 DEF ProcInv, SaveInv, TempInv, Idle
  <2> QED
    BY <2>2, <2>3
<1> QED
  BY <1>1, <1>2, <1>4, <1>5, <1>6 DEF Inv, FileSafe

-----------------------------------------------------------------------------
(* The environment.                                                         *)

LEMMA CrashInv ==
    ASSUME Inv, NEW p \in Procs, Crash(p)
    PROVE  Inv'
<1>1. TypeOK /\ ProcInv(p) /\ FileSafe(disk) /\ FileSafe(durable)
  BY DEF Inv
<1>2. TypeOK'
  BY <1>1 DEF Crash, TypeOK
<1>3. \A q \in Procs \ {p} : ProcInv(q)'
  <2> SUFFICES ASSUME NEW q \in Procs \ {p} PROVE ProcInv(q)'
    OBVIOUS
  <2> QED
    BY <1>1, OthersInv DEF Inv, Crash, TypeOK
<1>4. ProcInv(p)'
  BY <1>1 DEF Crash, TypeOK, ProcInv, SaveInv, TempInv, FreshInv, Idle, Unlocked
<1> QED
  BY <1>1, <1>2, <1>3, <1>4 DEF Inv, Crash, FileSafe

(* Only synced files are ever named vault.bin, so a power loss tears none.  *)
LEMMA PowerLossKeepsOne ==
    ASSUME Inv, PowerLoss
    PROVE  disk' \in {disk, durable} /\ durable' = disk'
<1>1. AfterPowerLoss(disk) = {disk} /\ AfterPowerLoss(durable) = {durable}
  BY DEF Inv, FileSafe, AfterPowerLoss
<1>2. /\ disk' \in AfterPowerLoss(disk) \cup AfterPowerLoss(durable)
      /\ durable' = disk'
  BY DEF PowerLoss
<1> QED
  BY <1>1, <1>2

LEMMA PowerLossInv ==
    ASSUME Inv, PowerLoss
    PROVE  Inv'
<1>1. TypeOK /\ FileSafe(disk) /\ FileSafe(durable)
  BY DEF Inv
<1>2. disk' \in {disk, durable} /\ durable' = disk'
  BY PowerLossKeepsOne
<1>3. /\ store' = [p \in Procs |-> "none"]
      /\ records' = [p \in Procs |-> <<>>]
      /\ salt' = [p \in Procs |-> 0]
      /\ key' = [p \in Procs |-> None]
      /\ op' = [p \in Procs |-> None]
      /\ pc' = [p \in Procs |-> "idle"]
      /\ temp' = [p \in Procs |-> None]
      /\ fresh' = {}
      /\ creates' = creates
  BY DEF PowerLoss
<1>4. TypeOK'
  BY <1>1, <1>2, <1>3 DEF TypeOK
<1>5. FileSafe(disk)' /\ FileSafe(durable)'
  BY <1>1, <1>2 DEF FileSafe
<1>6. \A p \in Procs : ProcInv(p)'
  BY <1>3 DEF ProcInv, SaveInv, TempInv, FreshInv, Idle, Unlocked
<1> QED
  BY <1>4, <1>5, <1>6 DEF Inv

LEMMA WriteBackInv ==
    ASSUME Inv, WriteBack
    PROVE  Inv'
<1>1. /\ durable' = disk
      /\ UNCHANGED <<store, records, salt, key, op, pc, temp, disk, creates, fresh>>
  BY DEF WriteBack, memory
<1>2. TypeOK' /\ FileSafe(disk)' /\ FileSafe(durable)'
  BY <1>1 DEF Inv, TypeOK, FileSafe
<1>3. \A p \in Procs : ProcInv(p)'
  BY <1>1, OthersInv DEF Inv
<1> QED
  BY <1>2, <1>3 DEF Inv

LEMMA StutterInv ==
    ASSUME Inv, UNCHANGED vars
    PROVE  Inv'
<1>1. UNCHANGED <<store, records, salt, key, op, pc, temp, disk, durable,
                  creates, fresh>>
  BY DEF vars, memory, files
<1>2. TypeOK' /\ FileSafe(disk)' /\ FileSafe(durable)'
  BY <1>1 DEF Inv, TypeOK, FileSafe
<1>3. \A p \in Procs : ProcInv(p)'
  BY <1>1, OthersInv DEF Inv
<1> QED
  BY <1>2, <1>3 DEF Inv

LEMMA NextInv == Inv /\ [Next]_vars => Inv'
<1> SUFFICES ASSUME Inv, [Next]_vars PROVE Inv'
  OBVIOUS
<1>1. ASSUME NEW p \in Procs, Request(p) PROVE Inv'
  <2>1. CASE OpenStore(p)
    BY <2>1, OpenStoreInv
  <2>2. CASE Lock(p)
    BY <2>2, LockInv
  <2>3. CASE \E w \in Passwords : Unlock(p, w)
    BY <2>3, UnlockInv
  <2>4. CASE \E w \in Passwords : CreateVault(p, w)
    BY <2>4, CreateVaultInv
  <2>5. CASE \E r \in Records : Add(p, r)
    BY <2>5, AddInv
  <2>6. CASE \E name \in Names, user \in Users, secret \in Secrets \cup {None} :
                 Edit(p, name, user, secret)
    BY <2>6, EditInv
  <2>7. CASE \E name \in Names : Delete(p, name)
    BY <2>7, DeleteInv
  <2> QED
    BY <1>1, <2>1, <2>2, <2>3, <2>4, <2>5, <2>6, <2>7, Zenon DEF Request
<1>2. ASSUME NEW p \in Procs, SaveStep(p) PROVE Inv'
  <2>1. CASE CreateTemp(p)
    BY <2>1, CreateTempInv
  <2>2. CASE WriteTemp(p) \/ SyncTemp(p)
    BY <2>2, WriteSyncInv
  <2>3. CASE Rename(p)
    BY <2>3, RenameInv
  <2>4. CASE SaveFails(p)
    BY <2>4, SaveFailsInv
  <2>5. CASE \E synced \in BOOLEAN : SyncDirectory(p, synced)
    BY <2>5, SyncDirectoryInv
  <2> QED
    BY <1>2, <2>1, <2>2, <2>3, <2>4, <2>5, Zenon DEF SaveStep
<1>3. ASSUME NEW p \in Procs, Crash(p) PROVE Inv'
  BY <1>3, CrashInv
<1>4. CASE WriteBack
  BY <1>4, WriteBackInv
<1>5. CASE PowerLoss
  BY <1>5, PowerLossInv
<1>6. CASE UNCHANGED vars
  BY <1>6, StutterInv
<1> QED
  BY <1>1, <1>2, <1>3, <1>4, <1>5, <1>6, Zenon DEF Next

-----------------------------------------------------------------------------
(* Every reachable state satisfies the inductive invariant.                 *)
THEOREM InvHolds == Spec => []Inv
  BY InitInv, NextInv, PTL DEF Spec

(* The variables keep their types.                                          *)
THEOREM TypeCorrect == Spec => []TypeOK
<1>1. Inv => TypeOK
  BY DEF Inv
<1> QED
  BY <1>1, InvHolds, PTL

(* vault.bin is never torn, whoever saves, fails, crashes or loses power.   *)
THEOREM NeverTorn == Spec => []VaultFileWhole
<1>1. Inv => VaultFileWhole
  BY DEF Inv, FileSafe, VaultFileWhole
<1> QED
  BY <1>1, InvHolds, PTL

(* A vault that was saved can always be opened again.                       *)
THEOREM AlwaysOpens == Spec => []SavedImageOpens
<1>1. Inv => SavedImageOpens
  BY DEF Inv, FileSafe, Opens, SavedImageOpens
<1> QED
  BY <1>1, InvHolds, PTL

(* Success stores the whole memory, failure rolls the whole memory back.    *)
THEOREM MemoryAndDiskAgree == Spec => []MemoryMirrorsDisk
<1>1. Inv => MemoryMirrorsDisk
  BY DEF Inv, TypeOK, ProcInv, FreshInv, MemoryMirrorsDisk
<1> QED
  BY <1>1, InvHolds, PTL

(* No temporary file survives the operation that made it.                   *)
THEOREM NoTempLeft == Spec => []IdleLeavesNoTemp
<1>1. Inv => IdleLeavesNoTemp
  BY DEF Inv, ProcInv, TempInv, Idle, IdleLeavesNoTemp
<1> QED
  BY <1>1, InvHolds, PTL

-----------------------------------------------------------------------------
(* Refinement: a rename is the replacement of the register, a directory     *)
(* sync or write-back makes the current image durable, and no other step    *)
(* than a power loss changes what is stored.                                *)

LEMMA ContentsOfSafe ==
    ASSUME NEW f, FileSafe(f)
    PROVE  Contents(f) = IF f = None THEN None ELSE f.image
  BY DEF FileSafe, Contents

LEMMA RegisterStep ==
    ASSUME Inv, [Next]_vars
    PROVE  [Register!Next]_<<Contents(disk), Contents(durable)>>
<1>1. /\ FileSafe(disk) /\ FileSafe(durable)
      /\ disk \in Files \cup {None} /\ durable \in Files \cup {None}
  BY DEF Inv, TypeOK
<1>2. CASE disk' = disk /\ durable' = durable
  BY <1>2 DEF Contents
<1>3. CASE disk' = disk /\ durable' = disk
  <2>1. Contents(durable') = Contents(disk) /\ Contents(disk') = Contents(disk)
    BY <1>3
  <2> QED
    BY <2>1 DEF Register!Next, Register!Sync
<1>4. ASSUME NEW p \in Procs, Rename(p)
      PROVE  Register!Next
  <2>1. /\ disk' = temp[p] /\ durable' = durable
        /\ temp[p] \in Files /\ temp[p].whole /\ temp[p].synced
    BY <1>4 DEF Rename, Goto, Inv, ProcInv, TempInv
  <2>2. Contents(disk') = temp[p].image /\ temp[p].image \in Images
    BY <2>1, NoneAssumption DEF Contents, Files
  <2>3. Contents(durable') = Contents(durable)
    BY <2>1
  <2> QED
    BY <2>2, <2>3 DEF Register!Next, Register!Replace
<1>5. CASE PowerLoss
  <2>1. disk' \in {disk, durable} /\ durable' = disk'
    BY <1>5, PowerLossKeepsOne
  <2>2. /\ Contents(disk') \in {Contents(disk), Contents(durable)}
        /\ Contents(durable') = Contents(disk')
    BY <2>1
  <2> QED
    BY <2>2 DEF Register!Next, Register!PowerLoss
<1>6. ASSUME NEW p \in Procs, Request(p) \/ Crash(p)
      PROVE  disk' = disk /\ durable' = durable
  BY <1>6 DEF Request, OpenStore, Lock, Unlock, CreateVault, NoVaultFile, Add, NameIsFree, HasRoom, Edit, Delete,
      Crash, files
<1>7. ASSUME NEW p \in Procs, SaveStep(p)
      PROVE  \/ disk' = disk /\ durable' \in {disk, durable}
             \/ Rename(p)
  BY <1>7 DEF SaveStep, CreateTemp, WriteTemp, AfterWrite, SyncTemp, SaveFails, TempRemoved, SyncDirectory
<1>8. CASE WriteBack
  BY <1>3, <1>8 DEF WriteBack
<1>9. CASE UNCHANGED vars
  BY <1>2, <1>9 DEF vars, files
<1> QED
  BY <1>2, <1>3, <1>4, <1>5, <1>6, <1>7, <1>8, <1>9 DEF Next

(* The vault file implements the atomic register.                           *)
THEOREM ImplementsAtomicStore == Spec => ReplacedAtomically
<1>1. Init => Register!Init
  BY DEF Init, Register!Init, Contents
<1>2. Inv /\ [Next]_vars => [Register!Next]_<<Contents(disk), Contents(durable)>>
  BY RegisterStep
<1> QED
  BY <1>1, <1>2, InvHolds, PTL DEF Spec, ReplacedAtomically, Register!Spec

=============================================================================
