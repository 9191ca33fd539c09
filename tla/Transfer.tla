------------------------------ MODULE Transfer ------------------------------
(***************************************************************************)
(* Copying one file: the staged download of src/transfer/download.c, which *)
(* streams into "<name>.part" and renames it on success, the plain copy of *)
(* src/transfer/transfer.c, which writes in place, and the Move command,   *)
(* all over the local file system of src/provider/local.c.                 *)
(*                                                                         *)
(* Each instance of the program copies one file at a time (the progress    *)
(* dialog is modal); several instances and a foreign program share the     *)
(* directories, and any of them may act between two system calls of an-    *)
(* other.  A name refers to a file object, which an open handle keeps      *)
(* alive, so a rename or a removal does not disturb whoever writes it.     *)
(*                                                                         *)
(* A path is what the user types and what nav_provider_resources_equal     *)
(* compares; through a symbolic link to a directory two paths may lead to  *)
(* the same name.                                                          *)
(***************************************************************************)
EXTENDS Integers, Sequences, SequencesExt

CONSTANTS Procs,     \* running instances of the program
          Sources,   \* remote resources
          Content,   \* Content[s]: the blocks of s, a block per buffer
          Paths,     \* normalized local paths of ordinary files
          Names,     \* directory entries; each has a ".part" twin
          NameOf,    \* NameOf[x]: the directory entry x leads to
          Kinds,     \* which of "copy", "download", "move" users ask for
          MaxFiles,  \* bound on the number of files created
          Foreign,   \* a block no source holds, as is Hole
          Hole,      \* what is read where nothing was written
          None       \* no job, size not known

Blocks == (UNION {Range(Content[s]) : s \in Sources}) \cup {Foreign, Hole}

Files == 1 .. MaxFiles  \* 0: no file

\* What nav_ui_download or command_copy asks for.
Jobs == [kind : Kinds \ {"move"}, source : Sources \cup Paths, target : Paths, overwrite : BOOLEAN]

\* What the constants have to be.
ASSUME ConstantsAssumption ==
    /\ \A s \in Sources : Content[s] \in Seq(Blocks)
    /\ NameOf \in [Paths -> Names]
    /\ Kinds \subseteq {"copy", "download", "move"}
    /\ MaxFiles \in Nat
    /\ None \notin Nat \cup Jobs /\ Sources \cap Paths = {}

\* The local variables of nav_download_copy and nav_transfer_copy_with_buffer,
\* with the stdio buffer of the writer.
Frames == [from   : {0} \cup Files,     \* the local file being read
           done   : Nat,                \* blocks read
           size   : Nat \cup {None},    \* metadata.size, if known
           to     : {0} \cup Files,     \* the file being written
           flushed : Nat,               \* blocks that reached the file
           buffer : Seq(Blocks),        \* blocks that did not yet
           ok     : BOOLEAN]            \* result

VARIABLES
    final,    \* final[n]: the file named n
    part,     \* part[n]: the file named n ".part"
    data,     \* data[i]: the blocks of file i
    made,     \* number of files created
    job,      \* job[p]: what is being copied
    pc,       \* pc[p]: the next call
    frame,    \* frame[p]: local variables
    shown,    \* ghost: files that have had a final name
    saw,      \* ghost: saw[p]: those when p last looked at the target
    strays    \* ghost: partial files that belong to no running download

directory == <<final, part, data, made>>
ghosts == <<shown, saw, strays>>
vars == <<directory, job, pc, frame, ghosts>>

EmptyFrame == [from |-> 0, done |-> 0, size |-> None, to |-> 0,
               flushed |-> 0, buffer |-> <<>>, ok |-> FALSE]

----------------------------------------------------------------------------
Remote(p) == job[p].source \in Sources
Download(p) == job[p].kind = "download"
Target(p) == NameOf[job[p].target]

\* What the source still holds.
Readable(p) == IF Remote(p) THEN Content[job[p].source] ELSE data[frame[p].from]

\* File contents d after bs is written at offset k.
Written(d, k, bs) ==
    [i \in 1 .. (IF Len(d) > k + Len(bs) THEN Len(d) ELSE k + Len(bs)) |->
        IF i \in k + 1 .. k + Len(bs) THEN bs[i - k]
        ELSE IF i <= Len(d) THEN d[i] ELSE Hole]

\* The instance has nothing under way.
Rest(p) ==
    /\ pc' = [pc EXCEPT ![p] = "idle"]
    /\ job' = [job EXCEPT ![p] = None]
    /\ frame' = [frame EXCEPT ![p] = EmptyFrame]

\* After a failed download nav_ui_download may ask for credentials and run
\* nav_download_copy again with the same arguments.
RestOrRetry(p) ==
    \/ Rest(p)
    \/ /\ Download(p) /\ Remote(p)
       /\ pc' = [pc EXCEPT ![p] = "begin"]
       /\ frame' = [frame EXCEPT ![p] = EmptyFrame]
       /\ UNCHANGED job

Goto(p, from, to) == pc[p] = from /\ pc' = [pc EXCEPT ![p] = to]

----------------------------------------------------------------------------
Init ==
    /\ final = [n \in Names |-> 0]
    /\ part = [n \in Names |-> 0]
    /\ data = [i \in Files |-> <<>>]
    /\ made = 0
    /\ job = [p \in Procs |-> None]
    /\ pc = [p \in Procs |-> "idle"]
    /\ frame = [p \in Procs |-> EmptyFrame]
    /\ shown = {}
    /\ saw = [p \in Procs |-> {}]
    /\ strays = {}

\* The user picks a source and a target; if the target exists the overwrite
\* is confirmed (or confirmation is off), else it is not asked for.
Choose(p, kind, source, target) ==
    /\ Goto(p, "idle", "begin")
    /\ job' = [job EXCEPT ![p] =
                  [kind |-> kind, source |-> source, target |-> target,
                   overwrite |-> final[NameOf[target]] # 0]]
    /\ saw' = [saw EXCEPT ![p] = shown]
    /\ UNCHANGED <<directory, frame, shown, strays>>

\* command_move within the local provider: one rename(), which replaces what
\* has the target's name.
Move(p, source, target) ==
    /\ "move" \in Kinds /\ pc[p] = "idle"
    /\ final[NameOf[source]] # 0 /\ NameOf[source] # NameOf[target]
    /\ final' = [final EXCEPT ![NameOf[source]] = 0,
                              ![NameOf[target]] = final[NameOf[source]]]
    /\ UNCHANGED <<part, data, made, job, pc, frame, ghosts>>

\* Mutant: the check is forgotten.
NotChecked(p) == TRUE

DifferentResources(p) == job[p].source # job[p].target
TargetIsFree(p) == job[p].overwrite \/ final[Target(p)] = 0

\* The checks before anything is opened; a copy leaves an existing target to
\* O_EXCL, a download looks for it here.
Begin(p, known) ==
    /\ Goto(p, "begin", "open_read")
    /\ DifferentResources(p)
    /\ ~Remote(p) => final[NameOf[job[p].source]] # 0 /\ known
    /\ Download(p) => TargetIsFree(p)
    /\ LET size == IF Remote(p) THEN Len(Content[job[p].source])
                   ELSE Len(data[final[NameOf[job[p].source]]])
       IN frame' = [frame EXCEPT ![p].size = IF known THEN size ELSE None]
    /\ saw' = [saw EXCEPT ![p] = IF Download(p) /\ ~job[p].overwrite THEN shown ELSE @]
    /\ UNCHANGED <<directory, job, shown, strays>>

\* A check fails, a call fails or the user cancels before the destination is
\* open: nothing was created.
Abandon(p) ==
    /\ pc[p] \in {"begin", "open_read", "open_write"}
    /\ RestOrRetry(p)
    /\ UNCHANGED <<directory, ghosts>>

OpenRead(p) ==
    /\ Goto(p, "open_read", "open_write")
    /\ IF Remote(p)
       THEN UNCHANGED frame
       ELSE /\ final[NameOf[job[p].source]] # 0
            /\ frame' = [frame EXCEPT ![p].from = final[NameOf[job[p].source]]]
    /\ UNCHANGED <<directory, job, ghosts>>

\* A new, empty file.
Create(p) ==
    /\ made < MaxFiles
    /\ made' = made + 1
    /\ data' = [data EXCEPT ![made'] = <<>>]
    /\ frame' = [frame EXCEPT ![p].to = made']

\* Mutant: the partial file is not opened exclusively.
PartialIsReplaced(p) == TRUE

PartialIsNew(p) == part[Target(p)] = 0

\* download.c opens the partial file exclusively.
OpenPartial(p) ==
    /\ Goto(p, "open_write", "stream")
    /\ Download(p)
    /\ PartialIsNew(p)
    /\ Create(p)
    /\ part' = [part EXCEPT ![Target(p)] = made']
    /\ UNCHANGED <<final, job, ghosts>>

\* transfer.c opens the target itself: exclusively, or truncating it.
OpenTarget(p) ==
    /\ Goto(p, "open_write", "stream")
    /\ ~Download(p)
    /\ \/ /\ final[Target(p)] = 0
          /\ Create(p)
          /\ final' = [final EXCEPT ![Target(p)] = made']
          /\ shown' = shown \cup {made'}
       \/ /\ final[Target(p)] # 0 /\ job[p].overwrite
          /\ data' = [data EXCEPT ![final[Target(p)]] = <<>>]
          /\ frame' = [frame EXCEPT ![p].to = final[Target(p)]]
          /\ UNCHANGED <<final, made, shown>>
    /\ UNCHANGED <<part, job, saw, strays>>

\* The stdio buffer reaches the file.
Flush(p, bs) ==
    data' = [data EXCEPT ![frame[p].to] = Written(@, frame[p].flushed, bs)]

\* One turn of the loop: a block is read and handed to fwrite, which may or
\* may not pass it on.
Stream(p, flush) ==
    /\ Goto(p, "stream", "stream")
    /\ frame[p].done < Len(Readable(p))
    /\ LET bs == Append(frame[p].buffer, Readable(p)[frame[p].done + 1])
       IN IF flush
          THEN /\ Flush(p, bs)
               /\ frame' = [frame EXCEPT ![p].done = @ + 1,
                                         ![p].flushed = @ + Len(bs),
                                         ![p].buffer = <<>>]
          ELSE /\ frame' = [frame EXCEPT ![p].done = @ + 1, ![p].buffer = bs]
               /\ UNCHANGED data
    /\ UNCHANGED <<final, part, made, job, ghosts>>

\* Mutant: neither success nor failure if the size is not known.
SizeUndecided(p) == IF frame[p].size = None THEN None ELSE frame[p].size = frame[p].done

\* Mutant: more than the size announced is accepted, and less.
AnySize(p) == TRUE

\* Only download.c compares with the size announced.
SizeMatches(p) == Download(p) => frame[p].size \in {None, frame[p].done}

\* The source has no more; a remote one may end early.
EndOfSource(p) ==
    /\ Goto(p, "stream", "close")
    /\ ~Remote(p) => frame[p].done >= Len(Readable(p))
    /\ frame' = [frame EXCEPT ![p].ok = SizeMatches(p)]
    /\ UNCHANGED <<directory, job, ghosts>>

\* Cancelled (a download only), or a read or a write failed.
Break(p) ==
    /\ Goto(p, "stream", "close")
    /\ UNCHANGED <<directory, job, frame, ghosts>>

----------------------------------------------------------------------------
\* Mutant: a failure to flush the rest of the buffer goes unnoticed.
IgnoresFlush(p, flush, closed) == frame[p].ok /\ closed

Succeeds(p, flush, closed) == frame[p].ok /\ flush /\ closed

\* Writer and reader are closed; fclose may fail to flush the rest.
Close(p, flush, closed) ==
    /\ pc[p] = "close"
    /\ IF flush THEN Flush(p, frame[p].buffer) ELSE UNCHANGED data
    /\ IF Succeeds(p, flush, closed)
       THEN \/ Download(p) /\ Goto(p, "close", "rename") /\ UNCHANGED <<job, frame>>
            \/ ~Download(p) /\ Rest(p)
       ELSE Goto(p, "close", "remove") /\ UNCHANGED <<job, frame>>
    /\ UNCHANGED <<final, part, made, ghosts>>

\* rename() replaces whatever has the name by now.
RenamePartial(p) ==
    /\ pc[p] = "rename"
    /\ part[Target(p)] # 0
    /\ final' = [final EXCEPT ![Target(p)] = part[Target(p)]]
    /\ part' = [part EXCEPT ![Target(p)] = 0]
    /\ shown' = shown \cup {part[Target(p)]}
    /\ Rest(p)
    /\ UNCHANGED <<data, made, saw, strays>>

RenameFails(p) ==
    /\ Goto(p, "rename", "remove")
    /\ UNCHANGED <<directory, job, frame, ghosts>>

\* Mutant: what was being written stays.
NothingRemoved(p) == UNCHANGED <<final, part>>

Removed(p) ==
    IF Download(p)
    THEN part' = [part EXCEPT ![Target(p)] = 0] /\ UNCHANGED final
    ELSE final' = [final EXCEPT ![Target(p)] = 0] /\ UNCHANGED part

\* What was being written is removed, by its name; an error is ignored.
CleanUp(p, works) ==
    /\ pc[p] = "remove"
    /\ IF works THEN Removed(p) ELSE UNCHANGED <<final, part>>
    /\ strays' = IF works THEN strays ELSE strays \cup {frame[p].to}
    /\ RestOrRetry(p)
    /\ UNCHANGED <<data, made, shown, saw>>

----------------------------------------------------------------------------
(* The environment *)

\* An instance is killed; what it was writing stays, without the buffer.
Crash(p) ==
    /\ pc[p] # "idle"
    /\ Rest(p)
    /\ strays' = strays \cup ({frame[p].to} \ {0})
    /\ UNCHANGED <<directory, shown, saw>>

\* Another program, or an earlier crash, leaves a file under a free name.
ForeignFile(n, partial) ==
    /\ made < MaxFiles
    /\ made' = made + 1
    /\ data' = [data EXCEPT ![made'] = <<Foreign>>]
    /\ IF partial
       THEN /\ part[n] = 0
            /\ part' = [part EXCEPT ![n] = made']
            /\ strays' = strays \cup {made'}
            /\ UNCHANGED <<final, shown>>
       ELSE /\ final[n] = 0
            /\ final' = [final EXCEPT ![n] = made']
            /\ shown' = shown \cup {made'}
            /\ UNCHANGED <<part, strays>>
    /\ UNCHANGED <<job, pc, frame, saw>>

Copying(p) ==
    \/ \E source, target \in Paths : Move(p, source, target)
    \/ \E kind \in Kinds \ {"move"}, source \in Sources \cup Paths, target \in Paths :
           Choose(p, kind, source, target)
    \/ \E known \in BOOLEAN : Begin(p, known)
    \/ OpenRead(p) \/ OpenPartial(p) \/ OpenTarget(p) \/ Abandon(p)
    \/ \E flush \in BOOLEAN : Stream(p, flush)
    \/ EndOfSource(p) \/ Break(p)
    \/ \E flush, closed \in BOOLEAN : Close(p, flush, closed)
    \/ RenamePartial(p) \/ RenameFails(p)
    \/ \E works \in BOOLEAN : CleanUp(p, works)

Next ==
    \/ \E p \in Procs : Copying(p) \/ Crash(p)
    \/ \E n \in Names, partial \in BOOLEAN : ForeignFile(n, partial)

Spec == Init /\ [][Next]_vars

----------------------------------------------------------------------------
(* Properties *)

Stages == {"idle", "begin", "open_read", "open_write", "stream", "close",
           "rename", "remove"}

\* Every variable has its type.
TypeOK ==
    /\ final \in [Names -> {0} \cup Files]
    /\ part \in [Names -> {0} \cup Files]
    /\ data \in [Files -> Seq(Blocks)]
    /\ made \in {0} \cup Files
    /\ job \in [Procs -> Jobs \cup {None}]
    /\ pc \in [Procs -> Stages]
    /\ frame \in [Procs -> Frames]
    /\ shown \subseteq Files
    /\ saw \in [Procs -> SUBSET Files]
    /\ strays \subseteq Files

\* From the moment it is created to its rename or removal, the partial file
\* of a download is the one its ".part" name leads to, no other instance
\* writes it, and no final name leads to it: the user never sees half a file.
Staged(p) == pc[p] \in {"stream", "close", "rename", "remove"} /\ Download(p)

PartialIsPrivate ==
    \A p \in Procs : Staged(p) =>
        /\ part[Target(p)] = frame[p].to
        /\ \A q \in Procs \ {p} : frame[q].to # frame[p].to
        /\ \A n \in Names : final[n] # frame[p].to

\* A ".part" file is being written by a running download, or was there
\* before, or was left by a crash or by a failed removal: failure and
\* cancellation clean up after themselves.
NoPartialLeft ==
    \A n \in Names : part[n] # 0 =>
        part[n] \in strays \/ \E p \in Procs : Staged(p) /\ frame[p].to = part[n]

\* Partial files are private, and none is left but by a crash.
PartialsInOrder == PartialIsPrivate /\ NoPartialLeft

\* A ".part" file that belongs to no running download is never written,
\* renamed or removed, by whatever download of the same name.
StrayPartialsUntouched ==
    [][\A n \in Names : part[n] \in strays =>
           part'[n] = part[n] /\ data'[part[n]] = data[part[n]]]_vars

\* What a remote download puts under the final name is the beginning of the
\* source, all of it when the size was known: an early end of the source or
\* a buffer that could not be flushed never passes for success.
SuccessIsComplete ==
    [][\A p \in Procs :
           pc[p] = "rename" /\ pc'[p] = "idle" /\ final' # final /\ Remote(p) =>
               LET d == data[final'[Target(p)]]
               IN /\ IsPrefix(d, Content[job[p].source])
                  /\ frame[p].size # None => d = Content[job[p].source]]_vars

\* Moves aside, a file is replaced, truncated or removed only for a copy to its
\* name that was told to overwrite, or that looked before the file was there.
OnlyConfirmedLost ==
    [][~(\E p \in Procs, source, target \in Paths : Move(p, source, target)) => \A n \in Names :
           final[n] # 0 /\ (final'[n] # final[n] \/ data'[final[n]] # data[final[n]]) =>
               \E p \in Procs : /\ job[p] # None /\ Target(p) = n
                                /\ job[p].overwrite \/ final[n] \notin saw[p]]_vars

\* What belongs to nobody, or to somebody else, is not written or removed.
OthersFilesKept == StrayPartialsUntouched /\ OnlyConfirmedLost

\* "Confirm Overwrite": a file's name goes to another file only by a copy or a
\* download that was told to overwrite, or that looked before it was there.
OverwriteConfirmed ==
    [][\A n \in Names :
           final[n] # 0 /\ final'[n] \notin {0, final[n]} =>
               \E p \in Procs : /\ job[p] # None /\ Target(p) = n
                                /\ job[p].overwrite \/ final[n] \notin saw[p]]_vars

\* No copy reads the file it writes: O_TRUNC would empty it first.
NeverOntoItself ==
    \A p \in Procs : pc[p] = "stream" => frame[p].to # frame[p].from

\* A copy or a download of a local file nobody else touches that reports
\* success has written exactly the blocks of the source.
LocalCopyIsFaithful ==
    [][\A p \in Procs :
           /\ pc'[p] = "idle" /\ frame[p].from # 0
           /\ RenamePartial(p) \/ \E flush, closed \in BOOLEAN : Close(p, flush, closed)
           => data'[frame[p].to] = data[frame[p].from]]_vars
=============================================================================
