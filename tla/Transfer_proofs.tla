--------------------------- MODULE Transfer_proofs ---------------------------
(***************************************************************************)
(* Proofs about Transfer for any number of instances, names, paths, files  *)
(* and sources of any length.                                              *)
(*                                                                         *)
(* The argument is about which file is which.  Files are numbered as they  *)
(* are created, so one that is new is none that anybody knows (NewFile).   *)
(* A partial file has never had a final name and no two names lead to one  *)
(* file (Named); hence only the download that staged it can write, rename  *)
(* or remove it (PartialsInOrder), and what it wrote is still what it read *)
(* when it renames it (Streamed).  Which of the files of others may be     *)
(* lost depends on the Move command, which looks at nothing (Confirmed).   *)
(***************************************************************************)
EXTENDS Transfer, SequenceTheorems, TLAPS

-----------------------------------------------------------------------------
(* The inductive invariant. *)

\* A single instance of the program runs.
Alone == \A p, q \in Procs : p = q

\* Nobody moves files while another instance copies.
NoMovesAside == "move" \in Kinds => Alone

Writing == {"stream", "close", "rename", "remove"}

\* How far the stages have brought the local variables.
Control(p) ==
    /\ pc[p] # "idle" => job[p] \in Jobs
    /\ pc[p] \notin Writing =>
           /\ frame[p].to = 0 /\ frame[p].done = 0 /\ frame[p].flushed = 0
           /\ frame[p].buffer = <<>>
    /\ pc[p] \in Writing => frame[p].to \in Files
    /\ pc[p] \notin {"close", "rename", "remove"} => frame[p].ok = FALSE
    /\ pc[p] = "rename" => Download(p)
    /\ pc[p] \in {"idle", "begin", "open_read"} => frame[p].from = 0
    /\ pc[p] \in Writing \cup {"open_write"} => (Remote(p) <=> frame[p].from = 0)
    /\ pc[p] \notin {"idle", "begin"} =>
           /\ DifferentResources(p)
           /\ Remote(p) => frame[p].size \in {None, Len(Content[job[p].source])}

\* A file has one name, and those that had a final one are the files shown.
\* Every file that is referred to has been created.
Named ==
    /\ \A n \in Names : final[n] <= made /\ part[n] <= made
    /\ \A i \in shown \cup strays : i <= made
    /\ \A m, n \in Names : final[m] = final[n] /\ final[m] # 0 => m = n
    /\ \A m, n \in Names : part[m] = part[n] /\ part[m] # 0 => m = n
    /\ \A n \in Names : (final[n] # 0 => final[n] \in shown) /\ part[n] \notin shown

\* The files of an instance: the partial file of a running download is nobody's
\* stray and has not been shown, the others have.
Holds(p) ==
    /\ frame[p].to <= made /\ frame[p].from <= made
    /\ saw[p] \subseteq shown
    /\ frame[p].from # 0 => frame[p].from \in shown
    /\ frame[p].to # 0 /\ ~Staged(p) => frame[p].to \in shown
    /\ Staged(p) => frame[p].to \notin strays

\* The files whose blocks are accounted for: those of remote downloads, and
\* those of local copies if no other instance writes to the source.
Tracked(p) == IF Remote(p) THEN Staged(p) ELSE Alone

\* The first n blocks of what is written are those of the source.
HasFirst(p, n) ==
    LET d == data[frame[p].to]
    IN Len(d) = n /\ \A i \in 1 .. n : d[i] = Readable(p)[i]

\* The source is of the size announced, and a local one has been read up to
\* its end.
AllRead(p) ==
    SizeMatches(p) /\ (~Remote(p) => frame[p].done = Len(Readable(p)))

\* What has been read is in the file or else in the buffer, in order.
Streamed(p) ==
    pc[p] \in Writing /\ Tracked(p) =>
        /\ pc[p] \in {"stream", "close"} =>
               /\ HasFirst(p, frame[p].flushed)
               /\ frame[p].flushed + Len(frame[p].buffer) = frame[p].done
               /\ frame[p].done <= Len(Readable(p))
               /\ \A i \in 1 .. Len(frame[p].buffer) :
                      frame[p].buffer[i] = Readable(p)[frame[p].flushed + i]
        /\ pc[p] = "close" /\ frame[p].ok => AllRead(p)
        /\ pc[p] = "rename" =>
               HasFirst(p, frame[p].done) /\ frame[p].done <= Len(Readable(p)) /\ AllRead(p)

\* A target that is there was not when p looked, unless p may overwrite it;
\* and what p reads or writes in place has the name it had or none.
Confirmed(p) ==
    pc[p] # "idle" =>
        /\ ~job[p].overwrite => final[Target(p)] \notin saw[p]
        /\ frame[p].from # 0 =>
               \A n \in Names : final[n] = frame[p].from => n = NameOf[job[p].source]
        /\ pc[p] \in Writing /\ ~Download(p) =>
               /\ \A n \in Names : final[n] = frame[p].to => n = Target(p)
               /\ ~job[p].overwrite => frame[p].to \notin saw[p]

Inv ==
    /\ TypeOK /\ Named /\ PartialsInOrder
    /\ \A p \in Procs : Control(p) /\ Holds(p) /\ Streamed(p)
    /\ NoMovesAside => \A p \in Procs : Confirmed(p)

LEMMA FilesAre == Files \subseteq Nat \ {0} /\ 0 \notin Files
BY ConstantsAssumption DEF Files

LEMMA TypesAre ==
    ASSUME TypeOK
    PROVE  /\ made \in Nat /\ shown \subseteq Files /\ strays \subseteq Files
           /\ \A q \in Procs : /\ frame[q] \in Frames
                               /\ frame[q].to \in Nat /\ frame[q].from \in Nat
                               /\ frame[q].to \in {0} \cup Files /\ frame[q].from \in {0} \cup Files
                               /\ frame[q].done \in Nat /\ frame[q].flushed \in Nat
                               /\ frame[q].size \in Nat \cup {None}
                               /\ frame[q].buffer \in Seq(Blocks) /\ frame[q].ok \in BOOLEAN
           /\ \A n \in Names : part[n] \in Nat /\ final[n] \in Nat
<1>1. /\ made \in {0} \cup Files /\ shown \subseteq Files /\ strays \subseteq Files
      /\ \A q \in Procs : frame[q] \in Frames
      /\ \A n \in Names : part[n] \in {0} \cup Files /\ final[n] \in {0} \cup Files
  BY DEF TypeOK
<1>2. \A f \in Frames : /\ f.to \in {0} \cup Files /\ f.from \in {0} \cup Files
                        /\ f.done \in Nat /\ f.flushed \in Nat /\ f.size \in Nat \cup {None}
                        /\ f.buffer \in Seq(Blocks) /\ f.ok \in BOOLEAN
  BY DEF Frames
<1>3. \A i \in {0} \cup Files : i \in Nat
  BY FilesAre
<1>4. ASSUME NEW q \in Procs
      PROVE  /\ frame[q] \in Frames
             /\ frame[q].to \in Nat /\ frame[q].from \in Nat
             /\ frame[q].to \in {0} \cup Files /\ frame[q].from \in {0} \cup Files
             /\ frame[q].done \in Nat /\ frame[q].flushed \in Nat
             /\ frame[q].size \in Nat \cup {None}
             /\ frame[q].buffer \in Seq(Blocks) /\ frame[q].ok \in BOOLEAN
  <2>1. frame[q] \in Frames
    BY <1>1
  <2> QED
    BY <1>2, <1>3, <2>1
<1> QED
  BY <1>1, <1>3, <1>4

-----------------------------------------------------------------------------
(* What every step has to show: for the instances in P, which take it, all   *)
(* of the invariant; for the others, that it leaves what they rely on.       *)

\* An instance that takes no step.
Still(q) == UNCHANGED <<pc[q], job[q], frame[q], saw[q]>>

LEMMA StillKeeps ==
    ASSUME NEW q \in Procs, Control(q), Still(q)
    PROVE  /\ Control(q)' /\ (Staged(q)' <=> Staged(q)) /\ (Tracked(q)' <=> Tracked(q))
           /\ Target(q)' = Target(q) /\ (Remote(q)' <=> Remote(q))
           /\ frame'[q].to = frame[q].to
BY DEF Still, Control, Staged, Tracked, Target, Remote, Download, DifferentResources

LEMMA StillStreams ==
    ASSUME NEW q \in Procs, TypeOK, Control(q), Streamed(q), Still(q),
           pc[q] \in Writing /\ Tracked(q) =>
               /\ data'[frame[q].to] = data[frame[q].to]
               /\ frame[q].from # 0 => data'[frame[q].from] = data[frame[q].from]
    PROVE  Streamed(q)'
<1> SUFFICES ASSUME pc'[q] \in Writing, Tracked(q)'
             PROVE  Streamed(q)'
  BY DEF Streamed
<1>1. /\ pc'[q] = pc[q] /\ job'[q] = job[q] /\ frame'[q] = frame[q]
      /\ pc[q] \in Writing /\ Tracked(q)
  BY StillKeeps DEF Still
<1>2. data'[frame[q].to] = data[frame[q].to] /\ Readable(q)' = Readable(q)
  BY <1>1 DEF Readable, Remote, Control
<1>3. \A n : HasFirst(q, n)' <=> HasFirst(q, n)
  BY <1>1, <1>2 DEF HasFirst
<1>4. AllRead(q)' <=> AllRead(q)
  BY <1>1, <1>2 DEF AllRead, SizeMatches, Download, Remote
<1>5. HasFirst(q, frame[q].flushed)' <=> HasFirst(q, frame[q].flushed)
  BY <1>1, <1>2 DEF HasFirst
<1>6. HasFirst(q, frame[q].done)' <=> HasFirst(q, frame[q].done)
  BY <1>1, <1>2 DEF HasFirst
<1> QED
  BY <1>1, <1>2, <1>4, <1>5, <1>6 DEF Streamed

LEMMA StepKeeps ==
    ASSUME Inv, TypeOK', Named', NoPartialLeft', NEW P \in SUBSET Procs,
           made <= made', shown \subseteq shown',
           \A p \in P : Control(p)' /\ Holds(p)' /\ Streamed(p)' /\ (NoMovesAside => Confirmed(p)'),
           \A q \in Procs \ P :
               /\ Still(q)
               /\ Staged(q) => frame[q].to \notin strays' /\ part'[Target(q)] = part[Target(q)]
               /\ pc[q] \in Writing /\ Tracked(q) =>
                      /\ data'[frame[q].to] = data[frame[q].to]
                      /\ frame[q].from # 0 => data'[frame[q].from] = data[frame[q].from],
           NoMovesAside /\ P # Procs =>
               \A n \in Names : final'[n] \in {0, final[n]} \/ final'[n] \notin shown,
           \A p \in P : Staged(p)' => part'[Target(p)'] = frame'[p].to,
           \A p \in P : \A q \in Procs \ {p} :
               Staged(p)' \/ Staged(q)' => frame'[p].to # frame'[q].to
    PROVE  Inv'
<1>1. /\ TypeOK /\ Named /\ PartialIsPrivate
      /\ \A p \in Procs : Control(p) /\ Holds(p) /\ Streamed(p)
      /\ NoMovesAside => \A p \in Procs : Confirmed(p)
  BY DEF Inv, PartialsInOrder
<1>2. /\ made \in Nat
      /\ \A q \in Procs : frame[q] \in Frames /\ frame[q].to \in Nat /\ frame[q].from \in Nat
      /\ \A n \in Names : part[n] \in Nat /\ final[n] \in Nat
  BY <1>1, TypesAre DEF TypeOK
<1>3. ASSUME NEW q \in Procs \ P
      PROVE  Control(q)' /\ Holds(q)' /\ Streamed(q)' /\ (NoMovesAside => Confirmed(q)')
  <2>1. /\ pc'[q] = pc[q] /\ job'[q] = job[q] /\ frame'[q] = frame[q] /\ saw'[q] = saw[q]
        /\ Control(q)' /\ (Staged(q)' <=> Staged(q)) /\ Target(q)' = Target(q)
    BY <1>1, StillKeeps DEF Still
  <2>2. Streamed(q)'
    BY <1>1, StillStreams
  <2>3. Holds(q)'
    <3>1. frame[q].to <= made' /\ frame[q].from <= made'
      <4>1. made' \in Nat
        BY FilesAre DEF TypeOK
      <4> QED
        BY <1>1, <1>2, <4>1 DEF Holds
    <3> QED
      BY <1>1, <2>1, <3>1 DEF Holds
  <2>4. ASSUME NoMovesAside
        PROVE  Confirmed(q)'
    <3>1. Confirmed(q) /\ Holds(q) /\ Control(q)
      BY <1>1, <2>4
    <3>2. \A n \in Names : final'[n] \in {0, final[n]} \/ final'[n] \notin shown
      BY <2>4
    <3>3. pc[q] # "idle" => Target(q) \in Names
      BY <3>1, ConstantsAssumption DEF Target, Control, Jobs
    <3>4. pc[q] \in Writing /\ ~Download(q) => ~Staged(q) /\ frame[q].to # 0 /\ frame[q].to \in shown
      BY <1>1, <1>2, <3>1 DEF Staged, Holds, Control, Files
    <3>5. 0 \notin saw[q] /\ saw[q] \subseteq shown
      BY <1>1, <3>1 DEF Holds, TypeOK, Files
    <3>6. ASSUME pc[q] # "idle"
          PROVE  ~job[q].overwrite => final'[Target(q)] \notin saw[q]
      BY <3>1, <3>2, <3>3, <3>5, <3>6 DEF Confirmed
    <3>7. ASSUME pc[q] # "idle", frame[q].from # 0
          PROVE  \A n \in Names : final'[n] = frame[q].from => n = NameOf[job[q].source]
      BY <3>1, <3>2, <3>7 DEF Confirmed, Holds
    <3>8. ASSUME pc[q] \in Writing, ~Download(q)
          PROVE  \A n \in Names : final'[n] = frame[q].to => n = Target(q)
      BY <3>1, <3>2, <3>4, <3>8 DEF Confirmed, Writing
    <3>9. ASSUME pc[q] \in Writing, ~Download(q)
          PROVE  ~job[q].overwrite => frame[q].to \notin saw[q]
      BY <3>1, <3>9 DEF Confirmed, Writing
    <3> QED
      BY <2>1, <3>6, <3>7, <3>8, <3>9 DEF Confirmed, Target, Download
  <2> QED
    BY <2>1, <2>2, <2>3, <2>4
<1>4. PartialIsPrivate'
  <2>1. ASSUME NEW p \in Procs, Staged(p)'
        PROVE  part'[Target(p)'] = frame'[p].to
    <3>1. CASE p \in P
      BY <2>1, <3>1
    <3>2. CASE p \notin P
      BY <1>1, <2>1, <3>2, StillKeeps DEF PartialIsPrivate
    <3> QED
      BY <3>1, <3>2
  <2>2. ASSUME NEW p \in Procs, Staged(p)', NEW q \in Procs \ {p}
        PROVE  frame'[q].to # frame'[p].to
    <3>1. CASE p \in P
      BY <2>2, <3>1
    <3>2. CASE p \notin P /\ q \in P
      BY <2>2, <3>2
    <3>3. CASE p \notin P /\ q \notin P
      BY <1>1, <2>2, <3>3, StillKeeps DEF PartialIsPrivate
    <3> QED
      BY <3>1, <3>2, <3>3
  <2>3. ASSUME NEW p \in Procs, Staged(p)', NEW n \in Names
        PROVE  final'[n] # frame'[p].to
    <3>1. Target(p)' \in Names
      <4>1. Control(p)'
        BY <1>3
      <4> QED
        BY <2>3, <4>1, ConstantsAssumption DEF Target, Control, Jobs, Staged
    <3>2. frame'[p].to = part'[Target(p)'] /\ frame'[p].to \in Files
      <4>1. Control(p)'
        BY <1>3
      <4> QED
        BY <2>1, <2>3, <4>1 DEF Control, Staged, Writing
    <3>3. part'[Target(p)'] \notin shown' /\ (final'[n] # 0 => final'[n] \in shown')
      BY <2>3, <3>1 DEF Named
    <3> QED
      BY <3>2, <3>3 DEF Files
  <2> QED
    BY <2>1, <2>2, <2>3 DEF PartialIsPrivate
<1>5. NoMovesAside' <=> NoMovesAside
  BY DEF NoMovesAside, Alone
<1>6. ASSUME NEW p \in Procs
      PROVE  Control(p)' /\ Holds(p)' /\ Streamed(p)' /\ (NoMovesAside => Confirmed(p)')
  BY <1>3
<1> QED
  BY <1>4, <1>5, <1>6 DEF Inv, PartialsInOrder

-----------------------------------------------------------------------------
(* Steps that concern one instance only.                                    *)

\* No name comes or goes; a file may be written, if it is not the partial file
\* of another instance.
LEMMA WriteKeeps ==
    ASSUME Inv, TypeOK', NEW p \in Procs, NEW w,
           UNCHANGED <<final, part, made, shown, strays>>,
           \A i \in Files : i # w => data'[i] = data[i],
           \A q \in Procs \ {p} : Still(q) /\ (Staged(q) => frame[q].to # w),
           Control(p)', Holds(p)', Streamed(p)', NoMovesAside => Confirmed(p)',
           Staged(p)' <=> Staged(p),
           Staged(p) => frame'[p].to = frame[p].to /\ Target(p)' = Target(p),
           frame'[p].to \in {0, frame[p].to} \cup shown
    PROVE  Inv'
<1>1. /\ TypeOK /\ Named /\ PartialIsPrivate /\ NoPartialLeft
      /\ \A q \in Procs : Control(q) /\ Holds(q)
      /\ UNCHANGED <<final, part, made, shown, strays>>
  BY DEF Inv, PartialsInOrder
<1>2. Named'
  BY <1>1 DEF Named
<1>3. \A q \in Procs : /\ Staged(q)' <=> Staged(q)
                       /\ Staged(q) => frame'[q].to = frame[q].to /\ Target(q)' = Target(q)
  BY <1>1, StillKeeps
<1>4. NoPartialLeft'
  BY <1>1, <1>3 DEF NoPartialLeft
<1>5. \A q \in Procs : Staged(q) =>
          /\ frame[q].to # 0 /\ frame[q].to \notin strays /\ frame[q].to \notin shown
          /\ frame[q].to \in Files /\ Target(q) \in Names
  <2>1. ASSUME NEW q \in Procs, Staged(q)
        PROVE  /\ frame[q].to # 0 /\ frame[q].to \notin strays
               /\ frame[q].to \in Files /\ Target(q) \in Names
    <3>1. Control(q) /\ Holds(q) /\ pc[q] \in Writing /\ pc[q] # "idle"
      BY <1>1, <2>1 DEF Staged, Writing
    <3>2. job[q].target \in Paths
      BY <3>1 DEF Control, Jobs
    <3> QED
      BY <2>1, <3>1, <3>2, FilesAre, ConstantsAssumption DEF Holds, Control, Target
  <2>2. ASSUME NEW q \in Procs, Staged(q)
        PROVE  frame[q].to \notin shown
    BY <1>1, <2>1, <2>2 DEF PartialIsPrivate, Named
  <2> QED
    BY <2>1, <2>2
<1>6. \A q \in Procs \ {p} :
          Staged(p)' \/ Staged(q)' => frame'[p].to # frame'[q].to
  <2>1. \A q \in Procs \ {p} : frame'[q].to = frame[q].to
    BY DEF Still
  <2> QED
    BY <1>1, <1>3, <1>5, <2>1 DEF PartialIsPrivate
<1>7. Staged(p)' => part'[Target(p)'] = frame'[p].to
  BY <1>1, <1>3 DEF PartialIsPrivate
<1>8. ASSUME NEW q \in Procs \ {p}, pc[q] \in Writing, Tracked(q)
      PROVE  Staged(q) /\ frame[q].from = 0
  BY <1>1, <1>8 DEF Tracked, Alone, Control, Writing
<1> DEFINE P == {p}
<1>9. \A q \in Procs \ P : /\ Still(q)
                           /\ Staged(q) => frame[q].to \notin strays' /\ part'[Target(q)] = part[Target(q)]
                           /\ pc[q] \in Writing /\ Tracked(q) =>
                                  /\ data'[frame[q].to] = data[frame[q].to]
                                  /\ frame[q].from # 0 => data'[frame[q].from] = data[frame[q].from]
  BY <1>1, <1>5, <1>8
<1>10. made <= made' /\ shown \subseteq shown'
  BY <1>1, TypesAre
<1>11. /\ P \in SUBSET Procs
       /\ \A q \in P : Control(q)' /\ Holds(q)' /\ Streamed(q)' /\ (NoMovesAside => Confirmed(q)')
       /\ \A q \in P : Staged(q)' => part'[Target(q)'] = frame'[q].to
       /\ \A q \in P : \A r \in Procs \ {q} :
              Staged(q)' \/ Staged(r)' => frame'[q].to # frame'[r].to
  BY <1>6, <1>7
<1>12. NoMovesAside /\ P # Procs =>
           \A n \in Names : final'[n] \in {0, final[n]} \/ final'[n] \notin shown
  BY <1>1
<1> HIDE DEF P
<1> QED
  BY <1>2, <1>4, <1>9, <1>10, <1>11, <1>12, StepKeeps

LEMMA LocalKeeps ==
    ASSUME Inv, TypeOK', NEW p \in Procs, UNCHANGED <<directory, shown, strays>>,
           \A q \in Procs \ {p} : Still(q),
           Control(p)', Holds(p)', Streamed(p)', NoMovesAside => Confirmed(p)',
           Staged(p)' <=> Staged(p),
           Staged(p) => frame'[p].to = frame[p].to /\ Target(p)' = Target(p),
           frame'[p].to \in {0, frame[p].to}
    PROVE  Inv'
<1>1. \A q \in Procs : Staged(q) => frame[q].to # 0
  BY FilesAre DEF Inv, Control, Staged, Writing
<1>2. UNCHANGED <<final, part, made, shown, strays>> /\ data' = data
  BY DEF directory
<1>3. /\ \A i \in Files : i # 0 => data'[i] = data[i]
      /\ \A q \in Procs \ {p} : Still(q) /\ (Staged(q) => frame[q].to # 0)
      /\ frame'[p].to \in {0, frame[p].to} \cup shown
  BY <1>1, <1>2
<1> QED
  BY <1>2, <1>3, WriteKeeps

\* What Inv says of one instance, and of the files.
LEMMA InvFacts ==
    ASSUME Inv, NEW p \in Procs
    PROVE  /\ TypeOK /\ Named /\ PartialIsPrivate /\ NoPartialLeft
           /\ Control(p) /\ Holds(p) /\ Streamed(p) /\ (NoMovesAside => Confirmed(p))
           /\ pc \in [Procs -> Stages] /\ job \in [Procs -> Jobs \cup {None}]
           /\ frame \in [Procs -> Frames] /\ saw \in [Procs -> SUBSET Files]
           /\ 0 \notin shown /\ 0 \notin saw[p]
           /\ pc[p] # "idle" => /\ job[p] \in Jobs /\ Target(p) \in Names
                                /\ job[p].target \in Paths /\ job[p].source \in Sources \cup Paths
                                /\ job[p].kind \in {"copy", "download"}
                                /\ job[p].overwrite \in BOOLEAN
                                /\ Readable(p) = IF Remote(p) THEN Content[job[p].source]
                                                              ELSE data[frame[p].from]
           /\ Staged(p) => frame[p].to \in Files /\ part[Target(p)] = frame[p].to
<1>1. /\ TypeOK /\ Named /\ PartialIsPrivate /\ NoPartialLeft
      /\ Control(p) /\ Holds(p) /\ Streamed(p) /\ (NoMovesAside => Confirmed(p))
  BY DEF Inv, PartialsInOrder
<1>2. /\ pc \in [Procs -> Stages] /\ job \in [Procs -> Jobs \cup {None}]
      /\ frame \in [Procs -> Frames] /\ saw \in [Procs -> SUBSET Files]
      /\ 0 \notin shown /\ 0 \notin saw[p]
  BY <1>1, FilesAre DEF TypeOK
<1>3. pc[p] # "idle" => /\ job[p] \in Jobs /\ Target(p) \in Names
                        /\ job[p].target \in Paths /\ job[p].source \in Sources \cup Paths
                        /\ job[p].kind \in {"copy", "download"}
                        /\ job[p].overwrite \in BOOLEAN
  BY <1>1, ConstantsAssumption DEF Control, Jobs, Target
<1>4. Staged(p) => frame[p].to \in Files /\ part[Target(p)] = frame[p].to
  BY <1>1 DEF Control, Staged, Writing, PartialIsPrivate
<1> QED
  BY <1>1, <1>2, <1>3, <1>4 DEF Readable

\* The step of p changes the stage, the job and the frame of p.
LEMMA Turn ==
    ASSUME Inv, NEW p \in Procs, NEW c \in Stages, NEW j \in Jobs \cup {None}, NEW f \in Frames,
           pc' = [pc EXCEPT ![p] = c], job' = [job EXCEPT ![p] = j],
           frame' = [frame EXCEPT ![p] = f], UNCHANGED saw
    PROVE  /\ pc' \in [Procs -> Stages] /\ job' \in [Procs -> Jobs \cup {None}]
           /\ frame' \in [Procs -> Frames] /\ saw' \in [Procs -> SUBSET Files]
           /\ pc'[p] = c /\ job'[p] = j /\ frame'[p] = f /\ saw'[p] = saw[p]
           /\ \A q \in Procs \ {p} : Still(q)
BY InvFacts DEF Still

LEMMA EmptyFrameIs ==
    /\ EmptyFrame \in Frames /\ EmptyFrame.to = 0 /\ EmptyFrame.from = 0
    /\ EmptyFrame.done = 0 /\ EmptyFrame.flushed = 0 /\ EmptyFrame.buffer = <<>>
    /\ EmptyFrame.ok = FALSE
BY DEF EmptyFrame, Frames

\* An operation is over, or tried again.
LEMMA Rested ==
    ASSUME Inv, NEW p \in Procs, pc[p] # "idle", RestOrRetry(p), UNCHANGED saw,
           shown \subseteq shown', made' \in Nat
    PROVE  /\ pc' \in [Procs -> Stages] /\ job' \in [Procs -> Jobs \cup {None}]
           /\ frame' \in [Procs -> Frames] /\ saw' \in [Procs -> SUBSET Files]
           /\ \A q \in Procs \ {p} : Still(q)
           /\ frame'[p] = EmptyFrame /\ frame'[p].to = 0 /\ saw'[p] = saw[p]
           /\ Control(p)' /\ Holds(p)' /\ Streamed(p)' /\ ~ Staged(p)'
           /\ (\A n \in Names : final'[n] \in {0, final[n]}) /\ NoMovesAside => Confirmed(p)'
<1> DEFINE j == job'[p]
           c == pc'[p]
<1>1. /\ c \in {"idle", "begin"} /\ pc' = [pc EXCEPT ![p] = c]
      /\ j \in Jobs \cup {None} /\ job' = [job EXCEPT ![p] = j]
      /\ c = "begin" => j \in Jobs /\ j = job[p]
      /\ frame' = [frame EXCEPT ![p] = EmptyFrame]
  BY InvFacts DEF RestOrRetry, Rest
<1> HIDE DEF j, c
<1>2. c \in Stages
  BY <1>1 DEF Stages
<1>3. /\ pc' \in [Procs -> Stages] /\ job' \in [Procs -> Jobs \cup {None}]
      /\ frame' \in [Procs -> Frames] /\ saw' \in [Procs -> SUBSET Files]
      /\ pc'[p] = c /\ job'[p] = j /\ frame'[p] = EmptyFrame /\ saw'[p] = saw[p]
      /\ \A q \in Procs \ {p} : Still(q)
  BY <1>1, <1>2, EmptyFrameIs, Turn
<1>4. Control(p)' /\ Streamed(p)' /\ ~ Staged(p)'
  BY <1>1, <1>3, EmptyFrameIs DEF Control, Streamed, Staged, Writing
<1>5. Holds(p)'
  <2>1. saw[p] \subseteq shown
    BY InvFacts DEF Holds
  <2> QED
    BY <1>3, <1>4, <2>1, EmptyFrameIs DEF Holds
<1>6. ASSUME \A n \in Names : final'[n] \in {0, final[n]}, NoMovesAside
      PROVE  Confirmed(p)'
  <2>1. Confirmed(p) /\ 0 \notin saw[p] /\ Target(p) \in Names
    BY <1>6, InvFacts
  <2> QED
    BY <1>1, <1>3, <1>6, <2>1, EmptyFrameIs DEF Confirmed, Target, Writing
<1> QED
  BY <1>3, <1>4, <1>5, <1>6, EmptyFrameIs

LEMMA ChooseStep ==
    ASSUME Inv, NEW p \in Procs, NEW kind \in Kinds \ {"move"}, NEW source \in Sources \cup Paths,
           NEW target \in Paths, Choose(p, kind, source, target)
    PROVE  Inv'
<1> DEFINE j == [kind |-> kind, source |-> source, target |-> target,
                 overwrite |-> final[NameOf[target]] # 0]
<1>1. /\ pc[p] = "idle" /\ pc' = [pc EXCEPT ![p] = "begin"] /\ job' = [job EXCEPT ![p] = j]
      /\ saw' = [saw EXCEPT ![p] = shown] /\ frame' = frame
      /\ UNCHANGED <<final, part, data, made, shown, strays>>
  BY DEF Choose, Goto, directory
<1>2. j \in Jobs /\ j.target = target /\ j.overwrite = (final[NameOf[target]] # 0)
  BY DEF Jobs
<1> HIDE DEF j
<1>3. /\ TypeOK /\ Control(p) /\ Holds(p) /\ NameOf[target] \in Names
      /\ pc \in [Procs -> Stages] /\ job \in [Procs -> Jobs \cup {None}]
      /\ saw \in [Procs -> SUBSET Files] /\ shown \subseteq Files /\ 0 \notin shown
  BY InvFacts, TypesAre, ConstantsAssumption
<1>4. /\ pc' \in [Procs -> Stages] /\ job' \in [Procs -> Jobs \cup {None}]
      /\ saw' \in [Procs -> SUBSET Files]
      /\ pc'[p] = "begin" /\ job'[p] = j /\ saw'[p] = shown /\ frame'[p] = frame[p]
      /\ \A q \in Procs \ {p} : Still(q)
  BY <1>1, <1>2, <1>3 DEF Stages, Still
<1>5. TypeOK'
  BY <1>1, <1>3, <1>4 DEF TypeOK
<1>6. frame[p].to = 0 /\ frame[p].from = 0 /\ ~ Staged(p)
  BY <1>1, <1>3 DEF Control, Staged, Writing
<1>7. Control(p)' /\ Streamed(p)' /\ ~ Staged(p)'
  BY <1>1, <1>2, <1>3, <1>4 DEF Control, Streamed, Staged, Writing
<1>8. Holds(p)'
  BY <1>1, <1>3, <1>4, <1>6, <1>7 DEF Holds
<1>9. Confirmed(p)'
  BY <1>1, <1>2, <1>3, <1>4, <1>6 DEF Confirmed, Target, Writing
<1> QED
  BY <1>1, <1>4, <1>5, <1>6, <1>7, <1>8, <1>9, LocalKeeps DEF directory

LEMMA BeginStep ==
    ASSUME Inv, NEW p \in Procs, NEW known \in BOOLEAN, Begin(p, known)
    PROVE  Inv'
<1> DEFINE size == IF known
                   THEN IF Remote(p) THEN Len(Content[job[p].source])
                        ELSE Len(data[final[NameOf[job[p].source]]])
                   ELSE None
           f == [frame[p] EXCEPT !.size = size]
           s == IF Download(p) /\ ~job[p].overwrite THEN shown ELSE saw[p]
<1>1. /\ pc[p] = "begin" /\ pc' = [pc EXCEPT ![p] = "open_read"]
      /\ frame' = [frame EXCEPT ![p] = f] /\ saw' = [saw EXCEPT ![p] = s]
      /\ DifferentResources(p) /\ (Download(p) => TargetIsFree(p))
      /\ ~Remote(p) => final[NameOf[job[p].source]] # 0
      /\ UNCHANGED <<final, part, data, made, job, shown, strays>>
  BY DEF Begin, Goto, directory
<1>2. /\ TypeOK /\ Control(p) /\ Holds(p) /\ (NoMovesAside => Confirmed(p))
      /\ pc \in [Procs -> Stages] /\ frame \in [Procs -> Frames]
      /\ saw \in [Procs -> SUBSET Files] /\ shown \subseteq Files /\ 0 \notin shown
      /\ job[p] \in Jobs /\ job[p].source \in Sources \cup Paths /\ Target(p) \in Names
      /\ 0 \notin saw[p]
  BY <1>1, InvFacts, TypesAre
<1>3. size \in Nat \cup {None}
  <2>1. CASE Remote(p)
    <3>1. Content[job[p].source] \in Seq(Blocks)
      BY <2>1, ConstantsAssumption DEF Remote
    <3> QED
      BY <2>1, <3>1, LenProperties
  <2>2. CASE ~Remote(p)
    <3>1. NameOf[job[p].source] \in Names
      BY <1>2, <2>2, ConstantsAssumption DEF Remote
    <3>2. data[final[NameOf[job[p].source]]] \in Seq(Blocks)
      BY <1>1, <1>2, <2>2, <3>1 DEF TypeOK
    <3> QED
      BY <2>2, <3>2, LenProperties
  <2> QED
    BY <2>1, <2>2
<1>4. Remote(p) => size \in {None, Len(Content[job[p].source])}
  OBVIOUS
<1> HIDE DEF size
<1>5. /\ f \in Frames /\ f.to = frame[p].to /\ f.from = frame[p].from /\ f.done = frame[p].done
      /\ f.flushed = frame[p].flushed /\ f.buffer = frame[p].buffer /\ f.ok = frame[p].ok
      /\ f.size = size
  BY <1>2, <1>3 DEF Frames
<1>6. s \in SUBSET Files /\ s \subseteq shown
      /\ (NoMovesAside /\ ~job[p].overwrite => final[Target(p)] \notin s)
  BY <1>1, <1>2 DEF Holds, Confirmed, TargetIsFree
<1> HIDE DEF f, s
<1>7. /\ pc' \in [Procs -> Stages] /\ frame' \in [Procs -> Frames]
      /\ saw' \in [Procs -> SUBSET Files]
      /\ pc'[p] = "open_read" /\ job'[p] = job[p] /\ saw'[p] = s /\ frame'[p] = f
      /\ \A q \in Procs \ {p} : Still(q)
  BY <1>1, <1>2, <1>5, <1>6 DEF Stages, Still
<1>8. TypeOK'
  BY <1>1, <1>2, <1>7 DEF TypeOK
<1>9. frame[p].to = 0 /\ frame[p].from = 0 /\ ~ Staged(p)
  BY <1>1, <1>2 DEF Control, Staged, Writing
<1>10. Control(p)' /\ Streamed(p)' /\ ~ Staged(p)'
  BY <1>1, <1>2, <1>4, <1>5, <1>7, <1>9
     DEF Control, Streamed, Staged, Writing, DifferentResources, Remote
<1>11. Holds(p)'
  BY <1>1, <1>2, <1>5, <1>6, <1>7, <1>9, <1>10 DEF Holds
<1>12. NoMovesAside => Confirmed(p)'
  BY <1>1, <1>5, <1>6, <1>7, <1>9 DEF Confirmed, Target, Writing
<1> QED
  BY <1>1, <1>5, <1>7, <1>8, <1>9, <1>10, <1>11, <1>12, LocalKeeps DEF directory

LEMMA AbandonStep ==
    ASSUME Inv, NEW p \in Procs, Abandon(p)
    PROVE  Inv'
<1>1. /\ pc[p] \in {"begin", "open_read", "open_write"} /\ RestOrRetry(p)
      /\ UNCHANGED <<final, part, data, made, shown, saw, strays>>
  BY DEF Abandon, directory, ghosts
<1>2. TypeOK /\ made \in Nat
  BY InvFacts, TypesAre
<1>3. /\ pc' \in [Procs -> Stages] /\ job' \in [Procs -> Jobs \cup {None}]
      /\ frame' \in [Procs -> Frames]
      /\ \A q \in Procs \ {p} : Still(q)
      /\ frame'[p].to = 0
      /\ Control(p)' /\ Holds(p)' /\ Streamed(p)' /\ ~ Staged(p)'
      /\ NoMovesAside => Confirmed(p)'
  BY <1>1, <1>2, Rested
<1>4. TypeOK'
  BY <1>1, <1>2, <1>3 DEF TypeOK
<1>5. ~ Staged(p)
  BY <1>1 DEF Staged
<1> QED
  BY <1>1, <1>3, <1>4, <1>5, LocalKeeps DEF directory

LEMMA OpenReadStep ==
    ASSUME Inv, NEW p \in Procs, OpenRead(p)
    PROVE  Inv'
<1> DEFINE from == IF Remote(p) THEN frame[p].from ELSE final[NameOf[job[p].source]]
           f == [frame[p] EXCEPT !.from = from]
<1>1. /\ pc[p] = "open_read" /\ pc' = [pc EXCEPT ![p] = "open_write"]
      /\ ~Remote(p) => final[NameOf[job[p].source]] # 0
      /\ UNCHANGED <<final, part, data, made, job, shown, saw, strays>>
      /\ IF Remote(p) THEN frame' = frame ELSE frame' = [frame EXCEPT ![p] = f]
  BY DEF OpenRead, Goto, directory, ghosts
<1>2. /\ TypeOK /\ Named /\ Control(p) /\ Holds(p) /\ (NoMovesAside => Confirmed(p))
      /\ pc \in [Procs -> Stages] /\ frame \in [Procs -> Frames] /\ frame[p] \in Frames
      /\ job[p] \in Jobs /\ job[p].source \in Sources \cup Paths /\ Target(p) \in Names
      /\ 0 \notin saw[p] /\ frame[p].from = 0 /\ frame[p].to = 0
  BY <1>1, InvFacts, TypesAre DEF Control, Writing
<1>3. /\ Remote(p) <=> from = 0
      /\ from \in {0} \cup Files /\ from <= made /\ (from # 0 => from \in shown)
      /\ from # 0 => \A n \in Names : final[n] = from => n = NameOf[job[p].source]
  <2>1. CASE Remote(p)
    BY <1>2, <2>1 DEF Holds
  <2>2. CASE ~Remote(p)
    <3>1. NameOf[job[p].source] \in Names
      BY <1>2, <2>2, ConstantsAssumption DEF Remote
    <3> QED
      BY <1>1, <1>2, <2>2, <3>1 DEF TypeOK, Named
  <2> QED
    BY <2>1, <2>2
<1>4. Remote(p) => from = frame[p].from
  OBVIOUS
<1> HIDE DEF from
<1>5. /\ f \in Frames /\ f.to = frame[p].to /\ f.from = from /\ f.done = frame[p].done
      /\ f.flushed = frame[p].flushed /\ f.buffer = frame[p].buffer /\ f.ok = frame[p].ok
      /\ f.size = frame[p].size
  BY <1>2, <1>3 DEF Frames
<1>6. Remote(p) => f = frame[p]
  BY <1>2, <1>4 DEF Frames
<1> HIDE DEF f
<1>7. frame' = [frame EXCEPT ![p] = f]
  BY <1>1, <1>2, <1>6
<1>8. /\ pc' \in [Procs -> Stages] /\ frame' \in [Procs -> Frames]
      /\ pc'[p] = "open_write" /\ job'[p] = job[p] /\ saw'[p] = saw[p] /\ frame'[p] = f
      /\ \A q \in Procs \ {p} : Still(q)
  BY <1>1, <1>2, <1>5, <1>7 DEF Stages, Still
<1>9. TypeOK'
  BY <1>1, <1>2, <1>8 DEF TypeOK
<1>10. ~ Staged(p)
  BY <1>1 DEF Staged
<1>11. Control(p)' /\ Streamed(p)' /\ ~ Staged(p)'
  BY <1>1, <1>2, <1>3, <1>5, <1>8
     DEF Control, Streamed, Staged, Writing, DifferentResources, Remote
<1>12. Holds(p)'
  BY <1>1, <1>2, <1>3, <1>5, <1>8, <1>11 DEF Holds
<1>13. NoMovesAside => Confirmed(p)'
  BY <1>1, <1>2, <1>3, <1>5, <1>8 DEF Confirmed, Target, Writing
<1> QED
  BY <1>1, <1>2, <1>5, <1>8, <1>9, <1>10, <1>11, <1>12, <1>13, LocalKeeps DEF directory

\* The files stay open and their blocks as they are; the result may be known.
LEMMA StaysOpen ==
    ASSUME Inv, NEW p \in Procs, pc[p] \in Writing, NEW c \in {"close", "remove"},
           NEW ok \in BOOLEAN,
           pc' = [pc EXCEPT ![p] = c], frame' = [frame EXCEPT ![p] = [frame[p] EXCEPT !.ok = ok]],
           UNCHANGED <<directory, job, ghosts>>,
           Tracked(p) /\ c = "close" => pc[p] = "stream" /\ (ok => AllRead(p))
    PROVE  Inv'
<1> DEFINE f == [frame[p] EXCEPT !.ok = ok]
<1>1. /\ TypeOK /\ Control(p) /\ Holds(p) /\ Streamed(p) /\ (NoMovesAside => Confirmed(p))
      /\ pc \in [Procs -> Stages] /\ frame \in [Procs -> Frames] /\ frame[p] \in Frames
      /\ job \in [Procs -> Jobs \cup {None}]
      /\ pc[p] # "idle" /\ UNCHANGED <<final, part, data, made, job, shown, saw, strays>>
  BY InvFacts, TypesAre DEF Writing, directory, ghosts
<1>2. /\ f \in Frames /\ f.to = frame[p].to /\ f.from = frame[p].from /\ f.done = frame[p].done
      /\ f.flushed = frame[p].flushed /\ f.buffer = frame[p].buffer /\ f.ok = ok
      /\ f.size = frame[p].size
  BY <1>1 DEF Frames
<1> HIDE DEF f
<1>3. c \in Stages
  BY DEF Stages, Writing
<1>4. /\ pc' \in [Procs -> Stages] /\ frame' \in [Procs -> Frames]
      /\ pc'[p] = c /\ job'[p] = job[p] /\ saw'[p] = saw[p] /\ frame'[p] = f
      /\ \A q \in Procs \ {p} : Still(q)
  BY <1>1, <1>2, <1>3 DEF Still, f
<1>5. TypeOK'
  BY <1>1, <1>4 DEF TypeOK
<1>6. /\ Staged(p)' <=> Staged(p)
      /\ Target(p)' = Target(p) /\ (Remote(p)' <=> Remote(p)) /\ (Tracked(p)' <=> Tracked(p))
      /\ Readable(p)' = Readable(p) /\ (AllRead(p)' <=> AllRead(p))
  BY <1>1, <1>2, <1>4
     DEF Staged, Writing, Target, Remote, Download, Tracked, Readable, AllRead, SizeMatches
<1>7. Control(p)'
  BY <1>1, <1>2, <1>4, <1>6 DEF Control, Writing, DifferentResources, Download
<1>8. Streamed(p)'
  <2>1. HasFirst(p, frame[p].flushed)' <=> HasFirst(p, frame[p].flushed)
    BY <1>1, <1>2, <1>4, <1>6 DEF HasFirst
  <2> QED
    BY <1>1, <1>2, <1>4, <1>6, <2>1 DEF Streamed, Writing
<1>9. Holds(p)'
  BY <1>1, <1>2, <1>4, <1>6 DEF Holds
<1>10. NoMovesAside => Confirmed(p)'
  BY <1>1, <1>2, <1>4, <1>6 DEF Confirmed, Download, Writing
<1> QED
  BY <1>2, <1>4, <1>5, <1>6, <1>7, <1>8, <1>9, <1>10, <1>1, LocalKeeps

LEMMA EndOfSourceStep ==
    ASSUME Inv, NEW p \in Procs, EndOfSource(p)
    PROVE  Inv'
<1> DEFINE ok == SizeMatches(p)
<1>1. /\ pc[p] = "stream" /\ pc' = [pc EXCEPT ![p] = "close"]
      /\ ~Remote(p) => frame[p].done >= Len(Readable(p))
      /\ frame' = [frame EXCEPT ![p] = [frame[p] EXCEPT !.ok = ok]]
      /\ UNCHANGED <<directory, job, ghosts>>
  BY DEF EndOfSource, Goto
<1>2. ok \in BOOLEAN /\ pc[p] \in Writing
  BY <1>1 DEF SizeMatches, Writing
<1>3. Streamed(p) /\ TypeOK /\ Control(p) /\ job[p] \in Jobs
  BY <1>1, InvFacts
<1>4. Tracked(p) /\ ok => AllRead(p)
  <2>1. CASE Remote(p)
    BY <2>1 DEF AllRead
  <2>2. CASE ~Remote(p)
    <3>1. frame[p].from \in Files /\ frame[p].done \in Nat
      BY <1>2, <1>3, <2>2, TypesAre DEF Control
    <3>2. Len(Readable(p)) \in Nat
      BY <1>3, <2>2, <3>1, LenProperties DEF Readable, TypeOK
    <3>3. Tracked(p) => frame[p].done <= Len(Readable(p))
      BY <1>1, <1>2, <1>3 DEF Streamed
    <3> QED
      BY <1>1, <3>1, <3>2, <3>3 DEF AllRead
  <2> QED
    BY <2>1, <2>2
<1> HIDE DEF ok
<1> QED
  BY <1>1, <1>2, <1>4, StaysOpen

LEMMA BreakStep ==
    ASSUME Inv, NEW p \in Procs, Break(p)
    PROVE  Inv'
<1>1. /\ pc[p] = "stream" /\ pc' = [pc EXCEPT ![p] = "close"]
      /\ frame' = frame /\ UNCHANGED <<directory, job, ghosts>>
  BY DEF Break, Goto
<1>2. /\ frame \in [Procs -> Frames] /\ frame[p] \in Frames /\ frame[p].ok = FALSE
  BY <1>1, InvFacts, TypesAre DEF Control
<1>3. frame' = [frame EXCEPT ![p] = [frame[p] EXCEPT !.ok = FALSE]]
  BY <1>1, <1>2 DEF Frames
<1> QED
  BY <1>1, <1>3, StaysOpen DEF Writing

LEMMA RenameFailsStep ==
    ASSUME Inv, NEW p \in Procs, RenameFails(p)
    PROVE  Inv'
<1> DEFINE ok == frame[p].ok
<1>1. /\ pc[p] = "rename" /\ pc' = [pc EXCEPT ![p] = "remove"]
      /\ frame' = frame /\ UNCHANGED <<directory, job, ghosts>>
  BY DEF RenameFails, Goto
<1>2. /\ frame \in [Procs -> Frames] /\ frame[p] \in Frames /\ ok \in BOOLEAN
  BY InvFacts, TypesAre
<1>3. frame' = [frame EXCEPT ![p] = [frame[p] EXCEPT !.ok = ok]]
  BY <1>1, <1>2 DEF Frames
<1>4. pc[p] \in Writing
  BY <1>1 DEF Writing
<1> HIDE DEF ok
<1> QED
  BY <1>1, <1>2, <1>3, <1>4, StaysOpen

-----------------------------------------------------------------------------
(* Steps that write.                                                        *)

LEMMA WrittenIs ==
    ASSUME NEW d \in Seq(Blocks), NEW k \in Nat, NEW bs \in Seq(Blocks)
    PROVE  /\ Written(d, k, bs) \in Seq(Blocks)
           /\ Len(d) = k =>
                  /\ Len(Written(d, k, bs)) = k + Len(bs)
                  /\ \A i \in 1 .. k : Written(d, k, bs)[i] = d[i]
                  /\ \A i \in 1 .. Len(bs) : Written(d, k, bs)[k + i] = bs[i]
<1> DEFINE n == IF Len(d) > k + Len(bs) THEN Len(d) ELSE k + Len(bs)
           w == Written(d, k, bs)
<1>1. Len(d) \in Nat /\ Len(bs) \in Nat /\ n \in Nat
  BY LenProperties
<1>2. w = [i \in 1 .. n |-> IF i \in k + 1 .. k + Len(bs) THEN bs[i - k]
                            ELSE IF i <= Len(d) THEN d[i] ELSE Hole]
  BY DEF Written
<1>3. ASSUME NEW i \in 1 .. n
      PROVE  w[i] \in Blocks
  <2>1. CASE i \in k + 1 .. k + Len(bs)
    <3>1. i - k \in 1 .. Len(bs)
      BY <1>1, <2>1
    <3>2. bs[i - k] \in Blocks
      BY <3>1, ElementOfSeq
    <3>3. w[i] = bs[i - k]
      BY <1>2, <2>1
    <3> QED
      BY <3>2, <3>3
  <2>2. CASE i \notin k + 1 .. k + Len(bs) /\ i <= Len(d)
    <3>1. i \in 1 .. Len(d)
      BY <1>1, <2>2
    <3>2. d[i] \in Blocks
      BY <3>1, ElementOfSeq
    <3> QED
      BY <1>2, <2>2, <3>2
  <2>3. CASE i \notin k + 1 .. k + Len(bs) /\ ~(i <= Len(d))
    <3>1. Hole \in Blocks
      BY DEF Blocks
    <3> QED
      BY <1>2, <2>3, <3>1
  <2> QED
    BY <2>1, <2>2, <2>3
<1>4. w \in Seq(Blocks) /\ Len(w) = n
  <2>1. w \in [1 .. n -> Blocks]
    BY <1>2, <1>3
  <2> HIDE DEF n, w
  <2>2. w \in Seq(Blocks)
    BY <1>1, <2>1, IsASeq
  <2>3. DOMAIN w = 1 .. n /\ DOMAIN w = 1 .. Len(w) /\ Len(w) \in Nat
    BY <2>1, <2>2, LenProperties
  <2> QED
    BY <1>1, <2>2, <2>3
<1>5. ASSUME Len(d) = k
      PROVE  /\ Len(w) = k + Len(bs)
             /\ \A i \in 1 .. k : w[i] = d[i]
             /\ \A i \in 1 .. Len(bs) : w[k + i] = bs[i]
  <2>1. n = k + Len(bs)
    BY <1>1, <1>5
  <2>2. ASSUME NEW i \in 1 .. k
        PROVE  w[i] = d[i]
    <3>1. i \in 1 .. n /\ i \notin k + 1 .. k + Len(bs) /\ i <= Len(d)
      BY <1>1, <1>5, <2>1
    <3> QED
      BY <1>2, <3>1
  <2>3. ASSUME NEW i \in 1 .. Len(bs)
        PROVE  w[k + i] = bs[i]
    <3>1. k + i \in 1 .. n /\ k + i \in k + 1 .. k + Len(bs) /\ (k + i) - k = i
      BY <1>1, <2>1
    <3> QED
      BY <1>2, <3>1
  <2> QED
    BY <1>4, <2>1, <2>2, <2>3
<1> QED
  BY <1>4, <1>5

\* What the instance reads is a sequence of blocks, and stays it unless the
\* instance writes over it.
LEMMA SourceIs ==
    ASSUME Inv, NEW p \in Procs, pc[p] \in Writing
    PROVE  /\ Readable(p) \in Seq(Blocks) /\ Len(Readable(p)) \in Nat
           /\ frame[p].to \in Files /\ data[frame[p].to] \in Seq(Blocks)
           /\ Remote(p) \/ frame[p].from \in Files
<1>1. /\ TypeOK /\ Control(p) /\ job[p] \in Jobs
      /\ job[p].source \in Sources \cup Paths
  BY InvFacts DEF Writing
<1>2. frame[p].to \in Files /\ (Remote(p) \/ frame[p].from \in Files)
  BY <1>1, TypesAre DEF Control
<1>3. Readable(p) \in Seq(Blocks)
  BY <1>1, <1>2, ConstantsAssumption DEF Readable, Remote, TypeOK
<1>4. data[frame[p].to] \in Seq(Blocks)
  BY <1>1, <1>2 DEF TypeOK
<1> QED
  BY <1>2, <1>3, <1>4, LenProperties

LEMMA StreamStep ==
    ASSUME Inv, NEW p \in Procs, NEW flush \in BOOLEAN, Stream(p, flush)
    PROVE  Inv'
<1> DEFINE b == Readable(p)[frame[p].done + 1]
           bs == Append(frame[p].buffer, b)
           k == frame[p].flushed
           n == frame[p].done
           to == frame[p].to
           old == frame[p].buffer
           w == Written(data[to], k, bs)
           f == IF flush
                THEN [frame[p] EXCEPT !.done = n + 1, !.flushed = k + Len(bs), !.buffer = <<>>]
                ELSE [frame[p] EXCEPT !.done = n + 1, !.buffer = bs]
<1>1. /\ pc[p] = "stream" /\ pc[p] \in Writing /\ pc[p] # "idle"
      /\ pc' = [pc EXCEPT ![p] = "stream"]
      /\ n < Len(Readable(p))
      /\ frame' = [frame EXCEPT ![p] = f]
      /\ IF flush THEN data' = [data EXCEPT ![to] = w] ELSE data' = data
      /\ UNCHANGED <<final, part, made, job, shown, saw, strays>>
  BY DEF Stream, Flush, Goto, ghosts, Writing
<1>2. /\ TypeOK /\ PartialIsPrivate /\ Control(p) /\ Holds(p) /\ Streamed(p)
      /\ (NoMovesAside => Confirmed(p))
      /\ pc \in [Procs -> Stages] /\ frame \in [Procs -> Frames] /\ frame[p] \in Frames
      /\ job \in [Procs -> Jobs \cup {None}] /\ data \in [Files -> Seq(Blocks)]
      /\ n \in Nat /\ k \in Nat /\ old \in Seq(Blocks)
  BY InvFacts, TypesAre DEF TypeOK
<1>3. /\ Readable(p) \in Seq(Blocks) /\ Len(Readable(p)) \in Nat
      /\ to \in Files /\ data[to] \in Seq(Blocks)
      /\ Remote(p) \/ frame[p].from \in Files
  BY <1>1, SourceIs
<1>4. /\ b \in Blocks /\ bs \in Seq(Blocks) /\ Len(bs) = Len(old) + 1 /\ Len(old) \in Nat
      /\ \A i \in 1 .. Len(old) : bs[i] = old[i]
      /\ bs[Len(old) + 1] = b
  <2>1. n + 1 \in 1 .. Len(Readable(p))
    BY <1>1, <1>2, <1>3
  <2>2. b \in Blocks
    BY <1>3, <2>1, ElementOfSeq
  <2> HIDE DEF b
  <2> QED
    BY <1>2, <2>2, AppendProperties, LenProperties
<1> HIDE DEF bs
<1>5. /\ w \in Seq(Blocks)
      /\ Len(data[to]) = k =>
             /\ Len(w) = k + Len(bs)
             /\ \A i \in 1 .. k : w[i] = data[to][i]
             /\ \A i \in 1 .. Len(bs) : w[k + i] = bs[i]
  BY <1>2, <1>3, <1>4, WrittenIs
<1> DEFINE k2 == IF flush THEN k + Len(bs) ELSE k
           rest == IF flush THEN <<>> ELSE bs
<1>6. /\ f \in Frames /\ f.to = to /\ f.from = frame[p].from /\ f.done = n + 1
      /\ f.flushed = k2 /\ f.buffer = rest /\ f.ok = frame[p].ok /\ f.size = frame[p].size
  <2> DEFINE n1 == n + 1
             k1 == k + Len(bs)
  <2>1. n1 \in Nat /\ k1 \in Nat /\ <<>> \in Seq(Blocks)
    BY <1>2, <1>4
  <2>2. CASE flush
    <3>1. f = [frame[p] EXCEPT !.done = n1, !.flushed = k1, !.buffer = <<>>]
      BY <2>2
    <3>2. k2 = k1 /\ rest = <<>>
      BY <2>2
    <3> HIDE DEF f, n1, k1, k2, rest
    <3>3. /\ f \in Frames /\ f.to = to /\ f.from = frame[p].from /\ f.done = n1
          /\ f.flushed = k1 /\ f.buffer = <<>> /\ f.ok = frame[p].ok /\ f.size = frame[p].size
      BY <1>2, <2>1, <3>1 DEF Frames
    <3> QED
      BY <3>2, <3>3 DEF n1
  <2>3. CASE ~flush
    <3>1. f = [frame[p] EXCEPT !.done = n1, !.buffer = bs]
      BY <2>3
    <3>2. k2 = k /\ rest = bs
      BY <2>3
    <3> HIDE DEF f, n1, k1, k2, rest
    <3>3. /\ f \in Frames /\ f.to = to /\ f.from = frame[p].from /\ f.done = n1
          /\ f.flushed = k /\ f.buffer = bs /\ f.ok = frame[p].ok /\ f.size = frame[p].size
      BY <1>2, <1>4, <2>1, <3>1 DEF Frames
    <3> QED
      BY <3>2, <3>3 DEF n1
  <2> QED
    BY <2>2, <2>3
<1> HIDE DEF f, w, b
<1>7. /\ pc' \in [Procs -> Stages] /\ frame' \in [Procs -> Frames]
      /\ pc'[p] = "stream" /\ job'[p] = job[p] /\ saw'[p] = saw[p] /\ frame'[p] = f
      /\ \A q \in Procs \ {p} : Still(q)
  BY <1>1, <1>2, <1>6 DEF Stages, Still
<1>8. /\ data' \in [Files -> Seq(Blocks)]
      /\ \A i \in Files : i # to => data'[i] = data[i]
      /\ flush => data'[to] = w
      /\ ~flush => data'[to] = data[to]
  BY <1>1, <1>2, <1>3, <1>5
<1>9. TypeOK'
  BY <1>1, <1>2, <1>7, <1>8 DEF TypeOK
<1>10. /\ Staged(p)' <=> Staged(p)
       /\ Target(p)' = Target(p) /\ (Remote(p)' <=> Remote(p)) /\ (Tracked(p)' <=> Tracked(p))
  BY <1>1, <1>7 DEF Staged, Writing, Target, Remote, Download, Tracked
<1>11. Control(p)'
  BY <1>1, <1>2, <1>6, <1>7, <1>10 DEF Control, Writing, DifferentResources, Download
<1>12. Holds(p)'
  BY <1>1, <1>2, <1>6, <1>7, <1>10 DEF Holds
<1>13. NoMovesAside => Confirmed(p)'
  BY <1>1, <1>2, <1>6, <1>7, <1>10 DEF Confirmed, Download, Writing
<1>14. Streamed(p)'
  <2> SUFFICES ASSUME Tracked(p)
               PROVE  Streamed(p)'
    BY <1>10 DEF Streamed
  <2> DEFINE R == Readable(p)
             d == data[to]
  <2>1. /\ Len(d) = k /\ \A i \in 1 .. k : d[i] = R[i]
        /\ k + Len(old) = n /\ n <= Len(R)
        /\ \A i \in 1 .. Len(old) : old[i] = R[k + i]
    BY <1>1, <1>2 DEF Streamed, HasFirst
  \* A source that is written over is empty, and there is no more to read.
  <2>2. Readable(p)' = R
    <3>1. CASE Remote(p)
      BY <1>7, <1>10, <3>1 DEF Readable, Remote
    <3>2. CASE ~Remote(p)
      <4>1. frame[p].from # to
        <5> SUFFICES ASSUME frame[p].from = to PROVE FALSE
          OBVIOUS
        <5>1. R = d
          BY <3>2 DEF Readable
        <5> QED
          BY <1>1, <1>2, <1>3, <1>4, <2>1, <5>1
      <4>2. R = data[frame[p].from] /\ frame[p].from \in Files
        BY <1>3, <3>2 DEF Readable
      <4> QED
        BY <1>6, <1>7, <1>8, <1>10, <3>2, <4>1, <4>2 DEF Readable
    <3> QED
      BY <3>1, <3>2
  <2>3. \A i \in 1 .. Len(bs) : bs[i] = R[k + i]
    <3>1. \A i \in 1 .. Len(old) + 1 : i \in 1 .. Len(old) \/ i = Len(old) + 1
      BY <1>4
    <3>2. bs[Len(old) + 1] = R[k + (Len(old) + 1)]
      <4>1. k + (Len(old) + 1) = n + 1
        BY <1>2, <1>4, <2>1
      <4>2. b = R[n + 1]
        BY DEF b
      <4> QED
        BY <1>4, <4>1, <4>2
    <3> QED
      BY <1>4, <2>1, <3>1, <3>2
  <2>4. n + 1 <= Len(R) /\ k + Len(bs) = n + 1
    <3> DEFINE r == Len(R)
               m == Len(old)
    <3>1. n \in Nat /\ k \in Nat /\ r \in Nat /\ m \in Nat /\ n < r /\ k + m = n
      BY <1>1, <1>2, <1>3, <1>4, <2>1
    <3>2. Len(bs) = m + 1
      BY <1>4
    <3> HIDE DEF n, k, r, m
    <3>3. n + 1 <= r /\ k + (m + 1) = n + 1
      BY <3>1
    <3> QED
      BY <3>2, <3>3 DEF r
  <2> HIDE DEF R
  <2>5. /\ Len(data'[to]) = k2
        /\ \A i \in 1 .. k2 : data'[to][i] = R[i]
    <3>1. CASE flush
      <4>1. \A i \in 1 .. k + Len(bs) : i \in 1 .. k \/ (i - k \in 1 .. Len(bs) /\ k + (i - k) = i)
        BY <1>2, <1>4
      <4>2. w = data'[to] /\ Len(w) = k + Len(bs) /\ k2 = k + Len(bs)
        BY <1>5, <1>8, <2>1, <3>1
      <4>3. ASSUME NEW i \in 1 .. k + Len(bs)
            PROVE  w[i] = R[i]
        <5>1. CASE i \in 1 .. k
          BY <1>5, <2>1, <5>1
        <5>2. CASE i - k \in 1 .. Len(bs) /\ k + (i - k) = i
          <6> DEFINE j == i - k
          <6>1. w[k + j] = bs[j] /\ bs[j] = R[k + j]
            BY <1>5, <2>1, <2>3, <5>2
          <6> QED
            BY <5>2, <6>1
        <5> QED
          BY <4>1, <5>1, <5>2
      <4> QED
        BY <4>2, <4>3
    <3>2. CASE ~flush
      BY <1>8, <2>1, <3>2
    <3> QED
      BY <3>1, <3>2
  <2>6. /\ k2 + Len(rest) = n + 1
        /\ \A i \in 1 .. Len(rest) : rest[i] = R[k2 + i]
    <3>1. CASE flush
      BY <1>2, <1>4, <2>4, <3>1
    <3>2. CASE ~flush
      BY <2>3, <2>4, <3>2
    <3> QED
      BY <3>1, <3>2
  <2> HIDE DEF k2, rest, n
  <2>7. HasFirst(p, frame[p].flushed)'
    BY <1>6, <1>7, <2>2, <2>5 DEF HasFirst
  <2> QED
    BY <1>6, <1>7, <2>2, <2>4, <2>6, <2>7 DEF Streamed
<1>15. \A q \in Procs \ {p} : Still(q) /\ (Staged(q) => frame[q].to # to)
  BY <1>2, <1>7 DEF PartialIsPrivate
<1> QED
  BY <1>1, <1>6, <1>7, <1>8, <1>9, <1>10, <1>11, <1>12, <1>13, <1>14, <1>15, WriteKeeps

\* The rest of the buffer reaches the file or does not.
LEMMA LastFlush ==
    ASSUME Inv, NEW p \in Procs, pc[p] = "close", NEW flush \in BOOLEAN,
           IF flush THEN Flush(p, frame[p].buffer) ELSE UNCHANGED data
    PROVE  /\ data' \in [Files -> Seq(Blocks)]
           /\ \A i \in Files : i # frame[p].to => data'[i] = data[i]
           /\ \A q \in Procs \ {p} : Staged(q) => frame[q].to # frame[p].to
           /\ flush /\ Tracked(p) =>
                  /\ Len(data'[frame[p].to]) = frame[p].done
                  /\ frame[p].done <= Len(Readable(p))
                  /\ \A i \in 1 .. frame[p].done : data'[frame[p].to][i] = Readable(p)[i]
<1> DEFINE to == frame[p].to
           k == frame[p].flushed
           n == frame[p].done
           old == frame[p].buffer
           R == Readable(p)
           w == Written(data[to], k, old)
<1>1. /\ TypeOK /\ PartialIsPrivate /\ Streamed(p) /\ pc[p] \in Writing
      /\ data \in [Files -> Seq(Blocks)] /\ k \in Nat /\ n \in Nat /\ old \in Seq(Blocks)
  BY InvFacts, TypesAre DEF TypeOK, Writing
<1>2. to \in Files /\ data[to] \in Seq(Blocks) /\ Len(old) \in Nat
  BY <1>1, SourceIs, LenProperties
<1>3. IF flush THEN data' = [data EXCEPT ![to] = w] ELSE data' = data
  BY DEF Flush
<1>4. /\ w \in Seq(Blocks)
      /\ Len(data[to]) = k =>
             /\ Len(w) = k + Len(old)
             /\ \A i \in 1 .. k : w[i] = data[to][i]
             /\ \A i \in 1 .. Len(old) : w[k + i] = old[i]
  BY <1>1, <1>2, WrittenIs
<1> HIDE DEF w
<1>5. /\ data' \in [Files -> Seq(Blocks)]
      /\ \A i \in Files : i # to => data'[i] = data[i]
      /\ flush => data'[to] = w
  BY <1>1, <1>2, <1>3, <1>4
<1>6. \A q \in Procs \ {p} : Staged(q) => frame[q].to # to
  BY <1>1 DEF PartialIsPrivate
<1>7. ASSUME flush, Tracked(p)
      PROVE  /\ Len(data'[to]) = n /\ n <= Len(R)
             /\ \A i \in 1 .. n : data'[to][i] = R[i]
  <2>1. /\ Len(data[to]) = k /\ \A i \in 1 .. k : data[to][i] = R[i]
        /\ k + Len(old) = n /\ n <= Len(R)
        /\ \A i \in 1 .. Len(old) : old[i] = R[k + i]
    BY <1>1, <1>7 DEF Streamed, HasFirst
  <2>2. data'[to] = w
    BY <1>5, <1>7
  <2> HIDE DEF to, k, n, old, R
  <2>3. \A i \in 1 .. n : i \in 1 .. k \/ (i - k \in 1 .. Len(old) /\ k + (i - k) = i)
    BY <1>1, <1>2, <2>1
  <2>4. ASSUME NEW i \in 1 .. n
        PROVE  w[i] = R[i]
    <3>1. CASE i \in 1 .. k
      BY <1>4, <2>1, <3>1
    <3>2. CASE i - k \in 1 .. Len(old) /\ k + (i - k) = i
      <4> DEFINE j == i - k
      <4>1. w[k + j] = old[j] /\ old[j] = R[k + j]
        BY <1>4, <2>1, <3>2
      <4> QED
        BY <3>2, <4>1
    <3> QED
      BY <2>3, <3>1, <3>2
  <2> QED
    BY <1>4, <2>1, <2>2, <2>4
<1> QED
  BY <1>5, <1>6, <1>7

LEMMA CloseStep ==
    ASSUME Inv, NEW p \in Procs, NEW flush \in BOOLEAN, NEW closed \in BOOLEAN,
           Close(p, flush, closed)
    PROVE  Inv'
<1>1. /\ pc[p] = "close" /\ pc[p] \in Writing /\ pc[p] # "idle"
      /\ IF flush THEN Flush(p, frame[p].buffer) ELSE UNCHANGED data
      /\ UNCHANGED <<final, part, made, shown, saw, strays>>
  BY DEF Close, ghosts, Writing
<1>2. \/ /\ Download(p) /\ frame[p].ok /\ flush
         /\ pc' = [pc EXCEPT ![p] = "rename"] /\ UNCHANGED <<job, frame>>
      \/ ~Download(p) /\ Rest(p)
      \/ pc' = [pc EXCEPT ![p] = "remove"] /\ UNCHANGED <<job, frame>>
  BY DEF Close, Goto, Succeeds
<1>3. /\ TypeOK /\ Named /\ PartialIsPrivate
      /\ Control(p) /\ Holds(p) /\ Streamed(p) /\ (NoMovesAside => Confirmed(p))
      /\ pc \in [Procs -> Stages] /\ frame \in [Procs -> Frames]
      /\ job \in [Procs -> Jobs \cup {None}] /\ made \in Nat
  BY InvFacts, TypesAre
<1>4. /\ data' \in [Files -> Seq(Blocks)]
      /\ \A i \in Files : i # frame[p].to => data'[i] = data[i]
      /\ \A q \in Procs \ {p} : Staged(q) => frame[q].to # frame[p].to
  BY <1>1, LastFlush
<1>5. ASSUME ~Download(p), Rest(p)
      PROVE  Inv'
  <2>1. /\ pc' \in [Procs -> Stages] /\ job' \in [Procs -> Jobs \cup {None}]
        /\ frame' \in [Procs -> Frames]
        /\ \A q \in Procs \ {p} : Still(q)
        /\ frame'[p].to = 0
        /\ Control(p)' /\ Holds(p)' /\ Streamed(p)' /\ ~ Staged(p)'
        /\ NoMovesAside => Confirmed(p)'
    <3>1. RestOrRetry(p)
      BY <1>5 DEF RestOrRetry
    <3>2. shown \subseteq shown' /\ made' \in Nat /\ UNCHANGED saw
      BY <1>1, <1>3
    <3>3. \A n \in Names : final'[n] \in {0, final[n]}
      BY <1>1
    <3> QED
      BY <1>1, <3>1, <3>2, <3>3, Rested
  <2>2. TypeOK'
    BY <1>1, <1>3, <1>4, <2>1 DEF TypeOK
  <2>3. ~ Staged(p)
    BY <1>5 DEF Staged
  <2> QED
    BY <1>1, <1>4, <2>1, <2>2, <2>3, WriteKeeps
<1>6. ASSUME NEW c \in {"rename", "remove"}, pc' = [pc EXCEPT ![p] = c], UNCHANGED <<job, frame>>,
             c = "rename" => Download(p) /\ frame[p].ok /\ flush
      PROVE  Inv'
  <2>1. /\ pc' \in [Procs -> Stages] /\ pc'[p] = c
        /\ job'[p] = job[p] /\ saw'[p] = saw[p] /\ frame'[p] = frame[p]
        /\ \A q \in Procs \ {p} : Still(q)
    BY <1>1, <1>3, <1>6 DEF Stages, Still
  <2>2. TypeOK'
    BY <1>1, <1>3, <1>4, <1>6, <2>1 DEF TypeOK
  <2>3. /\ Staged(p)' <=> Staged(p)
        /\ Target(p)' = Target(p) /\ (Remote(p)' <=> Remote(p)) /\ (Tracked(p)' <=> Tracked(p))
    BY <1>1, <2>1 DEF Staged, Target, Remote, Download, Tracked
  <2>4. Control(p)'
    BY <1>1, <1>3, <1>6, <2>1, <2>3 DEF Control, Writing, DifferentResources, Download
  <2>5. Holds(p)'
    BY <1>1, <1>3, <2>1, <2>3 DEF Holds
  <2>6. NoMovesAside => Confirmed(p)'
    BY <1>1, <1>3, <2>1, <2>3 DEF Confirmed, Download, Writing
  <2>7. Streamed(p)'
    <3>1. CASE c = "remove" \/ ~Tracked(p)
      BY <2>1, <2>3, <3>1 DEF Streamed
    <3>2. CASE c = "rename" /\ Tracked(p)
      <4>1. Download(p) /\ frame[p].ok /\ flush /\ Staged(p)
        BY <1>1, <1>6, <3>2 DEF Staged
      <4>2. Readable(p)' = Readable(p)
        <5>1. CASE Remote(p)
          BY <2>1, <2>3, <5>1 DEF Readable
        <5>2. CASE ~Remote(p)
          <6>1. frame[p].from \in shown /\ frame[p].from \in Files
            BY <1>1, <1>3, <5>2, SourceIs, FilesAre DEF Holds
          <6>2. frame[p].to \notin shown
            BY <1>1, <1>3, <4>1, InvFacts DEF Named
          <6> QED
            BY <1>4, <2>1, <2>3, <5>2, <6>1, <6>2 DEF Readable
        <5> QED
          BY <5>1, <5>2
      <4>3. /\ Len(data'[frame[p].to]) = frame[p].done
            /\ frame[p].done <= Len(Readable(p))
            /\ \A i \in 1 .. frame[p].done : data'[frame[p].to][i] = Readable(p)[i]
        BY <1>1, <3>2, <4>1, LastFlush
      <4>4. HasFirst(p, frame[p].done)'
        BY <2>1, <4>2, <4>3 DEF HasFirst
      <4>5. AllRead(p)
        BY <1>1, <1>3, <3>2, <4>1 DEF Streamed
      <4>6. AllRead(p)'
        BY <2>1, <2>3, <4>2, <4>5 DEF AllRead, SizeMatches, Download
      <4> QED
        BY <2>1, <3>2, <4>2, <4>3, <4>4, <4>6 DEF Streamed
    <3> QED
      BY <3>1, <3>2
  <2> QED
    BY <1>1, <1>4, <2>1, <2>2, <2>3, <2>4, <2>5, <2>6, <2>7, WriteKeeps
<1>7. CASE pc' = [pc EXCEPT ![p] = "remove"] /\ UNCHANGED <<job, frame>>
  BY <1>6, <1>7
<1>8. CASE /\ Download(p) /\ frame[p].ok /\ flush
           /\ pc' = [pc EXCEPT ![p] = "rename"] /\ UNCHANGED <<job, frame>>
  BY <1>6, <1>8
<1> QED
  BY <1>2, <1>5, <1>7, <1>8

-----------------------------------------------------------------------------
(* Steps that change the directories.                                       *)

\* The instance lets its files go: a partial file is removed or left astray.
LEMMA LetsGo ==
    ASSUME Inv, NEW p \in Procs, pc[p] # "idle", RestOrRetry(p),
           UNCHANGED <<data, made, shown, saw>>,
           final' \in [Names -> {0} \cup Files], part' \in [Names -> {0} \cup Files],
           \A n \in Names : final'[n] \in {0, final[n]},
           \A n \in Names : \/ part'[n] = part[n]
                            \/ part'[n] = 0 /\ Staged(p) /\ n = Target(p),
           strays \subseteq strays', strays' \subseteq Files,
           \A i \in strays' : i \in strays \/ i = frame[p].to,
           Staged(p) => part'[Target(p)] = 0 \/ frame[p].to \in strays'
    PROVE  Inv'
<1>1. /\ TypeOK /\ Named /\ PartialIsPrivate /\ NoPartialLeft /\ made \in Nat /\ Holds(p)
      /\ \A q \in Procs : Control(q) /\ Holds(q)
      /\ \A q \in Procs : Staged(q) => /\ frame[q].to \in Files /\ frame[q].to # 0
                                       /\ part[Target(q)] = frame[q].to /\ Target(q) \in Names
  <2>1. ASSUME NEW q \in Procs, Staged(q)
        PROVE  /\ frame[q].to \in Files /\ frame[q].to # 0
               /\ part[Target(q)] = frame[q].to /\ Target(q) \in Names
    BY <2>1, InvFacts, FilesAre DEF Staged
  <2> QED
    BY <2>1, InvFacts, TypesAre
<1>2. /\ pc' \in [Procs -> Stages] /\ job' \in [Procs -> Jobs \cup {None}]
      /\ frame' \in [Procs -> Frames]
      /\ \A q \in Procs \ {p} : Still(q)
      /\ frame'[p].to = 0
      /\ Control(p)' /\ Holds(p)' /\ Streamed(p)' /\ ~ Staged(p)'
      /\ NoMovesAside => Confirmed(p)'
  <2>1. shown \subseteq shown' /\ made' \in Nat /\ UNCHANGED saw
    BY <1>1
  <2> QED
    BY <2>1, Rested
<1>3. TypeOK'
  BY <1>1, <1>2 DEF TypeOK
<1>4. ASSUME NEW q \in Procs \ {p}, Staged(q)
      PROVE  frame[q].to \notin strays' /\ part'[Target(q)] = part[Target(q)]
  <2>1. frame[q].to # frame[p].to /\ frame[q].to \notin strays
    BY <1>1, <1>4 DEF PartialIsPrivate, Holds
  <2>2. Staged(p) => Target(p) # Target(q)
    BY <1>1, <1>4, <2>1
  <2> QED
    BY <1>1, <1>4, <2>1, <2>2
<1>5. ASSUME NEW q \in Procs \ {p}, pc[q] \in Writing, Tracked(q)
      PROVE  /\ data'[frame[q].to] = data[frame[q].to]
             /\ frame[q].from # 0 => data'[frame[q].from] = data[frame[q].from]
  OBVIOUS
<1>6. \A q \in Procs \ {p} : Staged(q)' <=> Staged(q)
  BY <1>1, <1>2, StillKeeps
<1>7. Named'
  <2>1. \A n \in Names : final[n] \in Nat /\ part[n] \in Nat
    BY <1>1, TypesAre
  <2>2. \A n \in Names : part'[n] \in {0, part[n]}
    OBVIOUS
  <2>3. \A n \in Names : final'[n] <= made' /\ part'[n] <= made'
    BY <1>1, <2>1, <2>2 DEF Named
  <2>4. \A i \in shown' \cup strays' : i <= made'
    BY <1>1 DEF Named, Holds
  <2>5. /\ \A m, n \in Names : final'[m] = final'[n] /\ final'[m] # 0 => m = n
        /\ \A m, n \in Names : part'[m] = part'[n] /\ part'[m] # 0 => m = n
    BY <1>1, <2>2 DEF Named
  <2>6. \A n \in Names : (final'[n] # 0 => final'[n] \in shown') /\ part'[n] \notin shown'
    <3>1. 0 \notin shown
      BY InvFacts
    <3> QED
      BY <1>1, <2>2, <3>1 DEF Named
  <2> QED
    BY <2>3, <2>4, <2>5, <2>6 DEF Named
<1>8. NoPartialLeft'
  <2>1. ASSUME NEW n \in Names, part'[n] # 0
        PROVE  part'[n] \in strays' \/ \E q \in Procs : Staged(q)' /\ frame'[q].to = part'[n]
    <3>1. part'[n] = part[n]
      BY <2>1
    <3>2. CASE part[n] \in strays
      BY <3>1, <3>2
    <3>3. ASSUME NEW q \in Procs, Staged(q), frame[q].to = part[n]
          PROVE  part'[n] \in strays' \/ \E r \in Procs : Staged(r)' /\ frame'[r].to = part'[n]
      <4>1. CASE q = p
        <5>1. Target(p) = n
          BY <1>1, <2>1, <3>1, <3>3, <4>1 DEF Named
        <5> QED
          BY <2>1, <3>1, <3>3, <4>1, <5>1
      <4>2. CASE q # p
        <5>1. Staged(q)' /\ frame'[q] = frame[q]
          BY <1>2, <1>6, <3>3, <4>2 DEF Still
        <5> QED
          BY <3>1, <3>3, <5>1
      <4> QED
        BY <4>1, <4>2
    <3> QED
      BY <1>1, <2>1, <3>1, <3>2, <3>3 DEF NoPartialLeft
  <2> QED
    BY <2>1 DEF NoPartialLeft
<1> DEFINE P == {p}
<1>9. \A q \in Procs \ P : /\ Still(q)
                           /\ Staged(q) => frame[q].to \notin strays' /\ part'[Target(q)] = part[Target(q)]
                           /\ pc[q] \in Writing /\ Tracked(q) =>
                                  /\ data'[frame[q].to] = data[frame[q].to]
                                  /\ frame[q].from # 0 => data'[frame[q].from] = data[frame[q].from]
  BY <1>2, <1>4, <1>5
<1>10. made <= made' /\ shown \subseteq shown'
  BY <1>1
<1>11. /\ P \in SUBSET Procs
       /\ \A q \in P : Control(q)' /\ Holds(q)' /\ Streamed(q)' /\ (NoMovesAside => Confirmed(q)')
       /\ \A q \in P : Staged(q)' => part'[Target(q)'] = frame'[q].to
  BY <1>2
<1>12. \A q \in P : \A r \in Procs \ {q} :
           Staged(q)' \/ Staged(r)' => frame'[q].to # frame'[r].to
  BY <1>1, <1>2, <1>6 DEF Still
<1>13. NoMovesAside /\ P # Procs =>
           \A n \in Names : final'[n] \in {0, final[n]} \/ final'[n] \notin shown
  OBVIOUS
<1> HIDE DEF P
<1> QED
  BY <1>3, <1>7, <1>8, <1>9, <1>10, <1>11, <1>12, <1>13, StepKeeps

LEMMA CleanUpStep ==
    ASSUME Inv, NEW p \in Procs, NEW works \in BOOLEAN, CleanUp(p, works)
    PROVE  Inv'
<1>1. /\ pc[p] = "remove" /\ pc[p] # "idle" /\ pc[p] \in Writing
      /\ IF works THEN Removed(p) ELSE UNCHANGED <<final, part>>
      /\ strays' = IF works THEN strays ELSE strays \cup {frame[p].to}
      /\ RestOrRetry(p)
      /\ UNCHANGED <<data, made, shown, saw>>
  BY DEF CleanUp, Writing
<1>2. /\ final \in [Names -> {0} \cup Files] /\ part \in [Names -> {0} \cup Files]
      /\ strays \subseteq Files /\ Target(p) \in Names /\ frame[p].to \in Files
  BY <1>1, InvFacts DEF TypeOK, Control
<1>3. Staged(p) <=> Download(p)
  BY <1>1 DEF Staged
<1>4. /\ final' \in [Names -> {0} \cup Files] /\ part' \in [Names -> {0} \cup Files]
      /\ \A n \in Names : final'[n] \in {0, final[n]}
      /\ \A n \in Names : \/ part'[n] = part[n]
                          \/ part'[n] = 0 /\ Staged(p) /\ n = Target(p)
      /\ Staged(p) /\ works => part'[Target(p)] = 0
  BY <1>1, <1>2, <1>3 DEF Removed
<1>5. /\ strays \subseteq strays' /\ strays' \subseteq Files
      /\ \A i \in strays' : i \in strays \/ i = frame[p].to
      /\ works \/ frame[p].to \in strays'
  BY <1>1, <1>2
<1> QED
  BY <1>1, <1>4, <1>5, LetsGo

LEMMA CrashStep ==
    ASSUME Inv, NEW p \in Procs, Crash(p)
    PROVE  Inv'
<1>1. /\ pc[p] # "idle" /\ RestOrRetry(p)
      /\ strays' = strays \cup ({frame[p].to} \ {0})
      /\ UNCHANGED <<final, part, data, made, shown, saw>>
  BY DEF Crash, RestOrRetry, directory
<1>2. /\ final \in [Names -> {0} \cup Files] /\ part \in [Names -> {0} \cup Files]
      /\ strays \subseteq Files /\ frame[p].to \in {0} \cup Files
      /\ Staged(p) => frame[p].to \in Files
  BY InvFacts, TypesAre DEF TypeOK
<1>3. /\ strays \subseteq strays' /\ strays' \subseteq Files
      /\ \A i \in strays' : i \in strays \/ i = frame[p].to
      /\ Staged(p) => frame[p].to \in strays'
  BY <1>1, <1>2, FilesAre
<1> QED
  BY <1>1, <1>2, <1>3, LetsGo

LEMMA RenamePartialStep ==
    ASSUME Inv, NEW p \in Procs, RenamePartial(p)
    PROVE  Inv'
<1> DEFINE t == Target(p)
           x == part[t]
<1>1. /\ pc[p] = "rename" /\ pc[p] # "idle" /\ x # 0
      /\ final' = [final EXCEPT ![t] = x] /\ part' = [part EXCEPT ![t] = 0]
      /\ shown' = shown \cup {x} /\ Rest(p)
      /\ UNCHANGED <<data, made, saw, strays>>
  BY DEF RenamePartial
<1>2. /\ TypeOK /\ Named /\ PartialIsPrivate /\ NoPartialLeft /\ made \in Nat
      /\ final \in [Names -> {0} \cup Files] /\ part \in [Names -> {0} \cup Files]
      /\ \A q \in Procs : Control(q) /\ Holds(q)
      /\ 0 \notin shown
  BY InvFacts, TypesAre DEF TypeOK
<1>3. \A q \in Procs : Staged(q) => frame[q].to # 0 /\ part[Target(q)] = frame[q].to
  BY InvFacts, FilesAre
<1>4. Staged(p) /\ t \in Names /\ x = frame[p].to /\ x \in Files
  BY <1>1, <1>2, InvFacts DEF Staged, Control
<1> HIDE DEF t, x
<1>5. x \notin shown /\ x \notin strays /\ x <= made /\ x = part[t]
  BY <1>2, <1>4 DEF Holds, Named, x
<1>6. /\ final' \in [Names -> {0} \cup Files] /\ part' \in [Names -> {0} \cup Files]
      /\ final'[t] = x /\ part'[t] = 0
      /\ \A n \in Names \ {t} : final'[n] = final[n] /\ part'[n] = part[n]
  BY <1>1, <1>2, <1>4
<1>7. /\ pc' \in [Procs -> Stages] /\ job' \in [Procs -> Jobs \cup {None}]
      /\ frame' \in [Procs -> Frames] /\ pc'[p] = "idle"
      /\ \A q \in Procs \ {p} : Still(q)
      /\ frame'[p].to = 0
      /\ Control(p)' /\ Holds(p)' /\ Streamed(p)' /\ ~ Staged(p)'
  <2>1. RestOrRetry(p) /\ shown \subseteq shown' /\ made' \in Nat /\ UNCHANGED saw
    BY <1>1, <1>2 DEF RestOrRetry
  <2>2. pc'[p] = "idle"
    BY <1>1, InvFacts DEF Rest
  <2> QED
    BY <1>1, <2>1, <2>2, Rested
<1>8. Confirmed(p)'
  BY <1>7 DEF Confirmed
<1>9. TypeOK'
  BY <1>1, <1>2, <1>4, <1>6, <1>7 DEF TypeOK
<1>10. ASSUME NEW q \in Procs \ {p}, Staged(q)
       PROVE  frame[q].to \notin strays' /\ part'[Target(q)] = part[Target(q)]
  <2>1. frame[q].to # frame[p].to /\ frame[q].to \notin strays
    BY <1>2, <1>4, <1>10 DEF PartialIsPrivate, Holds
  <2>2. t # Target(q) /\ Target(q) \in Names
    BY <1>3, <1>4, <1>5, <1>10, <2>1, InvFacts DEF Staged
  <2> QED
    BY <1>1, <1>6, <2>1, <2>2
<1>11. \A q \in Procs \ {p} : Staged(q)' <=> Staged(q)
  BY <1>2, <1>7, StillKeeps
<1>12. Named'
  <2>1. \A n \in Names : final[n] \in Nat /\ part[n] \in Nat
    BY <1>2, TypesAre
  <2>2. \A n \in Names : final'[n] <= made' /\ part'[n] <= made'
    BY <1>1, <1>2, <1>5, <1>6, <2>1 DEF Named
  <2>3. \A i \in shown' \cup strays' : i <= made'
    BY <1>1, <1>2, <1>5 DEF Named
  <2>4. \A n \in Names \ {t} : final[n] # x
    BY <1>1, <1>2, <1>5 DEF Named
  <2>5. /\ \A m, n \in Names : final'[m] = final'[n] /\ final'[m] # 0 => m = n
        /\ \A m, n \in Names : part'[m] = part'[n] /\ part'[m] # 0 => m = n
    BY <1>2, <1>6, <2>4 DEF Named
  <2>6. \A n \in Names : (final'[n] # 0 => final'[n] \in shown') /\ part'[n] \notin shown'
    <3>1. \A n \in Names \ {t} : part[n] # x
      BY <1>1, <1>2, <1>4, <1>5 DEF Named
    <3> QED
      BY <1>1, <1>2, <1>6, <3>1 DEF Named
  <2> QED
    BY <2>2, <2>3, <2>5, <2>6 DEF Named
<1>13. NoPartialLeft'
  <2>1. ASSUME NEW n \in Names, part'[n] # 0
        PROVE  part'[n] \in strays' \/ \E q \in Procs : Staged(q)' /\ frame'[q].to = part'[n]
    <3>1. n # t /\ part'[n] = part[n]
      BY <1>6, <2>1
    <3>2. part[n] # x
      BY <1>1, <1>2, <1>4, <1>5, <3>1 DEF Named
    <3>3. CASE part[n] \in strays
      BY <1>1, <3>1, <3>3
    <3>4. ASSUME NEW q \in Procs, Staged(q), frame[q].to = part[n]
          PROVE  part'[n] \in strays' \/ \E r \in Procs : Staged(r)' /\ frame'[r].to = part'[n]
      <4>1. q # p
        BY <1>4, <3>2, <3>4
      <4>2. Staged(q)' /\ frame'[q] = frame[q]
        BY <1>7, <1>11, <3>4, <4>1 DEF Still
      <4> QED
        BY <3>1, <3>4, <4>2
    <3> QED
      BY <1>2, <2>1, <3>1, <3>3, <3>4 DEF NoPartialLeft
  <2> QED
    BY <2>1 DEF NoPartialLeft
<1> DEFINE P == {p}
<1>14. \A q \in Procs \ P : /\ Still(q)
                            /\ Staged(q) => frame[q].to \notin strays' /\ part'[Target(q)] = part[Target(q)]
                            /\ pc[q] \in Writing /\ Tracked(q) =>
                                   /\ data'[frame[q].to] = data[frame[q].to]
                                   /\ frame[q].from # 0 => data'[frame[q].from] = data[frame[q].from]
  BY <1>1, <1>7, <1>10
<1>15. made <= made' /\ shown \subseteq shown'
  BY <1>1, <1>2
<1>16. /\ P \in SUBSET Procs
       /\ \A q \in P : Control(q)' /\ Holds(q)' /\ Streamed(q)' /\ (NoMovesAside => Confirmed(q)')
       /\ \A q \in P : Staged(q)' => part'[Target(q)'] = frame'[q].to
  BY <1>7, <1>8
<1>17. \A q \in P : \A r \in Procs \ {q} :
           Staged(q)' \/ Staged(r)' => frame'[q].to # frame'[r].to
  BY <1>3, <1>7, <1>11 DEF Still
<1>18. NoMovesAside /\ P # Procs =>
           \A n \in Names : final'[n] \in {0, final[n]} \/ final'[n] \notin shown
  BY <1>5, <1>6
<1> HIDE DEF P
<1> QED
  BY <1>9, <1>12, <1>13, <1>14, <1>15, <1>16, <1>17, <1>18, StepKeeps

\* The instance has opened file x, which is empty.
LEMMA Opened ==
    ASSUME Inv, NEW p \in Procs, NEW x \in Files, pc[p] = "open_write",
           pc' = [pc EXCEPT ![p] = "stream"],
           frame' = [frame EXCEPT ![p] = [frame[p] EXCEPT !.to = x]],
           UNCHANGED <<job, saw>>,
           data' \in [Files -> Seq(Blocks)], data'[x] = <<>>
    PROVE  /\ pc' \in [Procs -> Stages] /\ job' \in [Procs -> Jobs \cup {None}]
           /\ frame' \in [Procs -> Frames] /\ saw' \in [Procs -> SUBSET Files]
           /\ \A q \in Procs \ {p} : Still(q)
           /\ pc'[p] = "stream" /\ job'[p] = job[p] /\ saw'[p] = saw[p]
           /\ frame'[p].to = x /\ frame'[p].from = frame[p].from
           /\ ~ Staged(p) /\ (Staged(p)' <=> Download(p)) /\ Target(p)' = Target(p)
           /\ Control(p)' /\ Streamed(p)'
<1> DEFINE f == [frame[p] EXCEPT !.to = x]
<1>1. /\ TypeOK /\ Control(p) /\ frame[p] \in Frames /\ job[p] \in Jobs
      /\ pc \in [Procs -> Stages] /\ frame \in [Procs -> Frames]
      /\ job \in [Procs -> Jobs \cup {None}] /\ saw \in [Procs -> SUBSET Files]
      /\ job[p].source \in Sources \cup Paths /\ frame[p].from \in {0} \cup Files
  BY InvFacts, TypesAre
<1>2. /\ f \in Frames /\ f.to = x /\ f.from = frame[p].from /\ f.done = frame[p].done
      /\ f.flushed = frame[p].flushed /\ f.buffer = frame[p].buffer /\ f.ok = frame[p].ok
      /\ f.size = frame[p].size
  BY <1>1 DEF Frames
<1> HIDE DEF f
<1>3. /\ pc' \in [Procs -> Stages] /\ frame' \in [Procs -> Frames]
      /\ pc'[p] = "stream" /\ job'[p] = job[p] /\ saw'[p] = saw[p] /\ frame'[p] = f
      /\ \A q \in Procs \ {p} : Still(q)
  BY <1>1, <1>2 DEF Stages, Still, f
<1>4. /\ ~ Staged(p) /\ (Staged(p)' <=> Download(p)) /\ Target(p)' = Target(p)
      /\ Remote(p)' <=> Remote(p)
  BY <1>3 DEF Staged, Download, Target, Remote
<1>5. /\ frame[p].done = 0 /\ frame[p].flushed = 0 /\ frame[p].buffer = <<>>
      /\ frame[p].ok = FALSE
  BY <1>1 DEF Control, Writing
<1>6. Control(p)'
  BY <1>1, <1>2, <1>3, <1>4, <1>5 DEF Control, Writing, DifferentResources, Download
<1>7. Streamed(p)'
  <2>1. Readable(p)' \in Seq(Blocks)
    <3>1. CASE Remote(p)
      BY <1>3, <1>4, <3>1, ConstantsAssumption DEF Readable, Remote
    <3>2. CASE ~Remote(p)
      <4>1. frame[p].from \in Files
        BY <1>1, <3>2 DEF Control
      <4> QED
        BY <1>2, <1>3, <1>4, <3>2, <4>1 DEF Readable
    <3> QED
      BY <3>1, <3>2
  <2>2. Len(Readable(p)') \in Nat
    BY <2>1, LenProperties
  <2>3. Len(<<>>) = 0
    OBVIOUS
  <2>4. HasFirst(p, frame[p].flushed)'
    BY <1>2, <1>3, <1>5, <2>3 DEF HasFirst
  <2>5. Len(frame'[p].buffer) = 0 /\ frame'[p].flushed = 0 /\ frame'[p].done = 0
    BY <1>2, <1>3, <1>5, <2>3
  <2> QED
    BY <1>3, <2>2, <2>4, <2>5 DEF Streamed
<1> QED
  BY <1>1, <1>2, <1>3, <1>4, <1>6, <1>7

\* A file that is created is none that anybody knows.
LEMMA NewFile ==
    ASSUME Inv, made < MaxFiles, made' = made + 1, NEW d \in Seq(Blocks),
           data' = [data EXCEPT ![made'] = d]
    PROVE  /\ made' \in Files /\ made' # 0 /\ made <= made' /\ made \in Nat /\ made' \in Nat
           /\ made' \notin shown /\ made' \notin strays
           /\ \A n \in Names : /\ final[n] # made' /\ part[n] # made'
                               /\ final[n] <= made' /\ part[n] <= made'
           /\ \A i \in shown \cup strays : i <= made'
           /\ \A q \in Procs : /\ frame[q].to # made' /\ frame[q].from # made'
                               /\ frame[q].from <= made'
                               /\ made' \notin saw[q]
                               /\ frame[q].to \in Files => data'[frame[q].to] = data[frame[q].to]
                               /\ frame[q].from # 0 => data'[frame[q].from] = data[frame[q].from]
           /\ \A i \in Files : i # made' => data'[i] = data[i]
           /\ data' \in [Files -> Seq(Blocks)] /\ data'[made'] = d
<1>1. /\ TypeOK /\ Named /\ \A q \in Procs : Holds(q)
      /\ data \in [Files -> Seq(Blocks)]
  BY DEF Inv, TypeOK
<1>2. /\ made \in Nat /\ MaxFiles \in Nat /\ made' \in Files /\ made' \in Nat /\ made' # 0
      /\ made <= made' /\ ~(made' <= made)
      /\ \A i \in Nat : i <= made => i # made' /\ i <= made'
  BY <1>1, TypesAre, ConstantsAssumption DEF Files
<1>3. /\ \A n \in Names : part[n] \in Nat /\ final[n] \in Nat
      /\ \A q \in Procs : frame[q].to \in Nat /\ frame[q].from \in Nat
      /\ \A i \in shown \cup strays : i \in Nat
  BY <1>1, TypesAre, FilesAre
<1>4. /\ made' \notin shown /\ made' \notin strays
      /\ \A n \in Names : /\ final[n] # made' /\ part[n] # made'
                          /\ final[n] <= made' /\ part[n] <= made'
      /\ \A i \in shown \cup strays : i <= made'
  BY <1>1, <1>2, <1>3 DEF Named
<1>5. \A q \in Procs : /\ frame[q].to # made' /\ frame[q].from # made'
                       /\ frame[q].from <= made'
                       /\ made' \notin saw[q]
  BY <1>1, <1>2, <1>3, <1>4 DEF Holds
<1>6. data' \in [Files -> Seq(Blocks)] /\ data'[made'] = d
  BY <1>1, <1>2
<1>7. \A i \in Files : i # made' => data'[i] = data[i]
  BY <1>1
<1>8. \A q \in Procs : /\ frame[q].to \in Files => data'[frame[q].to] = data[frame[q].to]
                       /\ frame[q].from # 0 => data'[frame[q].from] = data[frame[q].from]
  BY <1>1, <1>5, <1>7, TypesAre
<1> QED
  BY <1>2, <1>4, <1>5, <1>6, <1>7, <1>8

\* It gets one name, which was free.
LEMMA NewName ==
    ASSUME Inv, made < MaxFiles, made' = made + 1, NEW d \in Seq(Blocks),
           data' = [data EXCEPT ![made'] = d], NEW t \in Names,
           strays \subseteq strays', strays' \subseteq strays \cup {made'},
           \/ /\ part[t] = 0 /\ part' = [part EXCEPT ![t] = made']
              /\ UNCHANGED <<final, shown>>
           \/ /\ final[t] = 0 /\ final' = [final EXCEPT ![t] = made']
              /\ shown' = shown \cup {made'} /\ UNCHANGED <<part, strays>>
    PROVE  /\ Named'
           /\ final' \in [Names -> {0} \cup Files] /\ part' \in [Names -> {0} \cup Files]
           /\ shown' \subseteq Files /\ strays' \subseteq Files /\ made' \in {0} \cup Files
           /\ \A n \in Names : final'[n] \in {0, final[n]} \/ final'[n] \notin shown
           /\ \A n \in Names : n # t => final'[n] = final[n] /\ part'[n] = part[n]
           /\ \A n \in Names : part[n] # 0 => part'[n] = part[n]
<1> DEFINE x == made'
<1>1. /\ x \in Files /\ x # 0 /\ x \in Nat /\ x \notin shown /\ x \notin strays
      /\ \A n \in Names : final[n] # x /\ part[n] # x /\ final[n] <= x /\ part[n] <= x
      /\ \A i \in shown \cup strays : i <= x
  BY NewFile
<1>2. /\ TypeOK /\ Named /\ shown \subseteq Files /\ strays \subseteq Files /\ 0 \notin shown
      /\ final \in [Names -> {0} \cup Files] /\ part \in [Names -> {0} \cup Files]
  BY FilesAre DEF Inv, TypeOK
<1>3. x = made' /\ strays' \subseteq strays \cup {x}
  OBVIOUS
<1> HIDE DEF x
<1>4. CASE /\ part[t] = 0 /\ part' = [part EXCEPT ![t] = made']
           /\ UNCHANGED <<final, shown>>
  <2>1. /\ part' \in [Names -> {0} \cup Files] /\ part'[t] = x
        /\ \A n \in Names : n # t => part'[n] = part[n]
    BY <1>1, <1>2, <1>3, <1>4
  <2>2. \A n \in Names : final'[n] <= x /\ part'[n] <= x
    BY <1>1, <1>4, <2>1
  <2>3. \A i \in shown' \cup strays' : i <= x
    BY <1>1, <1>3, <1>4
  <2>4. Named'
    BY <1>1, <1>2, <1>3, <1>4, <2>1, <2>2, <2>3 DEF Named
  <2> QED
    BY <1>1, <1>2, <1>3, <1>4, <2>1, <2>4
<1>5. CASE /\ final[t] = 0 /\ final' = [final EXCEPT ![t] = made']
           /\ shown' = shown \cup {made'} /\ UNCHANGED <<part, strays>>
  <2>1. /\ final' \in [Names -> {0} \cup Files] /\ final'[t] = x
        /\ \A n \in Names : n # t => final'[n] = final[n]
    BY <1>1, <1>2, <1>3, <1>5
  <2>2. \A n \in Names : final'[n] <= x /\ part'[n] <= x
    BY <1>1, <1>5, <2>1
  <2>3. \A i \in shown' \cup strays' : i <= x
    BY <1>1, <1>3, <1>5
  <2>4. Named'
    BY <1>1, <1>2, <1>3, <1>5, <2>1, <2>2, <2>3 DEF Named
  <2> QED
    BY <1>1, <1>2, <1>3, <1>5, <2>1, <2>4
<1> QED
  BY <1>4, <1>5

LEMMA OpenPartialStep ==
    ASSUME Inv, NEW p \in Procs, OpenPartial(p)
    PROVE  Inv'
<1> DEFINE t == Target(p)
<1>1. /\ pc[p] = "open_write" /\ pc' = [pc EXCEPT ![p] = "stream"]
      /\ Download(p) /\ part[t] = 0
      /\ made < MaxFiles /\ made' = made + 1 /\ data' = [data EXCEPT ![made'] = <<>>]
      /\ frame' = [frame EXCEPT ![p] = [frame[p] EXCEPT !.to = made']]
      /\ part' = [part EXCEPT ![t] = made']
      /\ UNCHANGED <<final, job, shown, saw, strays>>
  BY DEF OpenPartial, Goto, PartialIsNew, Create, ghosts
<1>2. <<>> \in Seq(Blocks) /\ t \in Names
  BY <1>1, InvFacts
<1> HIDE DEF t
<1>3. /\ made' \in Files /\ made' # 0 /\ made <= made'
      /\ made' \notin shown /\ made' \notin strays
      /\ made' \in Nat
      /\ \A q \in Procs : /\ frame[q].to # made' /\ frame[q].from # made'
                          /\ frame[q].from <= made'
                          /\ frame[q].to \in Files => data'[frame[q].to] = data[frame[q].to]
                          /\ frame[q].from # 0 => data'[frame[q].from] = data[frame[q].from]
      /\ data' \in [Files -> Seq(Blocks)] /\ data'[made'] = <<>>
  BY <1>1, <1>2, NewFile
<1>4. /\ Named'
      /\ final' \in [Names -> {0} \cup Files] /\ part' \in [Names -> {0} \cup Files]
      /\ shown' \subseteq Files /\ strays' \subseteq Files /\ made' \in {0} \cup Files
      /\ \A n \in Names : final'[n] \in {0, final[n]} \/ final'[n] \notin shown
      /\ \A n \in Names : n # t => part'[n] = part[n]
      /\ \A n \in Names : part[n] # 0 => part'[n] = part[n]
  BY <1>1, <1>2, NewName
<1>5. /\ pc' \in [Procs -> Stages] /\ job' \in [Procs -> Jobs \cup {None}]
      /\ frame' \in [Procs -> Frames] /\ saw' \in [Procs -> SUBSET Files]
      /\ \A q \in Procs \ {p} : Still(q)
      /\ pc'[p] = "stream" /\ job'[p] = job[p] /\ saw'[p] = saw[p]
      /\ frame'[p].to = made' /\ frame'[p].from = frame[p].from
      /\ ~ Staged(p) /\ Staged(p)' /\ Target(p)' = t
      /\ Control(p)' /\ Streamed(p)'
  <2> DEFINE x == made'
  <2>1. /\ x \in Files /\ pc[p] = "open_write" /\ pc' = [pc EXCEPT ![p] = "stream"]
        /\ frame' = [frame EXCEPT ![p] = [frame[p] EXCEPT !.to = x]]
        /\ job' = job /\ saw' = saw
        /\ data' \in [Files -> Seq(Blocks)] /\ data'[x] = <<>> /\ Download(p)
    BY <1>1, <1>3
  <2> HIDE DEF x
  <2>2. /\ pc' \in [Procs -> Stages] /\ job' \in [Procs -> Jobs \cup {None}]
        /\ frame' \in [Procs -> Frames] /\ saw' \in [Procs -> SUBSET Files]
        /\ \A q \in Procs \ {p} : Still(q)
        /\ pc'[p] = "stream" /\ job'[p] = job[p] /\ saw'[p] = saw[p]
        /\ frame'[p].to = x /\ frame'[p].from = frame[p].from
        /\ ~ Staged(p) /\ Staged(p)' /\ Target(p)' = Target(p)
        /\ Control(p)' /\ Streamed(p)'
    BY <2>1, Opened
  <2> QED
    BY <2>2 DEF t, x
<1>6. /\ TypeOK /\ NoPartialLeft /\ \A q \in Procs : Control(q) /\ Holds(q)
      /\ NoMovesAside => Confirmed(p)
  BY DEF Inv, PartialsInOrder
<1>7. part'[t] = made'
  BY <1>1, <1>2, <1>6 DEF TypeOK
<1>8. Holds(p)'
  BY <1>1, <1>3, <1>5, <1>6 DEF Holds
<1>9. ASSUME NoMovesAside PROVE Confirmed(p)'
  BY <1>1, <1>5, <1>6, <1>9 DEF Confirmed, Target, Download
<1>10. TypeOK'
  BY <1>3, <1>4, <1>5 DEF TypeOK
<1>11. ASSUME NEW q \in Procs \ {p}, Staged(q)
       PROVE  frame[q].to \notin strays' /\ part'[Target(q)] = part[Target(q)]
  <2>1. part[Target(q)] # 0 /\ Target(q) \in Names
    BY <1>11, InvFacts, FilesAre DEF Staged
  <2>2. frame[q].to \notin strays
    BY <1>6, <1>11 DEF Holds
  <2> QED
    BY <1>1, <1>4, <2>1, <2>2
<1>12. \A q \in Procs \ {p} : Staged(q)' <=> Staged(q)
  BY <1>5, <1>6, StillKeeps
<1>13. NoPartialLeft'
  <2>1. ASSUME NEW n \in Names, part'[n] # 0
        PROVE  part'[n] \in strays' \/ \E q \in Procs : Staged(q)' /\ frame'[q].to = part'[n]
    <3>1. CASE n = t
      BY <1>5, <1>7, <3>1
    <3>2. CASE n # t
      <4>1. part'[n] = part[n]
        BY <1>4, <3>2
      <4>2. CASE part[n] \in strays
        BY <1>1, <4>1, <4>2
      <4>3. ASSUME NEW q \in Procs, Staged(q), frame[q].to = part[n]
            PROVE  part'[n] \in strays' \/ \E r \in Procs : Staged(r)' /\ frame'[r].to = part'[n]
        <5>1. q # p
          BY <1>5, <4>3
        <5>2. Staged(q)' /\ frame'[q] = frame[q]
          BY <1>5, <1>12, <4>3, <5>1 DEF Still
        <5> QED
          BY <4>1, <4>3, <5>2
      <4> QED
        BY <1>6, <2>1, <4>1, <4>2, <4>3 DEF NoPartialLeft
    <3> QED
      BY <3>1, <3>2
  <2> QED
    BY <2>1 DEF NoPartialLeft
<1> DEFINE P == {p}
<1>14. \A q \in Procs \ P : /\ Still(q)
                            /\ Staged(q) => frame[q].to \notin strays' /\ part'[Target(q)] = part[Target(q)]
                            /\ pc[q] \in Writing /\ Tracked(q) =>
                                   /\ data'[frame[q].to] = data[frame[q].to]
                                   /\ frame[q].from # 0 => data'[frame[q].from] = data[frame[q].from]
  BY <1>3, <1>5, <1>6, <1>11 DEF Control
<1>15. made <= made' /\ shown \subseteq shown'
  BY <1>1, <1>3
<1>16. /\ P \in SUBSET Procs
       /\ \A q \in P : Control(q)' /\ Holds(q)' /\ Streamed(q)' /\ (NoMovesAside => Confirmed(q)')
       /\ \A q \in P : Staged(q)' => part'[Target(q)'] = frame'[q].to
  BY <1>5, <1>7, <1>8, <1>9
<1>17. \A q \in P : \A r \in Procs \ {q} :
           Staged(q)' \/ Staged(r)' => frame'[q].to # frame'[r].to
  BY <1>3, <1>5 DEF Still
<1>18. NoMovesAside /\ P # Procs =>
           \A n \in Names : final'[n] \in {0, final[n]} \/ final'[n] \notin shown
  BY <1>4
<1> HIDE DEF P
<1> QED
  BY <1>4, <1>10, <1>13, <1>14, <1>15, <1>16, <1>17, <1>18, StepKeeps

\* The target is new.
LEMMA CreateTargetStep ==
    ASSUME Inv, NEW p \in Procs, ~Download(p),
           pc[p] = "open_write", pc' = [pc EXCEPT ![p] = "stream"],
           final[Target(p)] = 0, Create(p), final' = [final EXCEPT ![Target(p)] = made'],
           shown' = shown \cup {made'}, UNCHANGED <<part, job, saw, strays>>
    PROVE  Inv'
<1> DEFINE t == Target(p)
<1>1. /\ made < MaxFiles /\ made' = made + 1 /\ data' = [data EXCEPT ![made'] = <<>>]
      /\ frame' = [frame EXCEPT ![p] = [frame[p] EXCEPT !.to = made']]
      /\ final[t] = 0 /\ final' = [final EXCEPT ![t] = made']
  BY DEF Create
<1>2. <<>> \in Seq(Blocks) /\ t \in Names
  BY InvFacts
<1> HIDE DEF t
<1>3. /\ made' \in Files /\ made' # 0 /\ made <= made'
      /\ made' \notin shown /\ made' \notin strays
      /\ made' \in Nat
      /\ \A n \in Names : final[n] # made'
      /\ \A q \in Procs : /\ frame[q].to # made' /\ frame[q].from # made'
                          /\ frame[q].from <= made' /\ made' \notin saw[q]
                          /\ frame[q].to \in Files => data'[frame[q].to] = data[frame[q].to]
                          /\ frame[q].from # 0 => data'[frame[q].from] = data[frame[q].from]
      /\ data' \in [Files -> Seq(Blocks)] /\ data'[made'] = <<>>
  BY <1>1, <1>2, NewFile
<1>4. /\ Named'
      /\ final' \in [Names -> {0} \cup Files] /\ part' \in [Names -> {0} \cup Files]
      /\ shown' \subseteq Files /\ strays' \subseteq Files /\ made' \in {0} \cup Files
      /\ \A n \in Names : final'[n] \in {0, final[n]} \/ final'[n] \notin shown
      /\ \A n \in Names : n # t => final'[n] = final[n]
  BY <1>1, <1>2, NewName
<1>5. /\ pc' \in [Procs -> Stages] /\ job' \in [Procs -> Jobs \cup {None}]
      /\ frame' \in [Procs -> Frames] /\ saw' \in [Procs -> SUBSET Files]
      /\ \A q \in Procs \ {p} : Still(q)
      /\ pc'[p] = "stream" /\ job'[p] = job[p] /\ saw'[p] = saw[p]
      /\ frame'[p].to = made' /\ frame'[p].from = frame[p].from
      /\ ~ Staged(p) /\ ~ Staged(p)' /\ Target(p)' = t
      /\ Control(p)' /\ Streamed(p)'
  <2> DEFINE x == made'
  <2>1. /\ x \in Files /\ pc[p] = "open_write" /\ pc' = [pc EXCEPT ![p] = "stream"]
        /\ frame' = [frame EXCEPT ![p] = [frame[p] EXCEPT !.to = x]]
        /\ job' = job /\ saw' = saw
        /\ data' \in [Files -> Seq(Blocks)] /\ data'[x] = <<>> /\ ~Download(p)
    BY <1>1, <1>3
  <2> HIDE DEF x
  <2>2. /\ pc' \in [Procs -> Stages] /\ job' \in [Procs -> Jobs \cup {None}]
        /\ frame' \in [Procs -> Frames] /\ saw' \in [Procs -> SUBSET Files]
        /\ \A q \in Procs \ {p} : Still(q)
        /\ pc'[p] = "stream" /\ job'[p] = job[p] /\ saw'[p] = saw[p]
        /\ frame'[p].to = x /\ frame'[p].from = frame[p].from
        /\ ~ Staged(p) /\ ~ Staged(p)' /\ Target(p)' = Target(p)
        /\ Control(p)' /\ Streamed(p)'
    BY <2>1, Opened
  <2> QED
    BY <2>2 DEF t, x
<1>6. /\ TypeOK /\ Named /\ NoPartialLeft /\ \A q \in Procs : Control(q) /\ Holds(q)
      /\ NoMovesAside => Confirmed(p)
  BY DEF Inv, PartialsInOrder
<1>7. final'[t] = made'
  BY <1>1, <1>2, <1>6 DEF TypeOK
<1>8. Holds(p)'
  BY <1>3, <1>5, <1>6 DEF Holds
<1>9. ASSUME NoMovesAside PROVE Confirmed(p)'
  <2>1. ~job[p].overwrite => final'[t] \notin saw[p]
    BY <1>3, <1>7
  <2>2. \A n \in Names : final'[n] = made' => n = t
    BY <1>3, <1>4
  <2>3. frame[p].from # 0 =>
            \A n \in Names : final'[n] = frame[p].from => n = NameOf[job[p].source]
    BY <1>3, <1>4, <1>6, <1>7, <1>9 DEF Confirmed
  <2> QED
    BY <1>3, <1>5, <2>1, <2>2, <2>3 DEF Confirmed
<1>10. TypeOK'
  BY <1>3, <1>4, <1>5 DEF TypeOK
<1>11. \A q \in Procs \ {p} : Staged(q)' <=> Staged(q)
  BY <1>5, <1>6, StillKeeps
<1>12. NoPartialLeft'
  <2>1. ASSUME NEW q \in Procs, Staged(q)
        PROVE  Staged(q)' /\ frame'[q].to = frame[q].to
    BY <1>5, <1>11, <2>1 DEF Still
  <2> QED
    BY <1>6, <2>1 DEF NoPartialLeft
<1> DEFINE P == {p}
<1>13. \A q \in Procs \ P : /\ Still(q)
                            /\ Staged(q) => frame[q].to \notin strays' /\ part'[Target(q)] = part[Target(q)]
                            /\ pc[q] \in Writing /\ Tracked(q) =>
                                   /\ data'[frame[q].to] = data[frame[q].to]
                                   /\ frame[q].from # 0 => data'[frame[q].from] = data[frame[q].from]
  BY <1>3, <1>5, <1>6 DEF Control, Holds
<1>14. made <= made' /\ shown \subseteq shown'
  BY <1>3
<1>15. /\ P \in SUBSET Procs
       /\ \A q \in P : Control(q)' /\ Holds(q)' /\ Streamed(q)' /\ (NoMovesAside => Confirmed(q)')
       /\ \A q \in P : Staged(q)' => part'[Target(q)'] = frame'[q].to
  BY <1>5, <1>8, <1>9
<1>16. \A q \in P : \A r \in Procs \ {q} :
           Staged(q)' \/ Staged(r)' => frame'[q].to # frame'[r].to
  BY <1>3, <1>5 DEF Still
<1>17. NoMovesAside /\ P # Procs =>
           \A n \in Names : final'[n] \in {0, final[n]} \/ final'[n] \notin shown
  BY <1>4
<1> HIDE DEF P
<1> QED
  BY <1>4, <1>10, <1>12, <1>13, <1>14, <1>15, <1>16, <1>17, StepKeeps

\* The target was there, and is emptied.
LEMMA TruncateTargetStep ==
    ASSUME Inv, NEW p \in Procs, ~Download(p),
           pc[p] = "open_write", pc' = [pc EXCEPT ![p] = "stream"],
           NEW x, x = final[Target(p)], x # 0, job[p].overwrite,
           data' = [data EXCEPT ![x] = <<>>],
           frame' = [frame EXCEPT ![p] = [frame[p] EXCEPT !.to = x]],
           UNCHANGED <<final, part, made, job, shown, saw, strays>>
    PROVE  Inv'
<1>1. /\ <<>> \in Seq(Blocks)
      /\ UNCHANGED <<job, saw>>
  OBVIOUS
<1>2. /\ TypeOK /\ Named /\ PartialIsPrivate /\ Control(p) /\ Holds(p)
      /\ (NoMovesAside => Confirmed(p)) /\ data \in [Files -> Seq(Blocks)]
      /\ Target(p) \in Names
  BY InvFacts DEF TypeOK
<1>3. /\ x \in Files /\ x \in shown /\ x <= made
      /\ \A n \in Names : final[n] = x => n = Target(p)
      /\ \A q \in Procs : Staged(q) => frame[q].to # x
  BY <1>2 DEF TypeOK, Named, PartialIsPrivate
<1>4. /\ data' \in [Files -> Seq(Blocks)] /\ data'[x] = <<>>
      /\ \A i \in Files : i # x => data'[i] = data[i]
  BY <1>1, <1>2, <1>3
<1>5. /\ pc' \in [Procs -> Stages] /\ job' \in [Procs -> Jobs \cup {None}]
      /\ frame' \in [Procs -> Frames] /\ saw' \in [Procs -> SUBSET Files]
      /\ \A q \in Procs \ {p} : Still(q)
      /\ pc'[p] = "stream" /\ job'[p] = job[p] /\ saw'[p] = saw[p]
      /\ frame'[p].to = x /\ frame'[p].from = frame[p].from
      /\ ~ Staged(p) /\ ~ Staged(p)' /\ Target(p)' = Target(p)
      /\ Control(p)' /\ Streamed(p)'
  BY <1>1, <1>3, <1>4, Opened
<1>6. TypeOK'
  BY <1>2, <1>4, <1>5 DEF TypeOK
<1>7. Holds(p)'
  BY <1>2, <1>3, <1>5 DEF Holds
<1>8. NoMovesAside => Confirmed(p)'
  BY <1>2, <1>3, <1>5 DEF Confirmed
<1>9. /\ \A q \in Procs \ {p} : Still(q) /\ (Staged(q) => frame[q].to # x)
      /\ frame'[p].to \in {0, frame[p].to} \cup shown
      /\ \A i \in Files : i # x => data'[i] = data[i]
      /\ UNCHANGED <<final, part, made, shown, strays>>
      /\ Staged(p)' <=> Staged(p)
      /\ Staged(p) => frame'[p].to = frame[p].to /\ Target(p)' = Target(p)
      /\ Control(p)' /\ Holds(p)' /\ Streamed(p)'
  BY <1>3, <1>4, <1>5, <1>7
<1> QED
  BY <1>6, <1>8, <1>9, WriteKeeps

LEMMA OpenTargetStep ==
    ASSUME Inv, NEW p \in Procs, OpenTarget(p)
    PROVE  Inv'
<1>1. /\ pc[p] = "open_write" /\ pc' = [pc EXCEPT ![p] = "stream"] /\ ~Download(p)
      /\ UNCHANGED <<part, job, saw, strays>>
  BY DEF OpenTarget, Goto
<1>2. \/ /\ final[Target(p)] = 0 /\ Create(p)
         /\ final' = [final EXCEPT ![Target(p)] = made'] /\ shown' = shown \cup {made'}
      \/ /\ final[Target(p)] # 0 /\ job[p].overwrite
         /\ data' = [data EXCEPT ![final[Target(p)]] = <<>>]
         /\ frame' = [frame EXCEPT ![p].to = final[Target(p)]]
         /\ UNCHANGED <<final, made, shown>>
  BY DEF OpenTarget
<1>3. CASE /\ final[Target(p)] = 0 /\ Create(p)
           /\ final' = [final EXCEPT ![Target(p)] = made'] /\ shown' = shown \cup {made'}
  BY <1>1, <1>3, CreateTargetStep
<1>4. CASE /\ final[Target(p)] # 0 /\ job[p].overwrite
           /\ data' = [data EXCEPT ![final[Target(p)]] = <<>>]
           /\ frame' = [frame EXCEPT ![p].to = final[Target(p)]]
           /\ UNCHANGED <<final, made, shown>>
  <2> DEFINE x == final[Target(p)]
  <2>1. /\ x = final[Target(p)] /\ x # 0 /\ job[p].overwrite
        /\ data' = [data EXCEPT ![x] = <<>>]
        /\ frame' = [frame EXCEPT ![p] = [frame[p] EXCEPT !.to = x]]
        /\ UNCHANGED <<final, part, made, job, shown, saw, strays>>
    BY <1>1, <1>4
  <2> HIDE DEF x
  <2> QED
    BY <1>1, <2>1, TruncateTargetStep
<1> QED
  BY <1>2, <1>3, <1>4

LEMMA ForeignFileStep ==
    ASSUME Inv, NEW n \in Names, NEW partial \in BOOLEAN, ForeignFile(n, partial)
    PROVE  Inv'
<1>1. /\ made < MaxFiles /\ made' = made + 1 /\ data' = [data EXCEPT ![made'] = <<Foreign>>]
      /\ UNCHANGED <<job, pc, frame, saw>>
      /\ \/ /\ part[n] = 0 /\ part' = [part EXCEPT ![n] = made']
            /\ UNCHANGED <<final, shown>>
         \/ /\ final[n] = 0 /\ final' = [final EXCEPT ![n] = made']
            /\ shown' = shown \cup {made'} /\ UNCHANGED <<part, strays>>
      /\ strays' \in {strays, strays \cup {made'}}
      /\ part' # part => strays' = strays \cup {made'}
  BY DEF ForeignFile
<1>2. <<Foreign>> \in Seq(Blocks)
  <2>1. Foreign \in Blocks
    BY DEF Blocks
  <2> QED
    BY <2>1
<1> DEFINE d == <<Foreign>>
<1>3. d \in Seq(Blocks) /\ data' = [data EXCEPT ![made'] = d]
  BY <1>1, <1>2
<1> HIDE DEF d
<1>4. /\ made' \in Files /\ made' # 0 /\ made <= made' /\ made' \notin strays
      /\ \A q \in Procs : /\ frame[q].to # made'
                          /\ frame[q].to \in Files => data'[frame[q].to] = data[frame[q].to]
                          /\ frame[q].from # 0 => data'[frame[q].from] = data[frame[q].from]
      /\ data' \in [Files -> Seq(Blocks)]
  BY <1>1, <1>3, NewFile
<1>5. strays \subseteq strays' /\ strays' \subseteq strays \cup {made'} /\ shown \subseteq shown'
  BY <1>1
<1>6. /\ Named'
      /\ final' \in [Names -> {0} \cup Files] /\ part' \in [Names -> {0} \cup Files]
      /\ shown' \subseteq Files /\ strays' \subseteq Files /\ made' \in {0} \cup Files
      /\ \A m \in Names : final'[m] \in {0, final[m]} \/ final'[m] \notin shown
      /\ \A m \in Names : m # n => part'[m] = part[m]
      /\ \A m \in Names : part[m] # 0 => part'[m] = part[m]
  BY <1>1, <1>3, <1>5, NewName
<1>7. /\ TypeOK /\ NoPartialLeft /\ \A q \in Procs : Control(q) /\ Holds(q)
  BY DEF Inv, PartialsInOrder
<1>8. TypeOK'
  BY <1>1, <1>4, <1>6, <1>7 DEF TypeOK
<1>9. \A q \in Procs : Still(q) /\ (Staged(q)' <=> Staged(q))
  BY <1>1, <1>7, StillKeeps DEF Still
<1>10. ASSUME NEW q \in Procs, Staged(q)
       PROVE  frame[q].to \notin strays' /\ part'[Target(q)] = part[Target(q)]
  <2>1. part[Target(q)] # 0 /\ Target(q) \in Names
    BY <1>10, InvFacts, FilesAre DEF Staged
  <2>2. frame[q].to \notin strays
    BY <1>7, <1>10 DEF Holds
  <2> QED
    BY <1>4, <1>5, <1>6, <2>1, <2>2
<1>11. NoPartialLeft'
  <2>1. ASSUME NEW m \in Names, part'[m] # 0
        PROVE  part'[m] \in strays' \/ \E q \in Procs : Staged(q)' /\ frame'[q].to = part'[m]
    <3>1. CASE part'[m] = part[m]
      <4>1. CASE part[m] \in strays
        BY <1>5, <3>1, <4>1
      <4>2. ASSUME NEW q \in Procs, Staged(q), frame[q].to = part[m]
            PROVE  part'[m] \in strays' \/ \E r \in Procs : Staged(r)' /\ frame'[r].to = part'[m]
        BY <1>1, <1>9, <3>1, <4>2
      <4> QED
        BY <1>7, <2>1, <3>1, <4>1, <4>2 DEF NoPartialLeft
    <3>2. CASE part'[m] # part[m]
      <4>1. part'[m] = made' /\ strays' = strays \cup {made'}
        BY <1>1, <1>6, <1>7, <3>2 DEF TypeOK
      <4> QED
        BY <4>1
    <3> QED
      BY <3>1, <3>2
  <2> QED
    BY <2>1 DEF NoPartialLeft
<1> DEFINE P == {}
<1>12. \A q \in Procs \ P : /\ Still(q)
                            /\ Staged(q) => frame[q].to \notin strays' /\ part'[Target(q)] = part[Target(q)]
                            /\ pc[q] \in Writing /\ Tracked(q) =>
                                   /\ data'[frame[q].to] = data[frame[q].to]
                                   /\ frame[q].from # 0 => data'[frame[q].from] = data[frame[q].from]
  BY <1>4, <1>7, <1>9, <1>10 DEF Control
<1>13. /\ P \in SUBSET Procs
       /\ \A q \in P : Control(q)' /\ Holds(q)' /\ Streamed(q)' /\ (NoMovesAside => Confirmed(q)')
       /\ \A q \in P : Staged(q)' => part'[Target(q)'] = frame'[q].to
  OBVIOUS
<1>14. \A q \in P : \A r \in Procs \ {q} :
           Staged(q)' \/ Staged(r)' => frame'[q].to # frame'[r].to
  OBVIOUS
<1>15. NoMovesAside /\ P # Procs =>
           \A m \in Names : final'[m] \in {0, final[m]} \/ final'[m] \notin shown
  BY <1>6
<1> HIDE DEF P
<1> QED
  BY <1>4, <1>5, <1>6, <1>8, <1>11, <1>12, <1>13, <1>14, <1>15, StepKeeps

LEMMA MoveStep ==
    ASSUME Inv, NEW p \in Procs, NEW source \in Paths, NEW target \in Paths,
           Move(p, source, target)
    PROVE  Inv'
<1> DEFINE s == NameOf[source]
           t == NameOf[target]
<1>1. /\ "move" \in Kinds /\ pc[p] = "idle" /\ final[s] # 0 /\ s # t
      /\ final' = [final EXCEPT ![s] = 0, ![t] = final[s]]
      /\ UNCHANGED <<part, data, made, job, pc, frame, shown, saw, strays>>
  BY DEF Move, ghosts
<1>2. s \in Names /\ t \in Names
  BY ConstantsAssumption
<1> HIDE DEF s, t
<1>3. /\ TypeOK /\ Named /\ NoPartialLeft
      /\ \A q \in Procs : Control(q) /\ Holds(q) /\ Streamed(q) /\ Still(q)
      /\ final \in [Names -> {0} \cup Files] /\ made \in Nat
  BY <1>1, TypesAre DEF Inv, PartialsInOrder, Still, TypeOK
<1>4. /\ final' \in [Names -> {0} \cup Files] /\ final'[s] = 0 /\ final'[t] = final[s]
      /\ \A n \in Names : n # s /\ n # t => final'[n] = final[n]
  BY <1>1, <1>2, <1>3
<1>5. TypeOK'
  BY <1>1, <1>3, <1>4 DEF TypeOK
<1>6. Named'
  <2>1. /\ \A n \in Names : final'[n] <= made' /\ part'[n] <= made'
        /\ \A i \in shown' \cup strays' : i <= made'
    BY <1>1, <1>2, <1>3, <1>4 DEF Named
  <2>2. /\ \A m, n \in Names : final'[m] = final'[n] /\ final'[m] # 0 => m = n
        /\ \A m, n \in Names : part'[m] = part'[n] /\ part'[m] # 0 => m = n
    BY <1>1, <1>2, <1>3, <1>4 DEF Named
  <2>3. \A n \in Names : (final'[n] # 0 => final'[n] \in shown') /\ part'[n] \notin shown'
    BY <1>1, <1>2, <1>3, <1>4 DEF Named
  <2> QED
    BY <2>1, <2>2, <2>3 DEF Named
<1>7. \A q \in Procs : /\ Staged(q)' <=> Staged(q)
                       /\ Target(q)' = Target(q) /\ frame'[q].to = frame[q].to
  BY <1>3, StillKeeps
<1>8. NoPartialLeft'
  BY <1>1, <1>3, <1>7 DEF NoPartialLeft
<1>9. ~ Staged(p) /\ ~ Staged(p)'
  BY <1>1, <1>7 DEF Staged
<1>10. Control(p)' /\ Holds(p)' /\ Streamed(p)' /\ Confirmed(p)'
  <2>1. Control(p)' /\ Confirmed(p)'
    BY <1>1, <1>3, StillKeeps DEF Confirmed
  <2>2. Holds(p)'
    BY <1>1, <1>3, <1>9 DEF Holds
  <2>3. Streamed(p)'
    BY <1>1 DEF Streamed, Writing
  <2> QED
    BY <2>1, <2>2, <2>3
<1> DEFINE P == {p}
<1>11. \A q \in Procs \ P : /\ Still(q)
                            /\ Staged(q) => frame[q].to \notin strays' /\ part'[Target(q)] = part[Target(q)]
                            /\ pc[q] \in Writing /\ Tracked(q) =>
                                   /\ data'[frame[q].to] = data[frame[q].to]
                                   /\ frame[q].from # 0 => data'[frame[q].from] = data[frame[q].from]
  BY <1>1, <1>3 DEF Holds
<1>12. made <= made' /\ shown \subseteq shown'
  BY <1>1, <1>3
<1>13. /\ P \in SUBSET Procs
       /\ \A q \in P : Control(q)' /\ Holds(q)' /\ Streamed(q)' /\ (NoMovesAside => Confirmed(q)')
       /\ \A q \in P : Staged(q)' => part'[Target(q)'] = frame'[q].to
  BY <1>9, <1>10
<1>14. \A q \in P : \A r \in Procs \ {q} :
           Staged(q)' \/ Staged(r)' => frame'[q].to # frame'[r].to
  <2>1. \A r \in Procs : Staged(r) => frame[r].to # 0
    BY InvFacts, FilesAre
  <2>2. frame[p].to = 0
    BY <1>1, <1>3 DEF Control, Writing
  <2> QED
    BY <1>7, <1>9, <2>1, <2>2
\* Another instance would be one aside.
<1>15. NoMovesAside /\ P # Procs =>
           \A n \in Names : final'[n] \in {0, final[n]} \/ final'[n] \notin shown
  BY <1>1 DEF NoMovesAside, Alone
<1> HIDE DEF P
<1> QED
  BY <1>5, <1>6, <1>8, <1>11, <1>12, <1>13, <1>14, <1>15, StepKeeps

-----------------------------------------------------------------------------
(* Every step, and the result.                                              *)

LEMMA InitInv == Init => Inv
<1> SUFFICES ASSUME Init PROVE Inv
  OBVIOUS
<1>1. TypeOK
  <2>1. MaxFiles \in Nat /\ \A i \in Files : <<>> \in Seq(Blocks)
    BY ConstantsAssumption
  <2> QED
    BY <2>1, EmptyFrameIs DEF Init, TypeOK, Stages
<1>2. Named
  BY DEF Init, Named
<1>3. \A p \in Procs : pc[p] = "idle" /\ frame[p] = EmptyFrame /\ saw[p] = {} /\ ~ Staged(p)
  BY DEF Init, Staged
<1>4. PartialsInOrder
  BY <1>3 DEF Init, PartialsInOrder, PartialIsPrivate, NoPartialLeft
<1>5. ASSUME NEW p \in Procs
      PROVE  Control(p) /\ Holds(p) /\ Streamed(p) /\ Confirmed(p)
  <2>1. made = 0
    BY DEF Init
  <2> QED
    BY <1>3, <2>1, EmptyFrameIs DEF Control, Holds, Streamed, Confirmed, Writing
<1> QED
  BY <1>1, <1>2, <1>4, <1>5 DEF Inv

LEMMA IdleStep ==
    ASSUME Inv, UNCHANGED vars
    PROVE  Inv'
<1>1. /\ UNCHANGED <<final, part, data, made, job, pc, frame, shown, saw, strays>>
      /\ TypeOK /\ Named /\ NoPartialLeft /\ \A q \in Procs : Control(q) /\ Holds(q)
      /\ made \in Nat
  BY TypesAre DEF vars, directory, ghosts, Inv, PartialsInOrder
<1>2. TypeOK' /\ Named'
  BY <1>1 DEF TypeOK, Named
<1>3. \A q \in Procs : Still(q) /\ (Staged(q)' <=> Staged(q))
  BY <1>1, StillKeeps DEF Still
<1>4. NoPartialLeft'
  BY <1>1, <1>3 DEF NoPartialLeft
<1> DEFINE P == {}
<1>5. /\ P \in SUBSET Procs
      /\ \A q \in P : Control(q)' /\ Holds(q)' /\ Streamed(q)' /\ (NoMovesAside => Confirmed(q)')
      /\ \A q \in P : Staged(q)' => part'[Target(q)'] = frame'[q].to
      /\ \A q \in P : \A r \in Procs \ {q} :
             Staged(q)' \/ Staged(r)' => frame'[q].to # frame'[r].to
      /\ \A q \in Procs \ P : /\ Still(q)
                              /\ Staged(q) => frame[q].to \notin strays' /\ part'[Target(q)] = part[Target(q)]
                              /\ pc[q] \in Writing /\ Tracked(q) =>
                                     /\ data'[frame[q].to] = data[frame[q].to]
                                     /\ frame[q].from # 0 => data'[frame[q].from] = data[frame[q].from]
      /\ NoMovesAside /\ P # Procs =>
             \A n \in Names : final'[n] \in {0, final[n]} \/ final'[n] \notin shown
  BY <1>1, <1>3 DEF Holds
<1>6. made <= made' /\ shown \subseteq shown'
  BY <1>1
<1> HIDE DEF P
<1> QED
  BY <1>2, <1>4, <1>5, <1>6, StepKeeps

LEMMA NextInv == Inv /\ [Next]_vars => Inv'
<1> SUFFICES ASSUME Inv, [Next]_vars PROVE Inv'
  OBVIOUS
<1>1. ASSUME NEW p \in Procs, Copying(p)
      PROVE  Inv'
  <2>1. CASE \E source, target \in Paths : Move(p, source, target)
    BY <2>1, MoveStep
  <2>2. CASE \E kind \in Kinds \ {"move"}, source \in Sources \cup Paths, target \in Paths :
                 Choose(p, kind, source, target)
    BY <2>2, ChooseStep
  <2>3. CASE \E known \in BOOLEAN : Begin(p, known)
    BY <2>3, BeginStep
  <2>4. CASE OpenRead(p) \/ OpenPartial(p) \/ OpenTarget(p) \/ Abandon(p)
    BY <2>4, OpenReadStep, OpenPartialStep, OpenTargetStep, AbandonStep
  <2>5. CASE \E flush \in BOOLEAN : Stream(p, flush)
    BY <2>5, StreamStep
  <2>6. CASE EndOfSource(p) \/ Break(p)
    BY <2>6, EndOfSourceStep, BreakStep
  <2>7. CASE \E flush, closed \in BOOLEAN : Close(p, flush, closed)
    BY <2>7, CloseStep
  <2>8. CASE RenamePartial(p) \/ RenameFails(p)
    BY <2>8, RenamePartialStep, RenameFailsStep
  <2>9. CASE \E works \in BOOLEAN : CleanUp(p, works)
    BY <2>9, CleanUpStep
  <2> QED
    BY <1>1, <2>1, <2>2, <2>3, <2>4, <2>5, <2>6, <2>7, <2>8, <2>9 DEF Copying
<1>2. ASSUME NEW p \in Procs, Crash(p)
      PROVE  Inv'
  BY <1>2, CrashStep
<1>3. ASSUME NEW n \in Names, NEW partial \in BOOLEAN, ForeignFile(n, partial)
      PROVE  Inv'
  BY <1>3, ForeignFileStep
<1>4. CASE UNCHANGED vars
  BY <1>4, IdleStep
<1> QED
  BY <1>1, <1>2, <1>3, <1>4 DEF Next

LEMMA InvHolds == Spec => []Inv
BY InitInv, NextInv, PTL DEF Spec

\* Every variable of the copy engine keeps its type.
THEOREM TypeCorrect == Spec => []TypeOK
<1>1. Inv => TypeOK
  BY DEF Inv
<1> QED
  BY <1>1, InvHolds, PTL

\* From its creation to its rename or removal the partial file of a download
\* is its own, whatever other instances, crashes and foreign programs do, and
\* none is left but by a crash, a failed removal or somebody else.
THEOREM PartialsStayInOrder == Spec => []PartialsInOrder
<1>1. Inv => PartialsInOrder
  BY DEF Inv
<1> QED
  BY <1>1, InvHolds, PTL

-----------------------------------------------------------------------------
(* What a step may change.                                                  *)

\* Only an open file is written, or emptied as it is opened.
LEMMA FilesWritten ==
    ASSUME Inv, [Next]_vars, NEW i \in Files, i <= made, data'[i] # data[i]
    PROVE  \E p \in Procs :
               \/ pc[p] \in {"stream", "close"} /\ i = frame[p].to
               \/ pc[p] = "open_write" /\ ~Download(p) /\ job[p].overwrite /\ i = final[Target(p)]
<1>1. data \in [Files -> Seq(Blocks)] /\ made \in Nat /\ i \in Nat
  BY TypesAre, FilesAre DEF Inv, TypeOK
<1>2. ~ UNCHANGED data
  OBVIOUS
<1>3. i # made + 1
  BY <1>1
<1>4. ASSUME NEW d, made' = made + 1, data' = [data EXCEPT ![made'] = d]
      PROVE  FALSE
  BY <1>1, <1>3, <1>4
<1>5. ASSUME NEW p \in Procs, NEW bs, Flush(p, bs)
      PROVE  i = frame[p].to
  BY <1>1, <1>5 DEF Flush
<1>6. ASSUME NEW p \in Procs, NEW flush, Stream(p, flush)
      PROVE  pc[p] \in {"stream", "close"} /\ i = frame[p].to
  BY <1>2, <1>5, <1>6 DEF Stream, Goto
<1>7. ASSUME NEW p \in Procs, NEW flush, NEW closed, Close(p, flush, closed)
      PROVE  pc[p] \in {"stream", "close"} /\ i = frame[p].to
  BY <1>2, <1>5, <1>7 DEF Close
<1>8. ASSUME NEW p \in Procs, OpenTarget(p)
      PROVE  pc[p] = "open_write" /\ ~Download(p) /\ job[p].overwrite /\ i = final[Target(p)]
  <2>1. ~ Create(p)
    BY <1>4 DEF Create
  <2>2. job[p].overwrite /\ data' = [data EXCEPT ![final[Target(p)]] = <<>>]
    BY <1>8, <2>1 DEF OpenTarget
  <2>3. i = final[Target(p)]
    BY <1>1, <2>2
  <2> QED
    BY <1>8, <2>2, <2>3 DEF OpenTarget, Goto
<1>9. ASSUME NEW p \in Procs, Copying(p)
      PROVE  \/ pc[p] \in {"stream", "close"} /\ i = frame[p].to
             \/ pc[p] = "open_write" /\ ~Download(p) /\ job[p].overwrite /\ i = final[Target(p)]
  <2>1. /\ \A source, target \in Paths : ~ Move(p, source, target)
        /\ \A kind, source, target : ~ Choose(p, kind, source, target)
        /\ \A known : ~ Begin(p, known)
        /\ ~ OpenRead(p) /\ ~ Abandon(p) /\ ~ EndOfSource(p) /\ ~ Break(p)
        /\ ~ RenamePartial(p) /\ ~ RenameFails(p)
        /\ \A works : ~ CleanUp(p, works)
    BY <1>2 DEF Move, Choose, Begin, OpenRead, Abandon, EndOfSource, Break, RenamePartial,
                RenameFails, CleanUp, directory
  <2>2. ~ OpenPartial(p)
    BY <1>4 DEF OpenPartial, Create
  <2>3. \/ OpenTarget(p) \/ \E flush \in BOOLEAN : Stream(p, flush)
        \/ \E flush, closed \in BOOLEAN : Close(p, flush, closed)
    BY <1>9, <2>1, <2>2 DEF Copying
  <2> QED
    BY <1>6, <1>7, <1>8, <2>3
<1>10. \A p \in Procs : ~ Crash(p)
  BY <1>2 DEF Crash, directory
<1>11. \A n \in Names, partial \in BOOLEAN : ~ ForeignFile(n, partial)
  BY <1>4 DEF ForeignFile
<1>12. ~ UNCHANGED vars
  BY <1>2 DEF vars, directory
<1> QED
  BY <1>9, <1>10, <1>11, <1>12 DEF Next

\* Only who renames or removes it, or a Move, takes a name from a file.
LEMMA NamesTaken ==
    ASSUME Inv, [Next]_vars, NEW n \in Names
    PROVE  /\ part[n] # 0 /\ part'[n] # part[n] =>
                  \E p \in Procs : pc[p] \in {"rename", "remove"} /\ Download(p) /\ n = Target(p)
           /\ final[n] # 0 /\ final'[n] # final[n] =>
                  \/ \E p \in Procs, source, target \in Paths : Move(p, source, target)
                  \/ \E p \in Procs : pc[p] \in {"rename", "remove"} /\ n = Target(p)
<1> DEFINE PartGoes == \E p \in Procs : pc[p] \in {"rename", "remove"} /\ Download(p) /\ n = Target(p)
           FinalGoes == \E p \in Procs : pc[p] \in {"rename", "remove"} /\ n = Target(p)
           Moves == \E p \in Procs, source, target \in Paths : Move(p, source, target)
           Kept == /\ part[n] # 0 /\ part'[n] # part[n] => PartGoes
                   /\ final[n] # 0 /\ final'[n] # final[n] => Moves \/ FinalGoes
<1>1. /\ final \in [Names -> {0} \cup Files] /\ part \in [Names -> {0} \cup Files]
      /\ \A p \in Procs : Control(p)
  BY DEF Inv, TypeOK
<1>2. ASSUME UNCHANGED <<final, part>> PROVE Kept
  BY <1>2
<1>3. ASSUME NEW p \in Procs, RenamePartial(p) PROVE Kept
  <2>1. pc[p] = "rename" /\ Download(p)
    BY <1>1, <1>3 DEF RenamePartial, Control
  <2>2. /\ part'[n] # part[n] => n = Target(p)
        /\ final'[n] # final[n] => n = Target(p)
    BY <1>1, <1>3 DEF RenamePartial
  <2> QED
    BY <2>1, <2>2
<1>4. ASSUME NEW p \in Procs, NEW works, CleanUp(p, works) PROVE Kept
  <2>1. /\ pc[p] = "remove"
        /\ part'[n] # part[n] => Download(p) /\ n = Target(p)
        /\ final'[n] # final[n] => n = Target(p)
    BY <1>1, <1>4 DEF CleanUp, Removed
  <2> QED
    BY <2>1
<1>5. ASSUME NEW p \in Procs, OpenPartial(p) PROVE Kept
  <2>1. /\ part[n] # 0 => part'[n] = part[n]
        /\ final' = final
    BY <1>1, <1>5 DEF OpenPartial, PartialIsNew
  <2> QED
    BY <2>1
<1>6. ASSUME NEW p \in Procs, OpenTarget(p) PROVE Kept
  <2>1. /\ part' = part
        /\ final[n] # 0 => final'[n] = final[n]
    BY <1>1, <1>6 DEF OpenTarget
  <2> QED
    BY <2>1
<1>7. ASSUME NEW m \in Names, NEW partial, ForeignFile(m, partial) PROVE Kept
  <2>1. /\ part[n] # 0 => part'[n] = part[n]
        /\ final[n] # 0 => final'[n] = final[n]
    BY <1>1, <1>7 DEF ForeignFile
  <2> QED
    BY <2>1
<1>8. ASSUME NEW p \in Procs, NEW source \in Paths, NEW target \in Paths, Move(p, source, target)
      PROVE  Kept
  <2>1. part' = part /\ Moves
    BY <1>8 DEF Move
  <2> HIDE DEF Moves
  <2> QED
    BY <2>1
<1> HIDE DEF Kept
<1>9. ASSUME NEW p \in Procs, Copying(p) PROVE Kept
  <2>1. CASE \/ \E kind \in Kinds \ {"move"}, source \in Sources \cup Paths, target \in Paths :
                    Choose(p, kind, source, target)
             \/ \E known \in BOOLEAN : Begin(p, known)
             \/ OpenRead(p) \/ Abandon(p) \/ EndOfSource(p) \/ Break(p) \/ RenameFails(p)
             \/ \E flush \in BOOLEAN : Stream(p, flush)
             \/ \E flush, closed \in BOOLEAN : Close(p, flush, closed)
    BY <1>2, <2>1 DEF Choose, Begin, OpenRead, Abandon, EndOfSource, Break, RenameFails,
                      Stream, Close, directory
  <2> QED
    BY <1>3, <1>4, <1>5, <1>6, <1>8, <1>9, <2>1 DEF Copying
<1>10. ASSUME NEW p \in Procs, Crash(p) PROVE Kept
  BY <1>2, <1>10 DEF Crash, directory
<1>11. ASSUME UNCHANGED vars PROVE Kept
  BY <1>2, <1>11 DEF vars, directory
<1>12. Kept
  BY <1>7, <1>9, <1>10, <1>11 DEF Next
<1> QED
  BY <1>12 DEF Kept

LEMMA StraysStep ==
    ASSUME Inv, [Next]_vars, NEW n \in Names, part[n] \in strays
    PROVE  part'[n] = part[n] /\ data'[part[n]] = data[part[n]]
<1>1. /\ Named /\ TypeOK /\ part[n] \in Files /\ part[n] # 0 /\ part[n] <= made
      /\ part[n] \notin shown
  BY FilesAre DEF Inv, TypeOK, Named
<1>2. part'[n] = part[n]
  <2> SUFFICES ASSUME part'[n] # part[n] PROVE FALSE
    OBVIOUS
  <2>1. PICK p \in Procs : pc[p] \in {"rename", "remove"} /\ Download(p) /\ n = Target(p)
    BY <1>1, NamesTaken
  <2>2. Staged(p)
    BY <2>1 DEF Staged
  <2>3. part[n] = frame[p].to /\ frame[p].to \notin strays
    BY <2>1, <2>2, InvFacts DEF Holds
  <2> QED
    BY <2>3
<1>3. data'[part[n]] = data[part[n]]
  <2> SUFFICES ASSUME data'[part[n]] # data[part[n]] PROVE FALSE
    OBVIOUS
  <2>1. PICK p \in Procs :
            \/ pc[p] \in {"stream", "close"} /\ part[n] = frame[p].to
            \/ /\ pc[p] = "open_write" /\ ~Download(p) /\ job[p].overwrite
               /\ part[n] = final[Target(p)]
    BY <1>1, FilesWritten
  <2>2. Holds(p) /\ (pc[p] # "idle" => Target(p) \in Names)
    BY InvFacts
  <2>3. CASE pc[p] \in {"stream", "close"} /\ part[n] = frame[p].to
    BY <1>1, <2>2, <2>3 DEF Holds
  <2>4. CASE pc[p] = "open_write" /\ part[n] = final[Target(p)]
    BY <1>1, <2>2, <2>4 DEF Named
  <2> QED
    BY <2>1, <2>3, <2>4
<1> QED
  BY <1>2, <1>3

\* A ".part" file that belongs to no running download is never written, renamed
\* or removed, by whatever instance.
THEOREM StrayPartialsKept == Spec => StrayPartialsUntouched
<1>1. Inv /\ [Next]_vars =>
          [\A n \in Names : part[n] \in strays =>
               part'[n] = part[n] /\ data'[part[n]] = data[part[n]]]_vars
  BY StraysStep
<1> QED
  BY <1>1, InvHolds, PTL DEF Spec, StrayPartialsUntouched

LEMMA LossStep ==
    ASSUME NoMovesAside, Inv, [Next]_vars, NEW n \in Names,
           ~ \E p \in Procs, source, target \in Paths : Move(p, source, target),
           final[n] # 0, final'[n] # final[n] \/ data'[final[n]] # data[final[n]]
    PROVE  \E p \in Procs : /\ job[p] # None /\ Target(p) = n
                            /\ job[p].overwrite \/ final[n] \notin saw[p]
<1>1. /\ Named /\ PartialIsPrivate /\ final[n] \in Files /\ final[n] <= made
      /\ \A p \in Procs : Confirmed(p)
      /\ \A p \in Procs : pc[p] # "idle" => job[p] # None /\ Target(p) \in Names
  <2>1. /\ Named /\ PartialIsPrivate /\ final[n] \in Files /\ final[n] <= made
        /\ \A p \in Procs : Confirmed(p)
    BY DEF Inv, TypeOK, Named, PartialsInOrder
  <2>2. None \notin Jobs
    BY ConstantsAssumption
  <2> QED
    BY <2>1, <2>2, InvFacts
<1>2. CASE final'[n] # final[n]
  <2>1. PICK p \in Procs : pc[p] \in {"rename", "remove"} /\ n = Target(p)
    BY <1>2, NamesTaken
  <2> QED
    BY <1>1, <2>1 DEF Confirmed
<1>3. CASE data'[final[n]] # data[final[n]]
  <2>1. PICK p \in Procs :
            \/ pc[p] \in {"stream", "close"} /\ final[n] = frame[p].to
            \/ /\ pc[p] = "open_write" /\ ~Download(p) /\ job[p].overwrite
               /\ final[n] = final[Target(p)]
    BY <1>1, <1>3, FilesWritten
  <2>2. CASE pc[p] \in {"stream", "close"} /\ final[n] = frame[p].to
    <3>1. ~ Download(p)
      BY <1>1, <2>2 DEF PartialIsPrivate, Staged
    <3> QED
      BY <1>1, <2>2, <3>1 DEF Confirmed, Writing
  <2>3. CASE /\ pc[p] = "open_write" /\ job[p].overwrite
             /\ final[n] = final[Target(p)]
    BY <1>1, <2>3 DEF Named
  <2> QED
    BY <2>1, <2>2, <2>3
<1> QED
  BY <1>2, <1>3

\* Moves aside, a file is replaced, truncated or removed only for a copy to its
\* name that was told to overwrite or looked before the file was there, and no
\* stray partial file ever is: if nobody moves files while another copies.
THEOREM OthersAreKept ==
    ASSUME "move" \in Kinds => \A p, q \in Procs : p = q
    PROVE  Spec => OthersFilesKept
<1>1. NoMovesAside
  BY DEF NoMovesAside, Alone
<1>2. Inv /\ [Next]_vars =>
          [~(\E p \in Procs, source, target \in Paths : Move(p, source, target)) =>
               \A n \in Names :
                   final[n] # 0 /\ (final'[n] # final[n] \/ data'[final[n]] # data[final[n]]) =>
                       \E p \in Procs : /\ job[p] # None /\ Target(p) = n
                                        /\ job[p].overwrite \/ final[n] \notin saw[p]]_vars
  BY <1>1, LossStep
<1>3. Spec => OnlyConfirmedLost
  BY <1>2, InvHolds, PTL DEF Spec, OnlyConfirmedLost
<1> QED
  BY <1>3, StrayPartialsKept DEF OthersFilesKept

-----------------------------------------------------------------------------
(* What success means.                                                      *)

LEMMA PrefixIs ==
    ASSUME NEW s \in Seq(Blocks), NEW t \in Seq(Blocks), Len(s) <= Len(t),
           \A i \in 1 .. Len(s) : s[i] = t[i]
    PROVE  IsPrefix(s, t) /\ (Len(s) = Len(t) => s = t)
<1>1. Len(s) \in Nat /\ Len(t) \in Nat
  BY LenProperties
<1>2. \A i \in 1 .. Len(s) : i \in 1 .. Len(t)
  BY <1>1
<1>3. SubSeq(s, 1, Len(s)) = SubSeq(t, 1, Len(s))
  BY <1>1, <1>2
<1>4. Len(s) = Len(t) => s = t
  BY SeqEqual
<1> QED
  BY <1>3, <1>4 DEF IsPrefix

\* Nobody but p takes p to rest.
LEMMA OwnTurn ==
    ASSUME Inv, [Next]_vars, NEW p \in Procs, pc'[p] # pc[p]
    PROVE  Copying(p) \/ Crash(p)
<1>1. pc \in [Procs -> Stages]
  BY DEF Inv, TypeOK
<1>2. ASSUME NEW q \in Procs, q # p, NEW c, pc' = [pc EXCEPT ![q] = c]
      PROVE  FALSE
  BY <1>1, <1>2
<1>3. ASSUME UNCHANGED pc PROVE FALSE
  BY <1>3
<1>4. ASSUME NEW q \in Procs, q # p, Copying(q) \/ Crash(q)
      PROVE  FALSE
  <2>1. ASSUME RestOrRetry(q) PROVE FALSE
    BY <1>2, <1>4, <2>1 DEF RestOrRetry, Rest
  <2>2. \A a, b : ~ Goto(q, a, b)
    BY <1>2, <1>4 DEF Goto
  <2>3. ~ Rest(q)
    BY <2>1 DEF RestOrRetry
  <2>4. /\ \A source, target : ~ Move(q, source, target)
        /\ \A kind, source, target : ~ Choose(q, kind, source, target)
        /\ \A known : ~ Begin(q, known)
        /\ ~ OpenRead(q) /\ ~ OpenPartial(q) /\ ~ OpenTarget(q) /\ ~ Abandon(q)
    BY <1>3, <2>1, <2>2 DEF Move, Choose, Begin, OpenRead, OpenPartial, OpenTarget, Abandon
  <2>5. /\ \A flush : ~ Stream(q, flush)
        /\ ~ EndOfSource(q) /\ ~ Break(q)
        /\ \A flush, closed : ~ Close(q, flush, closed)
        /\ ~ RenamePartial(q) /\ ~ RenameFails(q)
        /\ \A works : ~ CleanUp(q, works)
    BY <2>1, <2>2, <2>3 DEF Stream, EndOfSource, Break, Close, RenamePartial, RenameFails, CleanUp
  <2>6. ~ Crash(q)
    BY <2>3 DEF Crash
  <2> QED
    BY <1>4, <2>4, <2>5, <2>6 DEF Copying
<1>5. \A n \in Names, partial \in BOOLEAN : ~ ForeignFile(n, partial)
  BY <1>3 DEF ForeignFile
<1>6. ~ UNCHANGED vars
  BY <1>3 DEF vars
<1> QED
  BY <1>4, <1>5, <1>6 DEF Next

LEMMA SuccessStep ==
    ASSUME Inv, [Next]_vars, NEW p \in Procs,
           pc[p] = "rename", pc'[p] = "idle", final' # final, Remote(p)
    PROVE  /\ IsPrefix(data[final'[Target(p)]], Content[job[p].source])
           /\ frame[p].size # None => data[final'[Target(p)]] = Content[job[p].source]
<1>1. RenamePartial(p)
  <2>1. Copying(p) \/ Crash(p)
    BY OwnTurn
  <2>2. ~ Crash(p) /\ ~ RenameFails(p)
    BY DEF Crash, RenameFails, directory
  <2>3. /\ \A source, target : ~ Move(p, source, target)
        /\ \A kind, source, target : ~ Choose(p, kind, source, target)
        /\ \A known : ~ Begin(p, known)
        /\ ~ OpenRead(p) /\ ~ OpenPartial(p) /\ ~ OpenTarget(p) /\ ~ Abandon(p)
        /\ \A flush : ~ Stream(p, flush)
        /\ ~ EndOfSource(p) /\ ~ Break(p)
        /\ \A flush, closed : ~ Close(p, flush, closed)
        /\ \A works : ~ CleanUp(p, works)
    BY DEF Move, Choose, Begin, OpenRead, OpenPartial, OpenTarget, Abandon, Stream, EndOfSource,
           Break, Close, CleanUp, Goto
  <2> QED
    BY <2>1, <2>2, <2>3 DEF Copying
<1> DEFINE d == data[frame[p].to]
           C == Content[job[p].source]
<1>2. /\ Control(p) /\ Streamed(p) /\ Staged(p) /\ Target(p) \in Names
      /\ part[Target(p)] = frame[p].to /\ final \in [Names -> {0} \cup Files]
      /\ Readable(p) = C /\ pc[p] \in Writing /\ frame[p].done \in Nat
  BY InvFacts, TypesAre DEF Staged, Control, Writing, TypeOK
<1>3. final'[Target(p)] = frame[p].to
  BY <1>1, <1>2 DEF RenamePartial
<1>4. d \in Seq(Blocks) /\ C \in Seq(Blocks)
  BY <1>2, SourceIs
<1>5. HasFirst(p, frame[p].done) /\ frame[p].done <= Len(C) /\ AllRead(p)
  BY <1>2 DEF Streamed, Tracked
<1>6. Len(d) <= Len(C) /\ \A i \in 1 .. Len(d) : d[i] = C[i]
  BY <1>2, <1>5 DEF HasFirst
<1>7. frame[p].size # None => Len(d) = Len(C)
  BY <1>2, <1>5 DEF HasFirst, AllRead, SizeMatches, Control, Staged
<1> HIDE DEF d, C
<1>8. IsPrefix(d, C) /\ (Len(d) = Len(C) => d = C)
  BY <1>4, <1>6, PrefixIs
<1> QED
  BY <1>3, <1>7, <1>8 DEF d, C

\* What a remote download puts under the final name is the beginning of the
\* source, and all of it when the size was known: no early end and no buffer
\* that could not be flushed passes for success, whatever others do meanwhile.
THEOREM SuccessMeansComplete == Spec => SuccessIsComplete
<1>1. Inv /\ [Next]_vars =>
          [\A p \in Procs :
               pc[p] = "rename" /\ pc'[p] = "idle" /\ final' # final /\ Remote(p) =>
                   LET d == data[final'[Target(p)]]
                   IN /\ IsPrefix(d, Content[job[p].source])
                      /\ frame[p].size # None => d = Content[job[p].source]]_vars
  BY SuccessStep
<1> QED
  BY <1>1, InvHolds, PTL DEF Spec, SuccessIsComplete

LEMMA FaithfulStep ==
    ASSUME Alone, Inv, NEW p \in Procs, pc'[p] = "idle", frame[p].from # 0,
           RenamePartial(p) \/ \E flush, closed \in BOOLEAN : Close(p, flush, closed)
    PROVE  data'[frame[p].to] = data[frame[p].from]
<1> DEFINE R == Readable(p)
           to == frame[p].to
<1>1. pc[p] \in {"close", "rename"} /\ pc[p] \in Writing
  BY DEF RenamePartial, Close, Writing
<1>2. /\ Control(p) /\ Streamed(p) /\ TypeOK /\ pc \in [Procs -> Stages] /\ frame[p].done \in Nat
      /\ ~ Remote(p) /\ Tracked(p)
  BY <1>1, InvFacts, TypesAre DEF Control, Tracked
<1>3. R \in Seq(Blocks) /\ R = data[frame[p].from] /\ to \in Files /\ data[to] \in Seq(Blocks)
  BY <1>1, <1>2, SourceIs DEF Readable
<1>4. /\ data'[to] \in Seq(Blocks) /\ Len(data'[to]) = Len(R)
      /\ \A i \in 1 .. Len(R) : data'[to][i] = R[i]
  <2>1. CASE RenamePartial(p)
    <3>1. data' = data /\ pc[p] = "rename"
      BY <2>1 DEF RenamePartial
    <3>2. HasFirst(p, frame[p].done) /\ AllRead(p)
      BY <1>1, <1>2, <3>1 DEF Streamed
    <3> QED
      BY <1>2, <1>3, <3>1, <3>2 DEF HasFirst, AllRead
  <2>2. ASSUME NEW flush \in BOOLEAN, NEW closed \in BOOLEAN, Close(p, flush, closed)
        PROVE  /\ data'[to] \in Seq(Blocks) /\ Len(data'[to]) = Len(R)
               /\ \A i \in 1 .. Len(R) : data'[to][i] = R[i]
    <3>1. /\ pc[p] = "close"
          /\ IF flush THEN Flush(p, frame[p].buffer) ELSE UNCHANGED data
      BY <2>2 DEF Close
    <3>2. frame[p].ok /\ flush
      BY <1>2, <2>2 DEF Close, Goto, Succeeds
    <3>3. AllRead(p)
      BY <1>1, <1>2, <3>1, <3>2 DEF Streamed
    <3>4. /\ data' \in [Files -> Seq(Blocks)]
          /\ Len(data'[to]) = frame[p].done
          /\ \A i \in 1 .. frame[p].done : data'[to][i] = R[i]
      BY <1>2, <3>1, <3>2, LastFlush
    <3> QED
      BY <1>2, <1>3, <3>3, <3>4 DEF AllRead
  <2> QED
    BY <2>1, <2>2
<1> HIDE DEF R, to
<1>5. data'[to] = R
  BY <1>3, <1>4, SeqEqual
<1> QED
  BY <1>3, <1>5 DEF to

\* A copy or a download of a local file by the only instance there is that
\* reports success has written exactly the blocks of the source, foreign
\* programs that make new files notwithstanding.
THEOREM LocalCopiesAreFaithful ==
    ASSUME \A p, q \in Procs : p = q
    PROVE  Spec => LocalCopyIsFaithful
<1>1. Alone
  BY DEF Alone
<1>2. Inv /\ [Next]_vars =>
          [\A p \in Procs :
               /\ pc'[p] = "idle" /\ frame[p].from # 0
               /\ RenamePartial(p) \/ \E flush, closed \in BOOLEAN : Close(p, flush, closed)
               => data'[frame[p].to] = data[frame[p].from]]_vars
  BY <1>1, FaithfulStep
<1> QED
  BY <1>2, InvHolds, PTL DEF Spec, LocalCopyIsFaithful

LEMMA ReplaceStep ==
    ASSUME NoMovesAside, Inv, [Next]_vars, "move" \notin Kinds, NEW n \in Names,
           final[n] # 0, final'[n] # final[n]
    PROVE  \E p \in Procs : /\ job[p] # None /\ Target(p) = n
                            /\ job[p].overwrite \/ final[n] \notin saw[p]
<1>1. ~ \E p \in Procs, source, target \in Paths : Move(p, source, target)
  BY DEF Move
<1> QED
  BY <1>1, LossStep

\* Without the Move command "Confirm Overwrite" is kept: it is the only way a
\* name goes to another file unasked.
THEOREM OnlyMovesReplace ==
    ASSUME "move" \notin Kinds
    PROVE  Spec => OverwriteConfirmed
<1>1. NoMovesAside
  BY DEF NoMovesAside
<1>2. Inv /\ [Next]_vars =>
          [\A n \in Names :
               final[n] # 0 /\ final'[n] \notin {0, final[n]} =>
                   \E p \in Procs : /\ job[p] # None /\ Target(p) = n
                                    /\ job[p].overwrite \/ final[n] \notin saw[p]]_vars
  BY <1>1, ReplaceStep
<1> QED
  BY <1>2, InvHolds, PTL DEF Spec, OverwriteConfirmed

-----------------------------------------------------------------------------
(* A copy onto itself needs two paths to one name.                          *)

\* No instance reads the file it writes.
TwoFiles == \A p \in Procs : pc[p] \in Writing => frame[p].to # frame[p].from

\* Who writes has opened the target, or had.
LEMMA OpensOrHad ==
    ASSUME Inv, [Next]_vars, NEW p \in Procs, pc'[p] \in Writing
    PROVE  \/ pc[p] \in Writing /\ frame'[p].to = frame[p].to /\ frame'[p].from = frame[p].from
           \/ OpenPartial(p) \/ OpenTarget(p)
<1> DEFINE Had == pc[p] \in Writing /\ frame'[p].to = frame[p].to /\ frame'[p].from = frame[p].from
<1>1. /\ pc \in [Procs -> Stages] /\ frame \in [Procs -> Frames]
      /\ \A q \in Procs : frame[q] \in Frames
  BY InvFacts, TypesAre DEF Inv, TypeOK
<1>2. ASSUME pc'[p] = pc[p], frame'[p] = frame[p] PROVE Had
  BY <1>2
<1>3. ASSUME NEW q \in Procs, q # p, NEW c, NEW f, pc' = [pc EXCEPT ![q] = c],
             frame' = [frame EXCEPT ![q] = f] \/ frame' = frame
      PROVE  Had
  BY <1>1, <1>2, <1>3
<1>4. ASSUME UNCHANGED <<pc, frame>> PROVE Had
  BY <1>2, <1>4
<1> HIDE DEF Had
<1>5. ASSUME NEW q \in Procs, q # p, Copying(q) \/ Crash(q) PROVE Had
  <2>1. ASSUME RestOrRetry(q) PROVE Had
    BY <1>3, <1>5, <2>1 DEF RestOrRetry, Rest
  <2>2. ASSUME NEW a, NEW b, NEW f, Goto(q, a, b),
               frame' = [frame EXCEPT ![q] = f] \/ frame' = frame
        PROVE  Had
    BY <1>3, <1>5, <2>2 DEF Goto
  <2>3. ASSUME \/ \E source, target \in Paths : Move(q, source, target)
               \/ \E kind \in Kinds \ {"move"}, source \in Sources \cup Paths, target \in Paths :
                      Choose(q, kind, source, target)
        PROVE  Had
    BY <1>4, <2>2, <2>3 DEF Move, Choose
  <2>4. ASSUME NEW known \in BOOLEAN, Begin(q, known) PROVE Had
    <3> DEFINE f == [frame[q] EXCEPT
                        !.size = IF known
                                 THEN IF Remote(q) THEN Len(Content[job[q].source])
                                      ELSE Len(data[final[NameOf[job[q].source]]])
                                 ELSE None]
    <3>1. Goto(q, "begin", "open_read") /\ frame' = [frame EXCEPT ![q] = f]
      BY <2>4 DEF Begin
    <3> HIDE DEF f
    <3> QED
      BY <2>2, <3>1
  <2>5. ASSUME OpenRead(q) PROVE Had
    BY <2>2, <2>5 DEF OpenRead
  <2>6. ASSUME OpenPartial(q) \/ OpenTarget(q) PROVE Had
    BY <2>2, <2>6 DEF OpenPartial, OpenTarget, Create
  <2>7. ASSUME NEW flush \in BOOLEAN, Stream(q, flush) PROVE Had
    BY <2>2, <2>7 DEF Stream
  <2>8. ASSUME EndOfSource(q) \/ Break(q) \/ RenameFails(q) PROVE Had
    BY <2>2, <2>8 DEF EndOfSource, Break, RenameFails
  <2>9. ASSUME NEW flush, NEW closed, Close(q, flush, closed) PROVE Had
    BY <2>1, <2>2, <2>9 DEF Close, RestOrRetry
  <2>10. ASSUME Abandon(q) \/ RenamePartial(q) \/ (\E works \in BOOLEAN : CleanUp(q, works)) \/ Crash(q)
         PROVE  Had
    BY <2>1, <2>10 DEF Abandon, RenamePartial, CleanUp, Crash, RestOrRetry
  <2> QED
    BY <1>5, <2>3, <2>4, <2>5, <2>6, <2>7, <2>8, <2>9, <2>10 DEF Copying
<1>6. ASSUME Copying(p), ~ OpenPartial(p), ~ OpenTarget(p) PROVE Had
  <2>1. ~ RestOrRetry(p) /\ ~ Rest(p)
    BY <1>1 DEF RestOrRetry, Rest, Writing
  <2>2. \A a : ~ Goto(p, a, "begin") /\ ~ Goto(p, a, "open_read") /\ ~ Goto(p, a, "open_write")
    BY <1>1 DEF Goto, Writing
  <2>3. /\ \A kind, source, target : ~ Choose(p, kind, source, target)
        /\ \A known : ~ Begin(p, known)
        /\ ~ OpenRead(p) /\ ~ Abandon(p) /\ ~ RenamePartial(p) /\ \A works : ~ CleanUp(p, works)
    BY <2>1, <2>2 DEF Choose, Begin, OpenRead, Abandon, RenamePartial, CleanUp, RestOrRetry
  <2>4. ASSUME \E source, target \in Paths : Move(p, source, target) PROVE Had
    BY <1>4, <2>4 DEF Move
  <2>5. ASSUME NEW flush \in BOOLEAN, Stream(p, flush) PROVE Had
    <3>1. pc[p] \in Writing
      BY <2>5 DEF Stream, Goto, Writing
    <3>2. frame'[p].to = frame[p].to /\ frame'[p].from = frame[p].from
      BY <1>1, <2>5 DEF Stream, Frames
    <3> QED
      BY <3>1, <3>2 DEF Had
  <2>6. ASSUME EndOfSource(p) PROVE Had
    <3>1. pc[p] \in Writing
      BY <2>6 DEF EndOfSource, Goto, Writing
    <3>2. frame'[p].to = frame[p].to /\ frame'[p].from = frame[p].from
      BY <1>1, <2>6 DEF EndOfSource, Frames
    <3> QED
      BY <3>1, <3>2 DEF Had
  <2>7. ASSUME Break(p) \/ RenameFails(p) PROVE Had
    BY <2>7 DEF Break, RenameFails, Goto, Writing, Had
  <2>8. ASSUME NEW flush, NEW closed, Close(p, flush, closed) PROVE Had
    BY <2>1, <2>8 DEF Close, Goto, Writing, Had
  <2> QED
    BY <1>6, <2>3, <2>4, <2>5, <2>6, <2>7, <2>8 DEF Copying
<1>7. ASSUME Crash(p) PROVE Had
  BY <1>1, <1>7 DEF Crash, Rest, Writing
<1>8. ASSUME NEW n \in Names, NEW partial, ForeignFile(n, partial) PROVE Had
  BY <1>4, <1>8 DEF ForeignFile
<1>9. ASSUME UNCHANGED vars PROVE Had
  BY <1>4, <1>9 DEF vars
<1>10. Had \/ OpenPartial(p) \/ OpenTarget(p)
  BY <1>5, <1>6, <1>7, <1>8, <1>9 DEF Next
<1> QED
  BY <1>10 DEF Had

LEMMA TwoFilesStep ==
    ASSUME \A a, b \in Paths : NameOf[a] = NameOf[b] => a = b,
           NoMovesAside, Inv, TwoFiles, [Next]_vars
    PROVE  TwoFiles'
<1> SUFFICES ASSUME NEW p \in Procs, pc'[p] \in Writing
             PROVE  frame'[p].to # frame'[p].from
  BY DEF TwoFiles
<1>1. /\ TypeOK /\ Named /\ Control(p) /\ Holds(p) /\ Confirmed(p)
      /\ frame \in [Procs -> Frames] /\ frame[p] \in Frames
  BY InvFacts, TypesAre
<1>2. CASE pc[p] \in Writing /\ frame'[p].to = frame[p].to /\ frame'[p].from = frame[p].from
  BY <1>2 DEF TwoFiles
<1>3. ASSUME Create(p)
      PROVE  frame'[p].to # frame'[p].from
  <2>1. made < MaxFiles /\ made' = made + 1 /\ data' = [data EXCEPT ![made'] = <<>>]
    BY <1>3 DEF Create
  <2>2. frame[p].from # made'
    <3>1. <<>> \in Seq(Blocks)
      OBVIOUS
    <3> QED
      BY <2>1, <3>1, NewFile
  <2>3. frame'[p].to = made' /\ frame'[p].from = frame[p].from
    BY <1>1, <1>3 DEF Create, Frames
  <2> QED
    BY <2>2, <2>3
<1>4. CASE OpenPartial(p)
  BY <1>3, <1>4 DEF OpenPartial
<1>5. CASE OpenTarget(p) /\ ~ Create(p)
  <2> DEFINE x == final[Target(p)]
  <2>1. /\ pc[p] = "open_write" /\ x # 0
        /\ frame' = [frame EXCEPT ![p] = [frame[p] EXCEPT !.to = x]]
    BY <1>5 DEF OpenTarget, Goto
  <2>2. x \in {0} \cup Files /\ Target(p) \in Names
    BY <1>1, <2>1, InvFacts DEF TypeOK
  <2>3. x # frame[p].from
    <3> SUFFICES ASSUME x = frame[p].from PROVE FALSE
      OBVIOUS
    <3>1. Target(p) = NameOf[job[p].source] /\ ~ Remote(p)
      BY <1>1, <2>1, <2>2 DEF Confirmed, Control
    <3>2. job[p].source \in Paths /\ job[p].target \in Paths
      BY <2>1, <3>1, InvFacts DEF Remote
    <3>3. job[p].source # job[p].target
      BY <1>1, <2>1 DEF Control, DifferentResources
    <3> QED
      BY <3>1, <3>2, <3>3 DEF Target
  <2> HIDE DEF x
  <2>4. frame'[p].to = x /\ frame'[p].from = frame[p].from
    BY <1>1, <2>1, <2>2 DEF Frames
  <2> QED
    BY <2>3, <2>4
<1>6. CASE OpenTarget(p) /\ Create(p)
  BY <1>3, <1>6
<1> QED
  BY <1>2, <1>4, <1>5, <1>6, OpensOrHad

\* Where no two paths lead to one name and nobody moves files aside, the test
\* that source and target differ suffices: no copy empties what it reads.
THEOREM DifferentPathsSuffice ==
    ASSUME \A a, b \in Paths : NameOf[a] = NameOf[b] => a = b,
           "move" \in Kinds => \A p, q \in Procs : p = q
    PROVE  Spec => []NeverOntoItself
<1>1. NoMovesAside
  BY DEF NoMovesAside, Alone
<1>2. Init => TwoFiles
  BY DEF Init, TwoFiles, Writing
<1>3. Inv /\ TwoFiles /\ [Next]_vars => TwoFiles'
  BY <1>1, TwoFilesStep
<1>4. TwoFiles => NeverOntoItself
  BY DEF TwoFiles, NeverOntoItself, Writing
<1> QED
  BY <1>2, <1>3, <1>4, InvHolds, PTL DEF Spec

=============================================================================
