---------------------------- MODULE Http_proofs -----------------------------
(* Proofs about HttpCopy for any servers, lengths, buffers and chunks: no   *)
(* request leaves the root, what read hands out is one resource in order    *)
(* (the refinement of ByteStream), a copy that reports success is whole, a  *)
(* fragment is announced, and an upload replaces nobody's object unasked.   *)
(* Proofs about HttpListing for any pages, links, hashes and sizes of the   *)
(* index: every link is found again, a search ends, no link is listed twice *)
(* and only a page that was received replaces a listing.                    *)
EXTENDS Http, Induction, SequenceTheorems, FiniteSetTheorems, TLAPS

-----------------------------------------------------------------------------
(* Numbers and sequences. *)

LEMMA MinOfTwo ==
    ASSUME NEW a \in Int, NEW b \in Int
    PROVE  Min({a, b}) = IF a <= b THEN a ELSE b
<1> DEFINE m == IF a <= b THEN a ELSE b
<1>1. m \in {a, b} /\ \A y \in {a, b} : m =< y
  OBVIOUS
<1>2. \A x \in {a, b} : (\A y \in {a, b} : x =< y) => x = m
  OBVIOUS
<1> HIDE DEF m
<1>3. Min({a, b}) = m
  BY <1>1, <1>2 DEF Min
<1> QED
  BY <1>3 DEF m

LEMMA MinOfThree ==
    ASSUME NEW a \in Int, NEW b \in Int, NEW c \in Int
    PROVE  /\ Min({a, b, c}) \in Int
           /\ Min({a, b, c}) <= a /\ Min({a, b, c}) <= b /\ Min({a, b, c}) <= c
<1> DEFINE S == {a, b, c}
<1>1. \E x \in S : \A y \in S : x =< y
  <2>1. CASE a <= b /\ a <= c
    BY <2>1
  <2>2. CASE b <= a /\ b <= c
    BY <2>2
  <2>3. CASE c <= a /\ c <= b
    BY <2>3
  <2> QED
    BY <2>1, <2>2, <2>3
<1> HIDE DEF S
<1>2. Min(S) \in S /\ \A y \in S : Min(S) =< y
  BY <1>1 DEF Min
<1> QED
  BY <1>2 DEF S

\* A sequence is what goes first and the rest of it.
LEMMA Halves ==
    ASSUME NEW S, NEW s \in Seq(S), NEW n \in 0 .. Len(s)
    PROVE  /\ SubSeq(s, 1, n) \in Seq(S) /\ Len(SubSeq(s, 1, n)) = n
           /\ SubSeq(s, n + 1, Len(s)) \in Seq(S)
           /\ Len(SubSeq(s, n + 1, Len(s))) = Len(s) - n
           /\ SubSeq(s, 1, n) \o SubSeq(s, n + 1, Len(s)) = s
<1> DEFINE a == SubSeq(s, 1, n)
           b == SubSeq(s, n + 1, Len(s))
<1>1. /\ a \in Seq(S) /\ Len(a) = n
      /\ \A i \in 1 .. n : a[i] = s[i]
  OBVIOUS
<1>2. /\ b \in Seq(S) /\ Len(b) = Len(s) - n
      /\ \A i \in 1 .. Len(s) - n : b[i] = s[n + i]
  OBVIOUS
<1> HIDE DEF a, b
<1> DEFINE w == a \o b
<1>3. /\ w \in Seq(S) /\ Len(w) = Len(a) + Len(b)
      /\ \A i \in 1 .. Len(a) + Len(b) : w[i] = IF i <= Len(a) THEN a[i] ELSE b[i - Len(a)]
  BY <1>1, <1>2, ConcatProperties
<1> HIDE DEF w
<1>4. Len(w) = Len(s) /\ \A i \in 1 .. Len(s) : w[i] = s[i]
  BY <1>1, <1>2, <1>3
<1>5. w = s
  BY <1>3, <1>4, SeqEqual
<1> QED
  BY <1>1, <1>2, <1>5 DEF w, a, b

LEMMA Joined ==
    ASSUME NEW s \in Seq(Blocks), NEW t \in Seq(Blocks), NEW u \in Seq(Blocks)
    PROVE  (s \o t) \o u = s \o (t \o u)
BY ConcatAssociative

LEMMA BodyIs ==
    ASSUME NEW u \in Root \cup {Disk}, NEW n \in Nat
    PROVE  /\ Body(u, n) \in Seq(Blocks)
           /\ Len(Body(u, n)) = n
           /\ \A i \in 1 .. n : Body(u, n)[i] = <<u, i>>
BY DEF Body, Blocks

LEMMA BodyPrefix ==
    ASSUME NEW u \in Root \cup {Disk}, NEW k \in Nat,
           NEW s \in Seq(Blocks), NEW t \in Seq(Blocks), s \o t = Body(u, k)
    PROVE  s = Body(u, Len(s))
<1>1. /\ Len(s \o t) = Len(s) + Len(t)
      /\ \A i \in 1 .. Len(s) : (s \o t)[i] = s[i]
  BY ConcatProperties
<1>2. Len(s) + Len(t) = k
  BY <1>1, BodyIs
<1>3. \A i \in 1 .. Len(s) : s[i] = <<u, i>>
  <2>1. \A i \in 1 .. k : Body(u, k)[i] = <<u, i>>
    BY BodyIs
  <2> QED
    BY <1>1, <1>2, <2>1
<1>4. s = Body(u, Len(s))
  <2> DEFINE b == Body(u, Len(s))
  <2>1. Len(s) \in Nat
    OBVIOUS
  <2>2. b \in Seq(Blocks) /\ Len(b) = Len(s) /\ \A i \in 1 .. Len(s) : b[i] = <<u, i>>
    BY <2>1, BodyIs
  <2> HIDE DEF b
  <2>3. s = b
    BY <1>3, <2>2, SeqEqual
  <2> QED
    BY <2>3 DEF b
<1> QED
  BY <1>4

LEMMA BodyGoesOn ==
    ASSUME NEW u \in Root \cup {Disk}, NEW l \in Nat, NEW a \in Nat, NEW n \in Nat,
           a + n <= l
    PROVE  LET d == SubSeq(Body(u, l), a + 1, a + n)
           IN d \in Seq(Blocks) /\ Len(d) = n /\ Body(u, a) \o d = Body(u, a + n)
<1> DEFINE b == Body(u, l)
           d == SubSeq(b, a + 1, a + n)
<1>1. b \in Seq(Blocks) /\ Len(b) = l /\ \A i \in 1 .. l : b[i] = <<u, i>>
  BY BodyIs
<1> HIDE DEF b
<1>2. /\ d \in Seq(Blocks) /\ Len(d) = n
      /\ \A i \in 1 .. n : d[i] = <<u, a + i>>
  BY <1>1
<1> HIDE DEF d
<1> DEFINE c == Body(u, a)
           w == c \o d
           e == Body(u, a + n)
<1>3. c \in Seq(Blocks) /\ Len(c) = a /\ \A i \in 1 .. a : c[i] = <<u, i>>
  BY BodyIs
<1>4. e \in Seq(Blocks) /\ Len(e) = a + n /\ \A i \in 1 .. a + n : e[i] = <<u, i>>
  <2>1. a + n \in Nat
    OBVIOUS
  <2> QED
    BY <2>1, BodyIs
<1> HIDE DEF c, e
<1>5. /\ w \in Seq(Blocks) /\ Len(w) = Len(c) + Len(d)
      /\ \A i \in 1 .. Len(c) + Len(d) : w[i] = IF i <= Len(c) THEN c[i] ELSE d[i - Len(c)]
  BY <1>2, <1>3, ConcatProperties
<1> HIDE DEF w
<1>6. Len(w) = Len(e) /\ \A i \in 1 .. Len(w) : w[i] = e[i]
  <2>1. Len(w) = a + n /\ Len(e) = a + n
    BY <1>2, <1>3, <1>4, <1>5
  <2>2. ASSUME NEW i \in 1 .. a
        PROVE  w[i] = e[i]
    <3>1. w[i] = c[i] /\ i \in 1 .. a + n
      BY <1>2, <1>3, <1>5
    <3> QED
      BY <1>3, <1>4, <3>1
  <2>3. ASSUME NEW i \in a + 1 .. a + n
        PROVE  w[i] = e[i]
    <3>1. w[i] = d[i - a] /\ i - a \in 1 .. n
      BY <1>2, <1>3, <1>5
    <3>2. d[i - a] = <<u, a + (i - a)>> /\ a + (i - a) = i
      BY <1>2, <3>1
    <3> QED
      BY <1>4, <3>1, <3>2
  <2> QED
    BY <2>1, <2>2, <2>3
<1>7. w = e
  BY <1>4, <1>5, <1>6, SeqEqual
<1> QED
  BY <1>2, <1>7 DEF d, b, w, c, e

LEMMA BodyStart ==
    ASSUME NEW u \in Root \cup {Disk}, NEW l \in Nat, NEW k \in 0 .. l
    PROVE  SubSeq(Body(u, l), 1, k) = Body(u, k)
<1> DEFINE b == Body(u, l)
           c == Body(u, k)
           d == SubSeq(b, 1, k)
<1>1. b \in Seq(Blocks) /\ Len(b) = l /\ \A i \in 1 .. l : b[i] = <<u, i>>
  BY BodyIs
<1>2. k \in Nat /\ c \in Seq(Blocks) /\ Len(c) = k /\ \A i \in 1 .. k : c[i] = <<u, i>>
  <2>1. k \in Nat
    OBVIOUS
  <2> QED
    BY <2>1, BodyIs
<1> HIDE DEF b, c
<1>3. d \in Seq(Blocks) /\ Len(d) = k /\ \A i \in 1 .. k : d[i] = <<u, i>>
  BY <1>1
<1> HIDE DEF d
<1>4. d = c
  BY <1>2, <1>3, SeqEqual
<1> QED
  BY <1>4 DEF b, c, d

-----------------------------------------------------------------------------
(* The inductive invariant. *)

\* The copy may still read.
Underway ==
    \/ pc \in {"stat", "open", "read", "loop", "receiving", "returning", "write"}
    \/ pc \in {"drive", "sending", "driven"} /\ ~write.finishing

Reading == pc \in {"loop", "receiving"}
AtDisk == job.from = Disk
AtServer == job.to = "repository"

\* The upload is being closed, or was.
Closed == pc \in {"cleanup", "done"} \/ write.finishing

\* What each place of the program is reached with.
Control ==
    /\ pc \in {"stat", "open"} => ~write.open
    /\ pc \in {"stat", "open"} => fed = <<>> /\ read.used = <<>> /\ read.pending = <<>>
    /\ pc \in {"stat", "open"} => get.answer = None /\ get.at = 0 /\ ~read.complete
    /\ pc \in {"read", "loop", "receiving", "returning", "write"} => write.open = AtServer
    /\ pc \in {"drive", "sending", "driven"} => write.open
    /\ pc \in {"loop", "receiving", "returning"} => ~AtDisk
    /\ write.finishing => pc \in {"drive", "sending", "driven", "cleanup", "done"}
    /\ write.open => AtServer
    /\ Underway => ~frame.ended /\ ~frame.ok /\ ~read.failed /\ ~write.failed
    /\ frame.ok => frame.ended /\ ~write.failed /\ write.open = AtServer
    /\ AtDisk => ~read.failed

\* What read has handed out, has in its buffer and keeps is the beginning of
\* one resource of the root, as far as libcurl has brought it.
InOrder ==
    ~AtDisk =>
        /\ get.url \in Root
        /\ ~Ok(get.answer) => get.at = 0
        /\ fed \o (read.used \o read.pending) = Body(get.url, get.at)
        /\ get.at <= get.length
        /\ get.over = "ok" => get.at = get.length
        /\ get.location # None => get.answer = 302

\* A chunk is kept only if the buffer is full, so that an empty buffer that
\* is returned means the end.
Buffered ==
    /\ Len(read.used) <= Buffer
    /\ Underway /\ ~Reading /\ pc # "returning" => read.used = <<>>
    /\ Reading => ~read.complete
    /\ Reading /\ (read.paused \/ read.pending # <<>>) => Len(read.used) = Buffer
    /\ pc = "returning" /\ read.used = <<>> => read.complete /\ read.pending = <<>>
    /\ read.complete => get.over # None
    /\ frame.ended /\ ~AtDisk => Ok(get.answer)

\* What libcurl has taken for the upload and what it has still to take is
\* what was read.
UploadFollows ==
    /\ write.open /\ (Underway \/ frame.ok) =>
           IF pc = "write" THEN put.taken \o frame.piece = fed
           ELSE put.taken \o write.input = fed
    /\ Underway /\ pc \notin {"drive", "sending", "driven"} => write.input = <<>>
    /\ frame.ok => write.input = <<>>
    /\ pc = "driven" /\ ~write.finishing /\ ~write.complete => write.input = <<>>
    /\ write.finishing => write.input = <<>>
    /\ put.taken # <<>> => write.open

\* What the server confirmed is what it was sent, all that was announced.
Confirmed ==
    /\ ~write.open => put.answer = None
    /\ put.answer = 201 => stored = put.taken /\ Whole

Promised ==
    /\ frame.ok /\ ~AtServer => frame.size \in {None, Len(fed)}
    /\ frame.ok /\ AtServer /\ pc \in {"cleanup", "done"} => put.answer = 201

Announced ==
    /\ object \notin {None, <<Other>>, <<>>} => put.taken # <<>>
    /\ Closed /\ put.taken # <<>> => frame.announced

Inv ==
    /\ TypeOK /\ HopsStayInRoot
    /\ Control /\ InOrder /\ Buffered
    /\ UploadFollows /\ Confirmed /\ Promised /\ Announced

-----------------------------------------------------------------------------
(* What a step leaves alone stays as it was. *)

LEMMA SourceKept ==
    ASSUME Inv, UNCHANGED <<job, source, fed>>
    PROVE  HopsStayInRoot' /\ InOrder'
BY DEF Inv, HopsStayInRoot, InOrder, source, AtDisk

LEMMA OrderKept ==
    ASSUME InOrder, job' = job, get'.url = get.url \/ (get.at = 0 /\ get'.url \in Root),
           fed' \o (read'.used \o read'.pending) = fed \o (read.used \o read.pending),
           get'.answer = get.answer, get'.location = get.location, get'.at = get.at,
           get'.length = get.length, get'.over = get.over
    PROVE  InOrder'
<1>1. Body(get'.url, get.at) = Body(get.url, get.at) \/ get.at = 0
  OBVIOUS
<1>2. Body(get'.url, 0) = Body(get.url, 0)
  BY DEF Body
<1>3. CASE AtDisk
  BY <1>3 DEF InOrder, AtDisk
<1>4. CASE ~AtDisk
  <2>1. get'.url \in Root /\ get.location # None => get.answer = 302
    BY <1>4 DEF InOrder
  <2>2. Body(get'.url, get'.at) = Body(get.url, get.at)
    BY <1>1, <1>2
  <2> HIDE DEF Body
  <2> QED
    BY <1>4, <2>1, <2>2 DEF InOrder
<1> QED
  BY <1>3, <1>4

LEMMA TargetKept ==
    ASSUME Inv, UNCHANGED target, frame'.size = frame.size
    PROVE  Confirmed'
BY DEF Inv, Confirmed, target, Whole

USE DEF Stages

LEMMA JobFacts ==
    ASSUME job \in Jobs
    PROVE  /\ Buffer \in Nat \ {0} /\ Length \in Nat /\ Chunk \in Nat \ {0}
           /\ job.from \in Urls
           /\ ~AtDisk => job.from \in Root
           /\ AtDisk => AtServer
           /\ AtServer <=> job.to # "disk"
<1>1. job.buffer \in Buffers /\ job.from \in Sources /\ job.to \in {"repository", "disk"}
  BY DEF Jobs
<1>2. job.from = Disk => job.to = "repository"
  BY DEF Jobs
<1> QED
  BY <1>1, <1>2, SizesAssumption, SourcesAssumption DEF Buffer, AtDisk, AtServer, Urls

-----------------------------------------------------------------------------
(* The first steps: what is known of the source, and the two handles. *)

LEMMA Initially ==
    ASSUME Init
    PROVE  Inv
<1>1. /\ job \in Jobs /\ job.from \in Root \cup {Disk} /\ job.from \in Sources
      /\ ~AtDisk => job.from \in Root
      /\ job.buffer \in Nat \ {0}
  BY SourcesAssumption, SizesAssumption DEF Init, Jobs, AtDisk
<1>2. <<>> \in Seq(Blocks)
  OBVIOUS
<1>3. TypeOK
  <2>1. frame \in Frames /\ read \in Reads /\ write \in Writes
    BY <1>2 DEF Init, Frames, Reads, Writes
  <2>2. /\ job.from \in Urls /\ 0 \in Amounts /\ None \in Places
        /\ None \in Ends /\ None \in Answers /\ None \in UploadAnswers
    BY <1>1, SizesAssumption DEF Urls, Amounts, Places, Ends, Answers, UploadAnswers
  <2>3. get \in Gets /\ put \in Puts
    BY <1>2, <2>2 DEF Init, Gets, Puts, Idle
  <2> QED
    BY <1>1, <1>2, <2>1, <2>3 DEF TypeOK, Init
<1>4. HopsStayInRoot /\ Control
  BY DEF HopsStayInRoot, Control, Underway, Init, Idle
<1>5. InOrder
  <2>1. Body(job.from, 0) = <<>>
    BY DEF Body
  <2>2. <<>> \o (<<>> \o <<>>) = <<>>
    OBVIOUS
  <2> QED
    BY <1>1, <2>1, <2>2, NoneAssumption, SizesAssumption DEF InOrder, AtDisk, Ok, Init, Idle
<1>6. Buffered
  BY <1>1 DEF Buffered, Buffer, Reading, Underway, Init, Idle
<1>7. UploadFollows /\ Confirmed /\ Promised /\ Announced
  BY NoneAssumption DEF UploadFollows, Confirmed, Promised, Announced, Closed, Underway, Init, Idle
<1> QED
  BY <1>3, <1>4, <1>5, <1>6, <1>7 DEF Inv

LEMMA StatHopStep ==
    ASSUME Inv, StatHop
    PROVE  Inv'
<1>1. /\ pc = "stat" /\ job.from # Disk
      /\ asked' = asked \cup {get.url}
      /\ UNCHANGED <<job, read, fed, write, put, object, stored>>
      /\ \/ \E u \in Root : get' = [get EXCEPT !.url = u, !.hops = get.hops + 1]
            /\ UNCHANGED <<pc, frame>>
         \/ Fail /\ get' = get
  BY DEF StatHop, Sendable, InRoot, target
<1>2. /\ TypeOK /\ HopsStayInRoot /\ Control /\ InOrder /\ Buffered
      /\ UploadFollows /\ Confirmed /\ Promised /\ Announced
  BY DEF Inv
<1>3. get' \in Gets /\ get'.url \in Root /\ get.url \in Root
  <2>1. get.url \in Root /\ Root \subseteq Urls
    BY <1>1, <1>2 DEF InOrder, AtDisk, Urls
  <2>2. get.hops + 1 \in Nat
    BY <1>2 DEF TypeOK, Gets
  <2>3. ASSUME NEW u \in Root, get' = [get EXCEPT !.url = u, !.hops = get.hops + 1]
        PROVE  get' \in Gets /\ get'.url \in Root
    BY <1>2, <2>1, <2>2, <2>3 DEF TypeOK, Gets
  <2> QED
    BY <1>1, <1>2, <2>1, <2>3 DEF TypeOK
<1>4. /\ get'.answer = get.answer /\ get'.at = get.at /\ get'.length = get.length
      /\ get'.over = get.over /\ get'.location = get.location
  BY <1>1, <1>2 DEF Gets, TypeOK
<1>5. /\ frame' \in Frames /\ frame'.size = frame.size /\ frame'.ended = frame.ended
      /\ frame'.announced = frame.announced /\ frame'.ok \in {frame.ok, FALSE}
      /\ pc' \in {"stat", "finish"}
  BY <1>1, <1>2 DEF Frames, TypeOK, Fail
<1>6. TypeOK'
  BY <1>1, <1>2, <1>3, <1>5 DEF TypeOK
<1>7. HopsStayInRoot' /\ InOrder'
  <2>1. get.at = 0
    BY <1>1, <1>2 DEF Control
  <2>2. InOrder'
    BY <1>1, <1>2, <1>3, <1>4, <2>1, OrderKept
  <2> QED
    BY <1>1, <1>2, <1>3, <2>2 DEF HopsStayInRoot
<1>8. Control'
  BY <1>1, <1>2, <1>4, <1>5 DEF Control, Underway, AtDisk, AtServer
<1>9. Buffered'
  BY <1>1, <1>2, <1>4, <1>5 DEF Buffered, AtDisk, Reading, Buffer, Underway
<1>10. UploadFollows' /\ Confirmed' /\ Promised' /\ Announced'
  BY <1>1, <1>2, <1>4, <1>5
     DEF UploadFollows, Confirmed, Promised, Announced, Whole, Underway, Closed, AtServer, Control
<1> QED
  BY <1>6, <1>7, <1>8, <1>9, <1>10 DEF Inv

LEMMA StatStep ==
    ASSUME Inv, Stat
    PROVE  Inv'
<1>1. /\ pc = "stat"
      /\ asked' = IF AtDisk THEN asked ELSE asked \cup {get.url}
      /\ get' = [Idle EXCEPT !.url = job.from]
      /\ UNCHANGED <<job, read, fed, write, put, object, stored>>
      /\ \/ \E n \in Amounts \cup {None} : frame' = [frame EXCEPT !.size = n] /\ pc' = "open"
         \/ frame' = [frame EXCEPT !.ok = FALSE] /\ pc' = "finish"
  BY DEF Stat, Fail, AtDisk, Amounts, target
<1>2. /\ TypeOK /\ HopsStayInRoot /\ Control /\ InOrder /\ Buffered
      /\ UploadFollows /\ Confirmed /\ Promised /\ Announced
  BY DEF Inv
<1>3. /\ job.from \in Urls
      /\ ~AtDisk => job.from \in Root /\ get.url \in Root
  BY <1>2, SourcesAssumption DEF TypeOK, Jobs, Urls, AtDisk, InOrder
<1>4. /\ get' = [url |-> job.from, hops |-> 0, answer |-> None, location |-> None,
                 length |-> 0, at |-> 0, held |-> FALSE, over |-> None]
      /\ get' \in Gets /\ get'.answer = None /\ get'.at = 0
  <2>1. /\ 0 \in Amounts /\ None \in Places
        /\ None \in Ends /\ None \in Answers
    BY SizesAssumption DEF Amounts, Places, Ends, Answers
  <2> QED
    BY <1>1, <1>3, <2>1 DEF Gets, Idle
<1>5. /\ frame' \in Frames /\ frame'.ok \in {frame.ok, FALSE} /\ frame'.ended = frame.ended
      /\ frame'.announced = frame.announced
      /\ pc' \in {"open", "finish"}
  BY <1>1, <1>2 DEF TypeOK, Frames
<1>6. TypeOK'
  BY <1>1, <1>2, <1>3, <1>4, <1>5 DEF TypeOK, HopsStayInRoot
<1>7. HopsStayInRoot'
  BY <1>1, <1>2, <1>3 DEF HopsStayInRoot
<1>8. InOrder'
  <2>1. fed = <<>> /\ read.used = <<>> /\ read.pending = <<>>
    BY <1>1, <1>2 DEF Control
  <2>2. <<>> \o (<<>> \o <<>>) = <<>> /\ Body(job.from, 0) = <<>>
    BY DEF Body
  <2> QED
    BY <1>1, <1>3, <1>4, <2>1, <2>2, NoneAssumption DEF InOrder, AtDisk
<1>9. Control' /\ Buffered'
  <2>1. Control'
    BY <1>1, <1>2, <1>4, <1>5 DEF Control, Underway, AtDisk, AtServer
  <2>2. Buffered'
    <3>1. ~read.complete /\ read.used = <<>> /\ read.pending = <<>> /\ ~frame.ended
      BY <1>1, <1>2 DEF Control, Underway
    <3> QED
      BY <1>1, <1>2, <1>4, <1>5, <3>1 DEF Buffered, AtDisk, Reading, Buffer, Underway
  <2> QED
    BY <2>1, <2>2
<1>10. UploadFollows' /\ Confirmed' /\ Promised' /\ Announced'
  <2>1. ~write.open /\ put.answer = None /\ ~write.finishing /\ ~frame.ok
    BY <1>1, <1>2 DEF Control, Underway, Confirmed
  <2>2. UploadFollows'
    BY <1>1, <1>2, <1>5, <2>1 DEF UploadFollows, Underway
  <2>3. Confirmed'
    BY <1>1, <2>1, NoneAssumption DEF Confirmed
  <2>4. Promised' /\ Announced'
    BY <1>1, <1>2, <1>5, <2>1 DEF Promised, Announced, Closed, AtServer
  <2> QED
    BY <2>2, <2>3, <2>4
<1> QED
  BY <1>6, <1>7, <1>8, <1>9, <1>10 DEF Inv

LEMMA OpenStep ==
    ASSUME Inv, Open
    PROVE  Inv'
<1>1. /\ pc = "open"
      /\ UNCHANGED <<job, read, get, asked, put, object, fed, stored>>
      /\ \/ write' = [write EXCEPT !.open = AtServer] /\ pc' = "read" /\ frame' = frame
         \/ write' = write /\ pc' = "finish" /\ frame' = [frame EXCEPT !.ok = FALSE]
  BY DEF Open, Fail, AtServer, source
<1>2. /\ TypeOK /\ HopsStayInRoot /\ Control /\ InOrder /\ Buffered
      /\ UploadFollows /\ Confirmed /\ Promised /\ Announced
  BY DEF Inv
<1>3. /\ write' \in Writes /\ (write'.open => AtServer) /\ write'.input = write.input
      /\ write'.finishing = write.finishing /\ write'.complete = write.complete
      /\ write'.failed = write.failed
      /\ pc' = "read" => write'.open = AtServer
      /\ pc' = "finish" => write'.open = write.open
  <2>1. AtServer \in BOOLEAN /\ write \in Writes
    BY <1>2 DEF AtServer, TypeOK
  <2>2. ASSUME NEW b \in BOOLEAN, write' = [write EXCEPT !.open = b]
        PROVE  /\ write' \in Writes /\ write'.open = b /\ write'.input = write.input
               /\ write'.finishing = write.finishing /\ write'.complete = write.complete
               /\ write'.failed = write.failed
    BY <2>1, <2>2 DEF Writes
  <2>3. CASE write' = [write EXCEPT !.open = AtServer] /\ pc' = "read"
    BY <2>1, <2>2, <2>3
  <2>4. CASE write' = write /\ pc' = "finish"
    <3>1. ~write.open
      BY <1>1, <1>2 DEF Control
    <3> QED
      BY <2>1, <2>4, <3>1
  <2> QED
    BY <1>1, <2>3, <2>4
<1>4. /\ frame' \in Frames /\ frame'.size = frame.size /\ frame'.ended = frame.ended
      /\ frame'.announced = frame.announced /\ frame'.ok \in {frame.ok, FALSE}
      /\ pc' \in {"read", "finish"}
  BY <1>1, <1>2 DEF Frames, TypeOK
<1>5. TypeOK'
  BY <1>1, <1>2, <1>3, <1>4 DEF TypeOK
<1>6. HopsStayInRoot' /\ InOrder'
  BY <1>1, SourceKept DEF source
<1>7. Control' /\ Buffered'
  BY <1>1, <1>2, <1>3, <1>4 DEF Control, Buffered, Underway, AtDisk, AtServer, Reading, Buffer
<1>8. UploadFollows'
  <2>1. put.taken = <<>> /\ fed = <<>> /\ write.input = <<>> /\ ~frame.ok /\ ~write.finishing
    BY <1>1, <1>2 DEF Control, UploadFollows, Underway
  <2> QED
    BY <1>1, <1>3, <1>4, <2>1 DEF UploadFollows, Underway
<1>9. Confirmed' /\ Promised' /\ Announced'
  BY <1>1, <1>2, <1>3, <1>4, NoneAssumption
     DEF Confirmed, Promised, Announced, Whole, Underway, Closed, AtServer, Control
<1> QED
  BY <1>5, <1>6, <1>7, <1>8, <1>9 DEF Inv

-----------------------------------------------------------------------------
(* Reading. *)

LEMMA ReadDiskStep ==
    ASSUME Inv, ReadDisk
    PROVE  Inv'
<1>1. /\ pc = "read" /\ AtDisk
      /\ UNCHANGED <<job, read, get, asked, write, put, object, stored>>
      /\ \/ \E n \in 1 .. Min({Buffer, Length - Len(fed)}) :
              /\ frame' = [frame EXCEPT !.piece = SubSeq(Body(Disk, Length), Len(fed) + 1, Len(fed) + n)]
              /\ fed' = fed \o frame'.piece
              /\ pc' = "write"
         \/ pc' = "finish" /\ frame' = [frame EXCEPT !.ok = TRUE, !.ended = TRUE] /\ fed' = fed
         \/ pc' = "finish" /\ frame' = [frame EXCEPT !.ok = FALSE] /\ fed' = fed
  BY DEF ReadDisk, Fail, AtDisk, source, target
<1>2. /\ TypeOK /\ HopsStayInRoot /\ Control /\ InOrder /\ Buffered
      /\ UploadFollows /\ Confirmed /\ Promised /\ Announced
  BY DEF Inv
<1>3. ASSUME NEW n \in 1 .. Min({Buffer, Length - Len(fed)})
      PROVE  SubSeq(Body(Disk, Length), Len(fed) + 1, Len(fed) + n) \in Seq(Blocks)
  <2>1. Len(fed) \in Nat /\ Buffer \in Nat /\ Length \in Nat
    BY <1>2, JobFacts DEF TypeOK
  <2>2. n \in Nat /\ Len(fed) + n <= Length
    BY <2>1, MinOfTwo
  <2> QED
    BY <2>1, <2>2, BodyGoesOn
<1>4. /\ frame' \in Frames /\ frame'.size = frame.size /\ frame'.announced = frame.announced
      /\ fed' \in Seq(Blocks)
      /\ \/ /\ pc' = "write" /\ frame'.ok = frame.ok /\ frame'.ended = frame.ended
            /\ frame'.piece \in Seq(Blocks) /\ fed' = fed \o frame'.piece
         \/ pc' = "finish" /\ frame'.ok /\ frame'.ended /\ fed' = fed
         \/ pc' = "finish" /\ ~frame'.ok /\ frame'.ended = frame.ended /\ fed' = fed
  <2>1. frame \in Frames /\ fed \in Seq(Blocks)
    BY <1>2 DEF TypeOK
  <2>2. CASE \E n \in 1 .. Min({Buffer, Length - Len(fed)}) :
               /\ frame' = [frame EXCEPT !.piece = SubSeq(Body(Disk, Length), Len(fed) + 1, Len(fed) + n)]
               /\ fed' = fed \o frame'.piece
               /\ pc' = "write"
    <3>1. PICK piece \in Seq(Blocks) : /\ frame' = [frame EXCEPT !.piece = piece]
                                       /\ fed' = fed \o frame'.piece /\ pc' = "write"
      BY <1>3, <2>2
    <3>2. frame' \in Frames /\ frame'.piece = piece
      BY <2>1, <3>1 DEF Frames
    <3>3. fed' \in Seq(Blocks)
      BY <2>1, <3>1, <3>2, ConcatProperties
    <3> QED
      BY <2>1, <3>1, <3>2, <3>3 DEF Frames
  <2>3. CASE ~ (pc' = "write")
    BY <1>1, <2>1, <2>3 DEF Frames
  <2> QED
    BY <1>1, <2>2, <2>3
<1>5. TypeOK'
  BY <1>1, <1>2, <1>4 DEF TypeOK
<1>6. HopsStayInRoot' /\ InOrder'
  BY <1>1, <1>2 DEF HopsStayInRoot, InOrder, AtDisk
<1>7. Control' /\ Buffered'
  BY <1>1, <1>2, <1>4 DEF Control, Buffered, Underway, AtDisk, AtServer, Reading, Buffer
<1>8. UploadFollows'
  <2>1. /\ write.input = <<>> /\ ~frame.ok /\ ~write.finishing
        /\ write.open => put.taken \o <<>> = fed
    BY <1>1, <1>2 DEF Control, UploadFollows, Underway
  <2>2. put.taken \o <<>> = put.taken
    BY <1>2, ConcatEmptySeq DEF TypeOK, Puts
  <2> QED
    BY <1>1, <1>2, <1>4, <2>1, <2>2 DEF UploadFollows, Underway
<1>9. Confirmed' /\ Promised' /\ Announced'
  <2>1. AtServer
    BY <1>1, <1>2, JobFacts DEF TypeOK
  <2> QED
    BY <1>1, <1>2, <1>4, <2>1
       DEF Confirmed, Promised, Announced, Whole, Underway, Closed, AtServer, Control
<1> QED
  BY <1>5, <1>6, <1>7, <1>8, <1>9 DEF Inv

LEMMA TargetWaits ==
    ASSUME Inv, UNCHANGED <<job, fed, write, put, object, stored>>,
           frame'.size = frame.size, frame'.announced = frame.announced,
           pc \in {"read", "loop", "receiving", "returning"},
           \/ pc' \in {"read", "loop", "receiving", "returning"} /\ frame'.ok = frame.ok
           \/ pc' = "finish" /\ ~frame'.ok
    PROVE  UploadFollows' /\ Confirmed' /\ Promised' /\ Announced'
<1>1. Control /\ UploadFollows /\ Confirmed /\ Promised /\ Announced
  BY DEF Inv
<1>2. ~frame.ok /\ ~write.finishing /\ write.input = <<>>
  BY <1>1 DEF Control, Underway, UploadFollows
<1>3. UploadFollows'
  BY <1>1, <1>2 DEF UploadFollows, Underway
<1>4. Confirmed'
  BY <1>1 DEF Confirmed, Whole
<1>5. Promised' /\ Announced'
  BY <1>1, <1>2 DEF Promised, Announced, Closed, AtServer
<1> QED
  BY <1>3, <1>4, <1>5

LEMMA ReadStartStep ==
    ASSUME Inv, ReadStart
    PROVE  Inv'
<1> DEFINE n == Min({Buffer, Len(read.pending)})
           full == n = Buffer
           resumed == read.paused /\ n = Len(read.pending) /\ ~full
<1>1. /\ pc = "read" /\ ~AtDisk
      /\ read' = [read EXCEPT !.used = SubSeq(read.pending, 1, n),
                              !.pending = SubSeq(@, n + 1, Len(@)),
                              !.paused = @ /\ ~resumed]
      /\ get' \in {get, [get EXCEPT !.held = FALSE]}
      /\ pc' = IF full \/ read.complete THEN "returning" ELSE "loop"
      /\ UNCHANGED <<job, frame, asked, fed, write, put, object, stored>>
  BY DEF ReadStart, AtDisk, Continued, target
<1>2. /\ TypeOK /\ HopsStayInRoot /\ Control /\ InOrder /\ Buffered
      /\ UploadFollows /\ Confirmed /\ Promised /\ Announced
  BY DEF Inv
<1>3. /\ Buffer \in Nat \ {0} /\ read.pending \in Seq(Blocks) /\ Len(read.pending) \in Nat
      /\ read \in Reads /\ fed \in Seq(Blocks)
  BY <1>2, JobFacts DEF TypeOK, Reads
<1>4. /\ n \in 0 .. Len(read.pending) /\ n <= Buffer
      /\ full \/ n = Len(read.pending)
  BY <1>3, MinOfTwo
<1> HIDE DEF n
<1> DEFINE a == SubSeq(read.pending, 1, n)
           b == SubSeq(read.pending, n + 1, Len(read.pending))
<1>5. a \in Seq(Blocks) /\ Len(a) = n /\ b \in Seq(Blocks) /\ Len(b) = Len(read.pending) - n
      /\ a \o b = read.pending
  BY <1>3, <1>4, Halves
<1> HIDE DEF a, b
<1>6. /\ read' \in Reads /\ read'.used = a /\ read'.pending = b
      /\ read'.paused = (read.paused /\ ~resumed)
      /\ read'.outside = read.outside
      /\ read'.complete = read.complete /\ read'.failed = read.failed
  <2>1. read' = [read EXCEPT !.used = a, !.pending = b, !.paused = read.paused /\ ~resumed]
    BY <1>1, <1>3 DEF a, b, Reads
  <2>2. (read.paused /\ ~resumed) \in BOOLEAN
    OBVIOUS
  <2> HIDE DEF resumed
  <2> QED
    BY <1>3, <1>5, <2>1, <2>2 DEF Reads
<1>7. /\ get' \in Gets /\ get'.url = get.url /\ get'.answer = get.answer /\ get'.location = get.location
      /\ get'.length = get.length /\ get'.at = get.at /\ get'.over = get.over
  BY <1>1, <1>2 DEF TypeOK, Gets
<1>8. TypeOK'
  BY <1>1, <1>2, <1>6, <1>7 DEF TypeOK
<1>9. HopsStayInRoot' /\ InOrder'
  <2>1. read.used = <<>> /\ <<>> \o read.pending = read.pending
    BY <1>1, <1>2, <1>3, ConcatEmptySeq DEF Buffered, Reading, Underway
  <2>2. fed' \o (read'.used \o read'.pending) = fed \o (read.used \o read.pending)
    BY <1>1, <1>5, <1>6, <2>1
  <2>3. job' = job /\ InOrder
    BY <1>1, <1>2
  <2> HIDE DEF resumed
  <2>4. InOrder'
    BY <1>7, <2>2, <2>3, OrderKept
  <2> QED
    BY <1>1, <1>2, <2>4 DEF HopsStayInRoot
<1>10. Control'
  BY <1>1, <1>2, <1>6, <1>7 DEF Control, Underway, AtDisk, AtServer
<1>11. Buffered'
  <2>1. Len(a) <= Buffer' /\ pc' # "read" /\ frame'.ended = frame.ended
    BY <1>1, <1>4, <1>5 DEF Buffer
  <2>2. CASE pc' = "loop"
    <3>1. ~full /\ ~read.complete
      BY <1>1, <2>2
    <3>2. Len(b) = 0 /\ b = <<>>
      BY <1>4, <1>5, <3>1
    <3>3. ~read'.paused
      BY <1>4, <1>6, <3>1
    <3> QED
      BY <1>1, <1>2, <1>6, <1>7, <2>1, <2>2, <3>1, <3>2, <3>3 DEF Buffered, Reading, AtDisk, Underway
  <2>3. CASE pc' = "returning"
    <3>1. ASSUME a = <<>>
          PROVE  read.complete /\ b = <<>>
      <4>1. n = 0 /\ ~full
        BY <1>3, <1>5, <3>1
      <4> QED
        BY <1>1, <1>4, <1>5, <2>3, <4>1
    <3> QED
      BY <1>1, <1>2, <1>6, <1>7, <2>1, <2>3, <3>1 DEF Buffered, Reading, AtDisk, Underway
  <2> QED
    BY <1>1, <2>2, <2>3
<1>12. UploadFollows' /\ Confirmed' /\ Promised' /\ Announced'
  BY <1>1, TargetWaits
<1> QED
  BY <1>8, <1>9, <1>10, <1>11, <1>12 DEF Inv

LEMMA ReadFailsStep ==
    ASSUME Inv, pc \in {"loop", "receiving", "returning"}, ReadFails,
           UNCHANGED <<job, get, asked, target, fed>>
    PROVE  Inv'
<1>1. /\ read' = [read EXCEPT !.failed = TRUE] /\ pc' = "finish"
      /\ frame' = [frame EXCEPT !.ok = FALSE]
      /\ UNCHANGED <<job, get, asked, fed, write, put, object, stored>>
  BY DEF ReadFails, Fail, target
<1>2. /\ TypeOK /\ HopsStayInRoot /\ Control /\ InOrder /\ Buffered
      /\ UploadFollows /\ Confirmed /\ Promised /\ Announced
  BY DEF Inv
<1>3. /\ read' \in Reads /\ read'.used = read.used /\ read'.pending = read.pending
      /\ read'.paused = read.paused /\ read'.complete = read.complete
  BY <1>1, <1>2 DEF TypeOK, Reads
<1>4. /\ frame' \in Frames /\ frame'.size = frame.size /\ frame'.ended = frame.ended
      /\ frame'.announced = frame.announced /\ ~frame'.ok
  BY <1>1, <1>2 DEF TypeOK, Frames
<1>5. TypeOK'
  BY <1>1, <1>2, <1>3, <1>4 DEF TypeOK
<1>6. HopsStayInRoot' /\ InOrder'
  <2>1. InOrder'
    BY <1>1, <1>2, <1>3, OrderKept
  <2> QED
    BY <1>1, <1>2, <2>1 DEF HopsStayInRoot
<1>7. Control'
  BY <1>1, <1>2, <1>3, <1>4 DEF Control, Underway, AtDisk, AtServer
<1>8. Buffered'
  BY <1>1, <1>2, <1>3, <1>4 DEF Buffered, Reading, AtDisk, Buffer, Underway
<1>9. UploadFollows' /\ Confirmed' /\ Promised' /\ Announced'
  BY <1>1, <1>4, TargetWaits
<1> QED
  BY <1>5, <1>6, <1>7, <1>8, <1>9 DEF Inv

LEMMA ReadLoopStep ==
    ASSUME Inv, ReadLoop
    PROVE  Inv'
<1>1. CASE ReadFails
  BY <1>1, ReadFailsStep DEF ReadLoop
<1>2. CASE pc' = "receiving" /\ UNCHANGED <<read, frame>>
  <2>1. /\ pc = "loop" /\ pc' = "receiving"
        /\ UNCHANGED <<job, frame, read, get, asked, fed, write, put, object, stored>>
    BY <1>2 DEF ReadLoop, target
  <2>2. /\ TypeOK /\ HopsStayInRoot /\ Control /\ InOrder /\ Buffered
    BY DEF Inv
  <2>3. TypeOK'
    BY <2>1, <2>2 DEF TypeOK
  <2>4. HopsStayInRoot' /\ InOrder'
    BY <2>1, SourceKept DEF source
  <2>5. Control' /\ Buffered'
    BY <2>1, <2>2 DEF Control, Buffered, Underway, AtDisk, AtServer, Reading, Buffer
  <2>6. UploadFollows' /\ Confirmed' /\ Promised' /\ Announced'
    BY <2>1, TargetWaits
  <2> QED
    BY <2>3, <2>4, <2>5, <2>6 DEF Inv
<1> QED
  BY <1>1, <1>2 DEF ReadLoop

\* Some steps of libcurl touch neither the program counter nor the copy.
LEMMA AnswerStep ==
    ASSUME Inv, Answer
    PROVE  Inv'
<1>1. /\ pc = "receiving" /\ get.over = None /\ get.answer = None
      /\ asked' = asked \/ (asked' = asked \cup {get.url} /\ (job.guarded => get.url \in Root))
      /\ UNCHANGED <<job, pc, frame, read, fed, write, put, object, stored>>
      /\ \/ \E n \in Amounts : get' = [get EXCEPT !.answer = 200, !.length = n]
         \/ \E u \in Root \cup Outside : get' = [get EXCEPT !.answer = 302, !.location = u]
         \/ get' = [get EXCEPT !.answer = 401]
         \/ get' = [get EXCEPT !.over = "error"]
  BY DEF Answer, Receiving, Sendable, InRoot, Amounts, target
<1>2. /\ TypeOK /\ HopsStayInRoot /\ Control /\ InOrder /\ Buffered
      /\ UploadFollows /\ Confirmed /\ Promised /\ Announced
  BY DEF Inv
<1>3. /\ ~AtDisk /\ get.url \in Root /\ get.at = 0 /\ get.location = None /\ get \in Gets
      /\ ~frame.ended /\ ~read.complete
  <2>1. ~Ok(None) /\ None # 302
    BY NoneAssumption DEF Ok
  <2> QED
    BY <1>1, <1>2, <2>1 DEF Control, InOrder, TypeOK, Underway, Buffered, Reading
<1>4. /\ get' \in Gets /\ get'.url = get.url /\ get'.at = get.at
      /\ get'.over # "ok" /\ (get'.location # None => get'.answer = 302)
  <2>1. /\ 200 \in Answers /\ 302 \in Answers /\ 401 \in Answers /\ "error" \in Ends
        /\ Root \cup Outside \subseteq Places
    BY DEF Answers, Ends, Places
  <2>2. "error" # "ok" /\ None # "ok"
    BY NoneAssumption
  <2>3. CASE \E m \in Amounts : get' = [get EXCEPT !.answer = 200, !.length = m]
    <3>1. ASSUME NEW a \in Answers, NEW m \in Amounts,
                 get' = [get EXCEPT !.answer = a, !.length = m]
          PROVE  /\ get' \in Gets /\ get'.url = get.url /\ get'.at = get.at
                 /\ get'.over = get.over /\ get'.location = get.location
      BY <1>3, <3>1 DEF Gets
    <3>2. \E a \in Answers, m \in Amounts : get' = [get EXCEPT !.answer = a, !.length = m]
      BY <2>1, <2>3, Zenon
    <3> QED
      BY <1>1, <1>3, <2>2, <3>1, <3>2
  <2>4. CASE \E u \in Root \cup Outside : get' = [get EXCEPT !.answer = 302, !.location = u]
    <3>1. ASSUME NEW a \in Answers, NEW u \in Places,
                 get' = [get EXCEPT !.answer = a, !.location = u]
          PROVE  /\ get' \in Gets /\ get'.url = get.url /\ get'.at = get.at
                 /\ get'.over = get.over /\ get'.answer = a
      BY <1>3, <3>1 DEF Gets
    <3>2. PICK a \in Answers, u \in Places :
             a = 302 /\ get' = [get EXCEPT !.answer = a, !.location = u]
      BY <2>1, <2>4, Zenon
    <3>3. /\ get' \in Gets /\ get'.url = get.url /\ get'.at = get.at
          /\ get'.over = get.over /\ get'.answer = 302
      BY <3>1, <3>2
    <3> QED
      BY <1>1, <2>2, <3>3
  <2>5. CASE get' = [get EXCEPT !.answer = 401]
    BY <1>1, <1>3, <2>1, <2>2, <2>5 DEF Gets
  <2>6. CASE get' = [get EXCEPT !.over = "error"]
    BY <1>3, <2>1, <2>2, <2>6 DEF Gets
  <2> QED
    BY <1>1, <2>3, <2>4, <2>5, <2>6
<1>5. TypeOK'
  BY <1>1, <1>2, <1>3, <1>4 DEF TypeOK
<1>6. HopsStayInRoot'
  BY <1>1, <1>2, <1>3 DEF HopsStayInRoot
<1>7. InOrder'
  <2>1. get'.length \in Nat /\ get'.at <= get'.length
    BY <1>3, <1>4, SizesAssumption DEF Gets, Amounts
  <2>2. fed' \o (read'.used \o read'.pending) = Body(get'.url, get'.at)
    BY <1>1, <1>2, <1>3, <1>4 DEF InOrder
  <2> HIDE DEF Body
  <2> QED
    BY <1>3, <1>4, <2>1, <2>2 DEF InOrder
<1>8. Control' /\ Buffered'
  <2>1. Control'
    BY <1>1, <1>2 DEF Control, Underway, AtDisk, AtServer
  <2>2. Buffered'
    BY <1>1, <1>2, <1>3 DEF Buffered, Reading, AtDisk, Buffer, Underway
  <2> QED
    BY <2>1, <2>2
<1>9. UploadFollows' /\ Confirmed' /\ Promised' /\ Announced'
  BY <1>1, <1>2, TargetWaits
<1> QED
  BY <1>5, <1>6, <1>7, <1>8, <1>9 DEF Inv

LEMMA StreamDataStep ==
    ASSUME Inv, StreamData
    PROVE  Inv'
<1>1. /\ pc = "receiving" /\ Ok(get.answer) /\ get.over = None
      /\ UNCHANGED <<job, pc, frame, asked, fed, write, put, object, stored>>
  BY DEF StreamData, Receiving, target
<1>2. /\ TypeOK /\ HopsStayInRoot /\ Control /\ InOrder /\ Buffered
      /\ UploadFollows /\ Confirmed /\ Promised /\ Announced
  BY DEF Inv
<1>3. /\ ~AtDisk /\ get.url \in Root /\ get \in Gets /\ read \in Reads
      /\ ~frame.ended /\ ~read.complete /\ fed \in Seq(Blocks)
      /\ Len(read.used) <= Buffer
      /\ (read.paused \/ read.pending # <<>>) => Len(read.used) = Buffer
  BY <1>1, <1>2 DEF Control, InOrder, TypeOK, Underway, Buffered, Reading
<1>4. Buffer \in Nat \ {0} /\ Chunk \in Nat \ {0}
  BY <1>2, JobFacts DEF TypeOK
<1>5. PICK n \in 1 .. Min({Chunk, get.length - get.at}) :
        LET data == SubSeq(Body(get.url, get.length), get.at + 1, get.at + n)
            room == Min({n, Buffer - Len(read.used)})
        IN \/ /\ read' = [read EXCEPT !.outside = TRUE]
              /\ get' = [get EXCEPT !.over = "error"]
           \/ /\ Keeping
              /\ read' = [read EXCEPT !.paused = TRUE]
              /\ get' = [get EXCEPT !.held = TRUE]
           \/ /\ ~Keeping
              /\ read' = [read EXCEPT !.used = @ \o SubSeq(data, 1, room),
                                      !.pending = SubSeq(data, room + 1, n)]
              /\ get' = [get EXCEPT !.at = @ + n]
  BY DEF StreamData
<1>6. get.length \in Nat /\ get.at \in Nat /\ get.length <= Length /\ Length \in Nat
  BY <1>3, SizesAssumption DEF Gets, Amounts
<1>7. n \in Nat \ {0} /\ get.at + n <= get.length
  BY <1>4, <1>6, MinOfTwo
<1> DEFINE data == SubSeq(Body(get.url, get.length), get.at + 1, get.at + n)
           room == Min({n, Buffer - Len(read.used)})
           first == SubSeq(data, 1, room)
           rest == SubSeq(data, room + 1, n)
<1>8. /\ data \in Seq(Blocks) /\ Len(data) = n
      /\ Body(get.url, get.at) \o data = Body(get.url, get.at + n)
  <2>1. /\ get.url \in Root \cup {Disk} /\ n \in Nat /\ get.length \in Nat /\ get.at \in Nat
        /\ get.at + n <= get.length
    BY <1>3, <1>6, <1>7
  <2> HIDE DEF room, first, rest
  <2> QED
    BY <2>1, BodyGoesOn
<1>9. /\ read.used \in Seq(Blocks) /\ Len(read.used) \in Nat
      /\ room \in 0 .. n /\ room <= Buffer - Len(read.used)
      /\ room < n => room = Buffer - Len(read.used)
  <2>1. read.used \in Seq(Blocks) /\ Len(read.used) \in Nat
    BY <1>3 DEF Reads
  <2> QED
    BY <1>3, <1>4, <1>7, <2>1, MinOfTwo
<1> HIDE DEF data, room
<1>10. /\ first \in Seq(Blocks) /\ Len(first) = room
       /\ rest \in Seq(Blocks) /\ Len(rest) = n - room
       /\ first \o rest = data
  BY <1>8, <1>9, Halves
<1>11. \/ /\ read' = [read EXCEPT !.outside = TRUE]
          /\ get' = [get EXCEPT !.over = "error"]
       \/ /\ Keeping
          /\ read' = [read EXCEPT !.paused = TRUE]
          /\ get' = [get EXCEPT !.held = TRUE]
       \/ /\ ~Keeping
          /\ read' = [read EXCEPT !.used = read.used \o first, !.pending = rest]
          /\ get' = [get EXCEPT !.at = get.at + n]
  BY <1>3, <1>5 DEF data, room, Reads, Gets
<1> HIDE DEF first, rest
<1>12. read.used \o first \in Seq(Blocks) /\ Len(read.used \o first) = Len(read.used) + room
  BY <1>9, <1>10, ConcatProperties
<1>13. /\ get' \in Gets /\ get'.url = get.url /\ get'.answer = get.answer
       /\ get'.location = get.location /\ get'.length = get.length /\ get'.over # "ok"
       /\ get'.at \in {get.at, get.at + n}
  <2>1. "error" \in Ends /\ "error" # "ok" /\ None # "ok"
    BY NoneAssumption DEF Ends
  <2>2. get.at + n \in Amounts
    BY <1>6, <1>7 DEF Amounts
  <2> QED
    BY <1>1, <1>3, <1>11, <2>1, <2>2 DEF Gets
<1>14. /\ read' \in Reads /\ read'.failed = read.failed /\ read'.complete = read.complete
       /\ \/ /\ read'.used = read.used /\ read'.pending = read.pending /\ get'.at = get.at
             /\ read'.paused = read.paused \/ Keeping
          \/ /\ ~Keeping /\ read'.used = read.used \o first /\ read'.pending = rest
             /\ get'.at = get.at + n /\ read'.paused = read.paused
  BY <1>3, <1>10, <1>11, <1>12 DEF Reads, Gets
<1>15. TypeOK'
  BY <1>1, <1>2, <1>13, <1>14 DEF TypeOK
<1>16. HopsStayInRoot' /\ InOrder'
  <2>1. /\ fed \o (read.used \o read.pending) = Body(get.url, get.at)
        /\ get.at <= get.length /\ (get.location # None => get.answer = 302)
    BY <1>2, <1>3 DEF InOrder
  <2>2. fed' \o (read'.used \o read'.pending) = Body(get'.url, get'.at)
    <3>1. CASE read'.used = read.used /\ read'.pending = read.pending /\ get'.at = get.at
      BY <1>1, <1>13, <2>1, <3>1
    <3>2. CASE /\ ~Keeping /\ read'.used = read.used \o first /\ read'.pending = rest
               /\ get'.at = get.at + n
      <4>1. read.used \o read.pending = read.used
        BY <1>9, <3>2, ConcatEmptySeq DEF Keeping
      <4>2. (read.used \o first) \o rest = read.used \o data
        BY <1>9, <1>10, Joined
      <4>3. fed \o (read.used \o data) = (fed \o read.used) \o data
        BY <1>3, <1>8, <1>9, Joined
      <4> HIDE DEF Body
      <4>4. fed \o (read.used \o data) = Body(get.url, get.at + n)
        BY <1>8, <2>1, <4>1, <4>3
      <4> QED
        BY <1>1, <1>13, <3>2, <4>2, <4>4
    <3> QED
      BY <1>14, <3>1, <3>2
  <2>3. get'.at <= get'.length
    BY <1>7, <1>13, <2>1
  <2>4. InOrder'
    <3> HIDE DEF Body
    <3> QED
      BY <1>1, <1>3, <1>13, <2>1, <2>2, <2>3 DEF InOrder
  <2> QED
    BY <1>1, <1>2, <2>4 DEF HopsStayInRoot
<1>17. Control'
  BY <1>1, <1>2, <1>14 DEF Control, Underway, AtDisk, AtServer
<1>18. Buffered'
  <2>1. Buffer' = Buffer
    BY <1>1 DEF Buffer
  <2>2. Len(read'.used) <= Buffer /\ ((read'.paused \/ read'.pending # <<>>) => Len(read'.used) = Buffer)
    <3>1. CASE /\ read'.used = read.used /\ read'.pending = read.pending
               /\ read'.paused = read.paused \/ Keeping
      BY <1>3, <3>1 DEF Keeping
    <3>2. CASE /\ ~Keeping /\ read'.used = read.used \o first /\ read'.pending = rest
               /\ read'.paused = read.paused
      <4>1. rest # <<>> => room < n
        BY <1>7, <1>9, <1>10
      <4>2. Len(read'.used) = Len(read.used) + room
        BY <1>12, <3>2
      <4>3. rest # <<>> => Len(read'.used) = Buffer
        BY <1>4, <1>9, <4>1, <4>2
      <4>4. read.paused => Len(read'.used) = Buffer
        BY <1>3, <1>4, <1>9, <4>2
      <4> QED
        BY <1>4, <1>9, <3>2, <4>2, <4>3, <4>4
    <3> QED
      BY <1>14, <3>1, <3>2
  <2> QED
    BY <1>1, <1>3, <1>14, <2>1, <2>2 DEF Buffered, Reading, Underway
<1>19. UploadFollows' /\ Confirmed' /\ Promised' /\ Announced'
  BY <1>1, <1>2, TargetWaits
<1> QED
  BY <1>15, <1>16, <1>17, <1>18, <1>19 DEF Inv

LEMMA ReceivedStep ==
    ASSUME Inv, Received
    PROVE  Inv'
<1>1. /\ pc = "receiving"
      /\ UNCHANGED <<job, pc, frame, read, asked, fed, write, put, object, stored>>
      /\ \/ get' = [get EXCEPT !.over = "error"]
         \/ get' = [get EXCEPT !.over = "ok"] /\ get.at = get.length
  BY DEF Received, Receiving, target
<1>2. /\ TypeOK /\ HopsStayInRoot /\ Control /\ InOrder /\ Buffered
      /\ UploadFollows /\ Confirmed /\ Promised /\ Announced
  BY DEF Inv
<1>3. ~AtDisk /\ ~frame.ended /\ ~read.complete /\ get \in Gets
  BY <1>1, <1>2 DEF Control, TypeOK, Underway, Buffered, Reading
<1>4. /\ get' \in Gets /\ get'.url = get.url /\ get'.answer = get.answer /\ get'.at = get.at
      /\ get'.location = get.location /\ get'.length = get.length
      /\ get'.over = "ok" => get.at = get.length
  BY <1>1, <1>3 DEF Gets, Ends
<1>5. TypeOK'
  BY <1>1, <1>2, <1>4 DEF TypeOK
<1>6. HopsStayInRoot' /\ InOrder'
  <2>1. fed' \o (read'.used \o read'.pending) = Body(get'.url, get'.at)
    BY <1>1, <1>2, <1>3, <1>4 DEF InOrder
  <2>2. InOrder'
    <3> HIDE DEF Body
    <3> QED
      BY <1>1, <1>2, <1>3, <1>4, <2>1 DEF InOrder
  <2> QED
    BY <1>1, <1>2, <2>2 DEF HopsStayInRoot
<1>7. Control'
  BY <1>1, <1>2 DEF Control, Underway, AtDisk, AtServer
<1>8. Buffered'
  BY <1>1, <1>2, <1>3 DEF Buffered, Reading, Buffer, Underway
<1>9. UploadFollows' /\ Confirmed' /\ Promised' /\ Announced'
  BY <1>1, <1>2, TargetWaits
<1> QED
  BY <1>5, <1>6, <1>7, <1>8, <1>9 DEF Inv

\* A redirection is followed from the beginning: nothing of a body came with it.
LEMMA RedirectedStep ==
    ASSUME Inv, pc = "receiving", get.location \in Root, get.location # None,
           get' = [Idle EXCEPT !.url = get.location, !.hops = get.hops + 1], pc' = "loop",
           UNCHANGED <<job, read, frame, asked, target, fed>>
    PROVE  Inv'
<1>1. UNCHANGED <<job, read, frame, asked, fed, write, put, object, stored>>
  BY DEF target
<1>2. /\ TypeOK /\ HopsStayInRoot /\ Control /\ InOrder /\ Buffered
      /\ UploadFollows /\ Confirmed /\ Promised /\ Announced
  BY DEF Inv
<1>3. /\ ~AtDisk /\ ~frame.ended /\ ~read.complete /\ get \in Gets
  BY <1>2 DEF Control, TypeOK, Underway, Buffered, Reading
<1>4. get' \in Gets /\ get'.url \in Root /\ get'.at = 0 /\ get'.length = 0
      /\ get'.over = None /\ get'.location = None
  <2>1. /\ 0 \in Amounts /\ None \in Places /\ None \in Ends /\ None \in Answers
        /\ get.location \in Urls /\ get.hops + 1 \in Nat
    BY <1>3, SizesAssumption DEF Amounts, Places, Ends, Answers, Urls, Gets
  <2> QED
    BY <2>1 DEF Gets, Idle
<1>5. TypeOK'
  BY <1>1, <1>2, <1>4 DEF TypeOK
<1>6. HopsStayInRoot'
  BY <1>1, <1>2 DEF HopsStayInRoot
<1>7. InOrder'
  <2>1. get.at = 0
    <3>1. ~Ok(302)
      BY DEF Ok
    <3> QED
      BY <1>2, <1>3, <3>1 DEF InOrder
  <2>2. Body(get'.url, 0) = Body(get.url, 0)
    BY DEF Body
  <2>3. fed' \o (read'.used \o read'.pending) = Body(get'.url, get'.at)
    BY <1>1, <1>2, <1>3, <1>4, <2>1, <2>2 DEF InOrder
  <2> HIDE DEF Body
  <2> QED
    BY <1>1, <1>4, <2>3, NoneAssumption DEF InOrder
<1>8. Control' /\ Buffered'
  <2>1. Control'
    BY <1>1, <1>2 DEF Control, Underway, AtDisk, AtServer
  <2>2. Buffered'
    BY <1>1, <1>2, <1>3 DEF Buffered, Reading, Buffer, Underway
  <2> QED
    BY <2>1, <2>2
<1>9. UploadFollows' /\ Confirmed' /\ Promised' /\ Announced'
  BY <1>1, <1>2, TargetWaits
<1> QED
  BY <1>5, <1>6, <1>7, <1>8, <1>9 DEF Inv

\* One turn of the loop is over.
LEMMA TurnStep ==
    ASSUME Inv, pc = "receiving",
           read' = [read EXCEPT !.complete = (get.over # None)],
           pc' = IF Len(read.used) = Buffer \/ read.paused \/ get.over # None
                 THEN "returning" ELSE "loop",
           UNCHANGED <<job, frame, get, asked, target, fed>>
    PROVE  Inv'
<1>1. UNCHANGED <<job, frame, get, asked, fed, write, put, object, stored>>
  BY DEF target
<1>2. /\ TypeOK /\ HopsStayInRoot /\ Control /\ InOrder /\ Buffered
      /\ UploadFollows /\ Confirmed /\ Promised /\ Announced
  BY DEF Inv
<1>3. /\ read' \in Reads /\ read'.used = read.used /\ read'.pending = read.pending
      /\ read'.paused = read.paused /\ read'.failed = read.failed
      /\ read'.complete <=> get.over # None
  <2>1. (get.over # None) \in BOOLEAN /\ read \in Reads
    BY <1>2 DEF TypeOK
  <2>2. ASSUME NEW b \in BOOLEAN, read' = [read EXCEPT !.complete = b]
        PROVE  /\ read' \in Reads /\ read'.used = read.used /\ read'.pending = read.pending
               /\ read'.paused = read.paused /\ read'.failed = read.failed /\ read'.complete = b
    BY <2>1, <2>2 DEF Reads
  <2> QED
    BY <2>1, <2>2
<1>4. pc' \in {"returning", "loop"}
  OBVIOUS
<1>5. TypeOK'
  BY <1>1, <1>2, <1>3, <1>4 DEF TypeOK
<1>6. HopsStayInRoot' /\ InOrder'
  <2>1. InOrder'
    BY <1>1, <1>2, <1>3, OrderKept
  <2> QED
    BY <1>1, <1>2, <2>1 DEF HopsStayInRoot
<1>7. Control'
  BY <1>1, <1>2, <1>3, <1>4 DEF Control, Underway, AtDisk, AtServer
<1>8. Buffered'
  <2>1. Buffer \in Nat \ {0} /\ Buffer' = Buffer /\ ~frame.ended
    BY <1>1, <1>2, JobFacts DEF TypeOK, Buffer, Control, Underway
  <2>2. /\ Len(read.used) <= Buffer
        /\ read.paused \/ read.pending # <<>> => Len(read.used) = Buffer
    BY <1>2 DEF Buffered, Reading, Underway
  <2>3. ASSUME pc' = "returning", read.used = <<>>
        PROVE  read'.complete /\ read.pending = <<>>
    <3>1. Len(read.used) = 0
      BY <2>3
    <3> QED
      BY <1>3, <2>1, <2>2, <2>3, <3>1
  <2>4. pc' = "loop" => ~read'.complete /\ get.over = None
    BY <1>3
  <2> QED
    BY <1>1, <1>3, <1>4, <2>1, <2>2, <2>3, <2>4 DEF Buffered, Reading, Underway
<1>9. UploadFollows' /\ Confirmed' /\ Promised' /\ Announced'
  BY <1>1, <1>4, TargetWaits
<1> QED
  BY <1>5, <1>6, <1>7, <1>8, <1>9 DEF Inv

LEMMA PerformedStep ==
    ASSUME Inv, Performed
    PROVE  Inv'
<1>1. pc = "receiving" /\ UNCHANGED <<job, asked, target, fed>>
  BY DEF Performed
<1>2. CASE /\ get.location # None /\ get.location \in Root
           /\ get' = [Idle EXCEPT !.url = get.location, !.hops = get.hops + 1]
           /\ pc' = "loop" /\ UNCHANGED <<read, frame>>
  BY <1>1, <1>2, RedirectedStep
<1>3. CASE ReadFails /\ UNCHANGED get
  BY <1>1, <1>3, ReadFailsStep
<1>4. CASE /\ read' = [read EXCEPT !.complete = (get.over # None)]
           /\ pc' = IF Len(read.used) = Buffer \/ read.paused \/ get.over # None
                    THEN "returning" ELSE "loop"
           /\ UNCHANGED <<get, frame>>
  BY <1>1, <1>4, TurnStep
<1> QED
  BY <1>2, <1>3, <1>4 DEF Performed, Follows, InRoot

LEMMA ReadReturnsStep ==
    ASSUME Inv, ReadReturns
    PROVE  Inv'
<1>1. CASE Incomplete
  BY <1>1, ReadFailsStep DEF ReadReturns
<1>2. CASE ~Incomplete
  <2>1. /\ pc = "returning"
        /\ UNCHANGED <<job, get, asked, write, put, object, stored>>
        /\ read' = [read EXCEPT !.used = <<>>]
        /\ fed' = fed \o read.used
        /\ \/ /\ read.used # <<>>
              /\ frame' = [frame EXCEPT !.piece = read.used] /\ pc' = "write"
           \/ /\ read.used = <<>> /\ pc' = "finish"
              /\ frame' = [frame EXCEPT !.ended = TRUE,
                             !.ok = job.to = "disk" => frame.size \in {None, Len(fed)}]
    BY <1>2 DEF ReadReturns, target
  <2>2. /\ TypeOK /\ HopsStayInRoot /\ Control /\ InOrder /\ Buffered
        /\ UploadFollows /\ Confirmed /\ Promised /\ Announced
    BY DEF Inv
  <2>3. /\ read \in Reads /\ read.used \in Seq(Blocks) /\ read.pending \in Seq(Blocks)
        /\ fed \in Seq(Blocks) /\ frame \in Frames /\ ~AtDisk /\ Buffer' = Buffer
        /\ ~frame.ok /\ ~frame.ended /\ ~read.failed /\ ~write.failed /\ ~write.finishing
        /\ write.open = AtServer /\ write.input = <<>>
    BY <2>1, <2>2 DEF TypeOK, Reads, Control, Underway, UploadFollows, Buffer
  <2>4. /\ read' \in Reads /\ read'.used = <<>> /\ read'.pending = read.pending
        /\ read'.paused = read.paused /\ read'.complete = read.complete
        /\ read'.failed = read.failed
    <3>1. <<>> \in Seq(Blocks)
      OBVIOUS
    <3> QED
      BY <2>1, <2>3, <3>1 DEF Reads
  <2>5. fed' \in Seq(Blocks)
    BY <2>1, <2>3, ConcatProperties
  <2>6. /\ frame' \in Frames /\ frame'.size = frame.size /\ frame'.announced = frame.announced
        /\ \/ /\ pc' = "write" /\ frame'.ok = frame.ok /\ frame'.ended = frame.ended
              /\ frame'.piece = read.used
           \/ /\ pc' = "finish" /\ read.used = <<>> /\ frame'.ended
              /\ frame'.ok => (AtServer \/ frame.size \in {None, Len(fed)})
    <3>1. ASSUME NEW b \in BOOLEAN, frame' = [frame EXCEPT !.ended = TRUE, !.ok = b]
          PROVE  /\ frame' \in Frames /\ frame'.size = frame.size
                 /\ frame'.announced = frame.announced /\ frame'.ended /\ frame'.ok = b
      BY <2>3, <3>1 DEF Frames
    <3>2. CASE read.used # <<>>
      BY <2>1, <2>3, <3>2 DEF Frames
    <3>3. CASE read.used = <<>>
      <4>1. AtServer <=> job.to # "disk"
        BY <2>2, JobFacts DEF TypeOK
      <4> QED
        BY <2>1, <3>1, <3>3, <4>1
    <3> QED
      BY <3>2, <3>3
  <2>7. TypeOK'
    BY <2>1, <2>2, <2>4, <2>5, <2>6 DEF TypeOK
  <2>8. HopsStayInRoot' /\ InOrder'
    <3>1. /\ <<>> \o read.pending = read.pending
          /\ (fed \o read.used) \o read.pending = fed \o (read.used \o read.pending)
      BY <2>3, ConcatEmptySeq, Joined
    <3>2. fed' \o (read'.used \o read'.pending) = fed \o (read.used \o read.pending)
      BY <2>1, <2>4, <3>1
    <3>3. InOrder'
      BY <2>1, <2>2, <3>2, OrderKept
    <3> QED
      BY <2>1, <2>2, <3>3 DEF HopsStayInRoot
  <2>9. Control'
    BY <2>1, <2>2, <2>3, <2>4, <2>6 DEF Control, Underway, AtDisk, AtServer
  <2>10. Buffered'
    <3>1. Len(<<>>) = 0 /\ Buffer \in Nat
      BY <2>2, JobFacts DEF TypeOK
    <3>2. pc' = "finish" => Ok(get.answer)
      <4>1. read.used = <<>> /\ pc = "returning" => read.complete
        BY <2>2 DEF Buffered
      <4> QED
        BY <1>2, <2>1, <2>6, <4>1 DEF Incomplete
    <3> QED
      BY <2>1, <2>2, <2>3, <2>4, <2>6, <3>1, <3>2 DEF Buffered, Reading, AtDisk, Underway
  <2>11. UploadFollows'
    <3>1. write.open => put.taken \o <<>> = fed
      BY <2>1, <2>2, <2>3 DEF UploadFollows, Underway
    <3>2. put.taken \o <<>> = put.taken /\ fed \o <<>> = fed
      BY <2>2, <2>3, ConcatEmptySeq DEF TypeOK, Puts
    <3>3. write.open => put.taken \o read.used = fed'
      BY <2>1, <3>1, <3>2
    <3> QED
      BY <2>1, <2>2, <2>3, <2>6, <3>1, <3>2, <3>3 DEF UploadFollows, Underway
  <2>12. Confirmed' /\ Promised' /\ Announced'
    <3>1. Confirmed'
      BY <2>1, <2>2, <2>6 DEF Confirmed, Whole
    <3>2. read.used = <<>> => fed' = fed
      BY <2>1, <2>3, ConcatEmptySeq
    <3>3. Promised' /\ Announced'
      BY <2>1, <2>2, <2>3, <2>6, <3>2 DEF Promised, Announced, Closed, AtServer
    <3> QED
      BY <3>1, <3>3
  <2> QED
    BY <2>7, <2>8, <2>9, <2>10, <2>11, <2>12 DEF Inv
<1> QED
  BY <1>1, <1>2

-----------------------------------------------------------------------------
(* Writing. *)

LEMMA BufferKept ==
    ASSUME Inv, UNCHANGED <<job, source>>, frame'.ended = frame.ended,
           pc \notin {"loop", "receiving", "returning"},
           pc' \notin {"loop", "receiving", "returning"},
           Underway' => Underway
    PROVE  Buffered'
<1>1. Buffered /\ UNCHANGED <<job, read, get>> /\ ~Reading /\ ~Reading'
  BY DEF Inv, source, Reading
<1> QED
  BY <1>1 DEF Buffered, AtDisk, Buffer

LEMMA WriteStep ==
    ASSUME Inv, Write
    PROVE  Inv'
<1>1. /\ pc = "write"
      /\ UNCHANGED <<job, frame, read, get, asked, object, fed, stored>>
      /\ \/ job.to = "disk" /\ pc' = "read" /\ write' = write /\ put' = put
         \/ /\ job.to # "disk" /\ pc' = "drive"
            /\ write' = [write EXCEPT !.input = frame.piece, !.paused = FALSE]
            /\ put' \in {put, [put EXCEPT !.held = FALSE]}
  BY DEF Write, Continued, source
<1>2. /\ TypeOK /\ HopsStayInRoot /\ Control /\ InOrder /\ Buffered
      /\ UploadFollows /\ Confirmed /\ Promised /\ Announced
  BY DEF Inv
<1>3. AtServer <=> job.to # "disk"
  BY <1>2, JobFacts DEF TypeOK
<1>4. /\ write.open = AtServer /\ ~write.finishing /\ ~write.failed /\ write.input = <<>>
      /\ ~frame.ok /\ ~frame.ended
  BY <1>1, <1>2 DEF Control, Underway, UploadFollows
<1>5. /\ write' \in Writes /\ write'.open = write.open /\ write'.failed = write.failed
      /\ write'.finishing = write.finishing /\ write'.complete = write.complete
      /\ pc' = "read" => write'.input = <<>>
      /\ pc' = "drive" => write'.input = frame.piece
  BY <1>1, <1>2, <1>4 DEF TypeOK, Writes, Frames
<1>6. /\ put' \in Puts /\ put'.taken = put.taken /\ put'.eof = put.eof
      /\ put'.answer = put.answer /\ put'.over = put.over
  BY <1>1, <1>2 DEF TypeOK, Puts
<1>7. pc' \in {"read", "drive"} /\ (pc' = "drive" => AtServer) /\ (pc' = "read" => ~AtServer)
  BY <1>1, <1>3
<1>8. TypeOK'
  BY <1>1, <1>2, <1>5, <1>6, <1>7 DEF TypeOK
<1>9. HopsStayInRoot' /\ InOrder'
  BY <1>1, SourceKept DEF source
<1>10. Control' /\ Buffered'
  <2>1. Control'
    BY <1>1, <1>2, <1>4, <1>5, <1>7 DEF Control, Underway, AtDisk, AtServer
  <2>2. Buffered'
    BY <1>1, <1>7, BufferKept DEF Underway, source
  <2> QED
    BY <2>1, <2>2
<1>11. UploadFollows'
  <2>1. write.open => put.taken \o frame.piece = fed
    BY <1>1, <1>2 DEF UploadFollows, Underway
  <2>2. put.taken # <<>> => write.open
    BY <1>2 DEF UploadFollows
  <2> QED
    BY <1>1, <1>4, <1>5, <1>6, <1>7, <2>1, <2>2 DEF UploadFollows, Underway, AtServer
<1>12. Confirmed' /\ Promised' /\ Announced'
  <2>1. Confirmed'
    BY <1>1, <1>2, <1>5, <1>6 DEF Confirmed, Whole
  <2>2. Promised'
    BY <1>1, <1>2, <1>4, <1>6, <1>7 DEF Promised
  <2>3. Announced'
    BY <1>1, <1>2, <1>4, <1>5, <1>6, <1>7 DEF Announced, Closed
  <2> QED
    BY <2>1, <2>2, <2>3
<1> QED
  BY <1>8, <1>9, <1>10, <1>11, <1>12 DEF Inv

LEMMA FinishStep ==
    ASSUME Inv, Finish
    PROVE  Inv'
<1>1. /\ pc = "finish"
      /\ frame' = [frame EXCEPT !.announced = Started]
      /\ UNCHANGED <<job, read, get, asked, object, fed, stored>>
      /\ \/ /\ write.open /\ ~write.failed /\ pc' = "drive"
            /\ write' = [write EXCEPT !.finishing = TRUE, !.paused = FALSE, !.input = <<>>]
            /\ put' \in {put, [put EXCEPT !.held = FALSE]}
         \/ ~(write.open /\ ~write.failed) /\ pc' = "cleanup" /\ write' = write /\ put' = put
  BY DEF Finish, Continued, source
<1>2. /\ TypeOK /\ HopsStayInRoot /\ Control /\ InOrder /\ Buffered
      /\ UploadFollows /\ Confirmed /\ Promised /\ Announced
  BY DEF Inv
<1>3. /\ frame' \in Frames /\ frame'.size = frame.size /\ frame'.ended = frame.ended
      /\ frame'.ok = frame.ok
      /\ frame'.announced <=> write.open /\ put.taken # <<>>
  <2>1. Started \in BOOLEAN /\ frame \in Frames /\ write.open \in BOOLEAN
    BY <1>2 DEF TypeOK, Started, Writes
  <2>2. ASSUME NEW b \in BOOLEAN, frame' = [frame EXCEPT !.announced = b]
        PROVE  /\ frame' \in Frames /\ frame'.size = frame.size /\ frame'.ended = frame.ended
               /\ frame'.ok = frame.ok /\ frame'.announced = b
    BY <2>1, <2>2 DEF Frames
  <2>3. frame'.announced = Started
    BY <1>1, <2>1, <2>2
  <2> QED
    BY <1>1, <2>1, <2>2, <2>3 DEF Started
<1>4. ~write.finishing
  BY <1>1, <1>2 DEF Control
<1>5. /\ write' \in Writes /\ write'.open = write.open /\ write'.failed = write.failed
      /\ write'.complete = write.complete
      /\ pc' = "drive" => write'.finishing /\ write'.input = <<>> /\ write.open
      /\ pc' = "cleanup" => ~write'.finishing /\ write'.input = write.input
  <2>1. <<>> \in Seq(Blocks)
    OBVIOUS
  <2> QED
    BY <1>1, <1>2, <1>4, <2>1 DEF TypeOK, Writes
<1>6. /\ put' \in Puts /\ put'.taken = put.taken /\ put'.eof = put.eof
      /\ put'.answer = put.answer /\ put'.over = put.over
  BY <1>1, <1>2 DEF TypeOK, Puts
<1>7. /\ pc' \in {"drive", "cleanup"}
      /\ frame.ok /\ AtServer => pc' = "drive"
      /\ pc' = "drive" => ~write.failed
  BY <1>1, <1>2 DEF Control
<1>8. TypeOK'
  BY <1>1, <1>2, <1>3, <1>5, <1>6, <1>7 DEF TypeOK
<1>9. HopsStayInRoot' /\ InOrder'
  BY <1>1, SourceKept DEF source
<1>10. Control' /\ Buffered'
  <2>1. Control'
    BY <1>1, <1>2, <1>3, <1>5, <1>7 DEF Control, Underway, AtDisk, AtServer
  <2>2. Buffered'
    BY <1>1, <1>3, <1>5, <1>7, BufferKept DEF Underway, source
  <2> QED
    BY <2>1, <2>2
<1>11. UploadFollows'
  <2>1. frame.ok => write.input = <<>> /\ (write.open => put.taken \o write.input = fed)
    BY <1>1, <1>2 DEF UploadFollows
  <2>2. put.taken # <<>> => write.open
    BY <1>2 DEF UploadFollows
  <2> QED
    BY <1>1, <1>3, <1>5, <1>6, <1>7, <2>1, <2>2 DEF UploadFollows, Underway
<1>12. Confirmed' /\ Promised' /\ Announced'
  <2>1. Confirmed'
    BY <1>1, <1>2, <1>3, <1>5, <1>6 DEF Confirmed, Whole
  <2>2. Promised'
    BY <1>1, <1>2, <1>3, <1>6, <1>7 DEF Promised, AtServer
  <2>3. Announced'
    BY <1>1, <1>2, <1>3, <1>6 DEF Announced, UploadFollows
  <2> QED
    BY <2>1, <2>2, <2>3
<1> QED
  BY <1>8, <1>9, <1>10, <1>11, <1>12 DEF Inv

LEMMA DriveStep ==
    ASSUME Inv, Drive
    PROVE  Inv'
<1>1. /\ pc = "drive"
      /\ pc' = IF ~write.complete /\ (write.finishing \/ write.input # <<>>)
               THEN "sending" ELSE "driven"
      /\ UNCHANGED <<job, frame, read, get, asked, write, put, object, fed, stored>>
  BY DEF Drive, source, target
<1>2. /\ TypeOK /\ HopsStayInRoot /\ Control /\ InOrder /\ Buffered
      /\ UploadFollows /\ Confirmed /\ Promised /\ Announced
  BY DEF Inv
<1>3. /\ pc' \in {"sending", "driven"}
      /\ pc' = "driven" /\ ~write.finishing /\ ~write.complete => write.input = <<>>
  BY <1>1
<1>4. TypeOK'
  BY <1>1, <1>2, <1>3 DEF TypeOK
<1>5. HopsStayInRoot' /\ InOrder'
  BY <1>1, SourceKept DEF source
<1>6. Control' /\ Buffered'
  <2>1. Control'
    BY <1>1, <1>2, <1>3 DEF Control, Underway, AtDisk, AtServer
  <2>2. Buffered'
    BY <1>1, <1>3, BufferKept DEF Underway, source
  <2> QED
    BY <2>1, <2>2
<1>7. UploadFollows'
  BY <1>1, <1>2, <1>3 DEF UploadFollows, Underway
<1>8. Confirmed' /\ Promised' /\ Announced'
  BY <1>1, <1>2, <1>3 DEF Confirmed, Promised, Announced, Whole, Closed, AtServer
<1> QED
  BY <1>4, <1>5, <1>6, <1>7, <1>8 DEF Inv

LEMMA UploadReadStep ==
    ASSUME Inv, UploadRead
    PROVE  Inv'
<1>1. /\ pc = "sending" /\ put.answer = None
      /\ UNCHANGED <<job, pc, frame, read, get, asked, object, fed, stored>>
  BY DEF UploadRead, Sending, source
<1>2. /\ TypeOK /\ HopsStayInRoot /\ Control /\ InOrder /\ Buffered
      /\ UploadFollows /\ Confirmed /\ Promised /\ Announced
  BY DEF Inv
<1>3. /\ write \in Writes /\ put \in Puts /\ write.input \in Seq(Blocks)
      /\ put.taken \in Seq(Blocks) /\ write.open
      /\ write.finishing => write.input = <<>>
  BY <1>1, <1>2 DEF TypeOK, Writes, Puts, Control, UploadFollows
<1>4. /\ write' \in Writes /\ write'.open = write.open /\ write'.failed = write.failed
      /\ write'.finishing = write.finishing /\ write'.complete = write.complete
      /\ put' \in Puts /\ put'.answer = put.answer
      /\ \/ write'.input = write.input /\ put'.taken = put.taken
         \/ /\ write.input # <<>> /\ put'.taken # <<>>
            /\ put'.taken \o write'.input = put.taken \o write.input
  <2>1. CASE write.input # <<>>
    <3>1. PICK n \in 1 .. Min({Chunk, Left, Len(write.input)}) :
            /\ put' = [put EXCEPT !.taken = @ \o SubSeq(write.input, 1, n)]
            /\ write' = [write EXCEPT !.input = SubSeq(@, n + 1, Len(@))]
      BY <2>1 DEF UploadRead
    <3>2. Left \in Int /\ Chunk \in Nat \ {0} /\ Len(write.input) \in Nat
      <4>1. Len(put.taken) \in Nat /\ Chunk \in Nat \ {0} /\ Len(write.input) \in Nat
        BY <1>2, <1>3, JobFacts DEF TypeOK
      <4>2. frame.size # None => frame.size \in Nat
        BY <1>2, SizesAssumption DEF TypeOK, Frames, Amounts
      <4> QED
        BY <4>1, <4>2 DEF Left
    <3>3. n \in 1 .. Len(write.input)
      <4> DEFINE m == Min({Chunk, Left, Len(write.input)})
      <4>1. m \in Int /\ m <= Len(write.input)
        <5>1. Chunk \in Int /\ Left \in Int /\ Len(write.input) \in Int
          BY <3>2
        <5> QED
          BY <5>1, MinOfThree, Zenon
      <4>2. n \in 1 .. m
        OBVIOUS
      <4> HIDE DEF m
      <4> QED
        BY <3>2, <4>1, <4>2
    <3> DEFINE a == SubSeq(write.input, 1, n)
               b == SubSeq(write.input, n + 1, Len(write.input))
    <3>4. a \in Seq(Blocks) /\ Len(a) = n /\ b \in Seq(Blocks) /\ a \o b = write.input
      <4> DEFINE input == write.input
      <4>1. input \in Seq(Blocks) /\ n \in 0 .. Len(input)
        BY <1>3, <3>3
      <4> HIDE DEF input
      <4> QED
        BY <4>1, Halves, Zenon DEF input
    <3>5. put' = [put EXCEPT !.taken = put.taken \o a] /\ write' = [write EXCEPT !.input = b]
      BY <1>3, <3>1 DEF Writes, Puts
    <3> HIDE DEF a, b
    <3>6. put.taken \o a \in Seq(Blocks) /\ Len(put.taken \o a) = Len(put.taken) + n
      BY <1>3, <3>4, ConcatProperties
    <3>7. put.taken \o a # <<>>
      <4>1. Len(put.taken \o a) # 0
        BY <1>3, <3>3, <3>6
      <4> QED
        BY <4>1
    <3>8. (put.taken \o a) \o b = put.taken \o write.input
      <4>1. (put.taken \o a) \o b = put.taken \o (a \o b)
        <5>1. put.taken \in Seq(Blocks) /\ a \in Seq(Blocks) /\ b \in Seq(Blocks)
          BY <1>3, <3>4
        <5> QED
          BY <5>1, Joined
      <4> QED
        BY <3>4, <4>1
    <3>9. put' \in Puts /\ put'.taken = put.taken \o a /\ put'.answer = put.answer
      BY <1>3, <3>5, <3>6 DEF Puts
    <3>10. /\ write' \in Writes /\ write'.input = b /\ write'.open = write.open
           /\ write'.failed = write.failed
           /\ write'.finishing = write.finishing /\ write'.complete = write.complete
      BY <1>3, <3>4, <3>5 DEF Writes
    <3> QED
      BY <2>1, <3>7, <3>8, <3>9, <3>10
  <2>2. CASE write.input = <<>>
    BY <1>3, <2>2 DEF UploadRead, Writes, Puts
  <2> QED
    BY <2>1, <2>2
<1>5. TypeOK'
  BY <1>1, <1>2, <1>4 DEF TypeOK
<1>6. HopsStayInRoot' /\ InOrder'
  BY <1>1, SourceKept DEF source
<1>7. Control' /\ Buffered'
  <2>1. Control'
    BY <1>1, <1>2, <1>4 DEF Control, Underway, AtDisk, AtServer
  <2>2. Buffered'
    BY <1>1, <1>4, BufferKept DEF Underway, source
  <2> QED
    BY <2>1, <2>2
<1>8. UploadFollows'
  <2>1. write.open /\ (Underway \/ frame.ok) => put.taken \o write.input = fed
    BY <1>1, <1>2 DEF UploadFollows
  <2>2. frame.ok => write.input = <<>>
    BY <1>2 DEF UploadFollows
  <2> QED
    BY <1>1, <1>2, <1>3, <1>4, <2>1, <2>2 DEF UploadFollows, Underway
<1>9. Confirmed' /\ Promised' /\ Announced'
  <2>1. Confirmed'
    BY <1>1, <1>3, <1>4, NoneAssumption DEF Confirmed
  <2>2. Promised'
    BY <1>1, <1>2 DEF Promised, AtServer
  <2>3. Announced'
    <3>1. Closed => put'.taken = put.taken
      BY <1>1, <1>3, <1>4 DEF Closed
    <3>2. Closed' = Closed /\ frame'.announced = frame.announced
      BY <1>1, <1>4 DEF Closed
    <3> QED
      BY <1>1, <1>2, <1>4, <3>1, <3>2 DEF Announced
  <2> QED
    BY <2>1, <2>2, <2>3
<1> QED
  BY <1>5, <1>6, <1>7, <1>8, <1>9 DEF Inv

\* What the server does is seen in put, and in what it keeps.
LEMMA ServerStep ==
    ASSUME Inv, pc = "sending", UNCHANGED <<job, pc, frame, source, write, fed>>,
           put' \in Puts, put'.taken = put.taken, put'.eof = put.eof,
           object' \in Seq(Blocks) \cup {None, <<Other>>},
           stored' \in Seq(Blocks) \cup {None},
           put'.answer = 201 => stored' = put.taken /\ Whole,
           object' \notin {object, None, <<Other>>, <<>>} => put.taken # <<>>
    PROVE  Inv'
<1>1. UNCHANGED <<job, pc, frame, read, get, asked, write, fed>>
  BY DEF source
<1>2. /\ TypeOK /\ HopsStayInRoot /\ Control /\ InOrder /\ Buffered
      /\ UploadFollows /\ Confirmed /\ Promised /\ Announced
  BY DEF Inv
<1>3. TypeOK'
  BY <1>1, <1>2 DEF TypeOK
<1>4. HopsStayInRoot' /\ InOrder'
  BY SourceKept
<1>5. Control' /\ Buffered'
  <2>1. Control'
    BY <1>1, <1>2 DEF Control, Underway, AtDisk, AtServer
  <2>2. Buffered'
    BY <1>1, BufferKept DEF Underway
  <2> QED
    BY <2>1, <2>2
<1>6. UploadFollows'
  BY <1>1, <1>2 DEF UploadFollows, Underway
<1>7. Confirmed'
  BY <1>1, <1>2 DEF Confirmed, Whole, Control
<1>8. Promised' /\ Announced'
  <2>1. Promised'
    BY <1>1, <1>2 DEF Promised, AtServer
  <2>2. Announced'
    BY <1>1, <1>2 DEF Announced, Closed
  <2> QED
    BY <2>1, <2>2
<1> QED
  BY <1>3, <1>4, <1>5, <1>6, <1>7, <1>8 DEF Inv

LEMMA UploadAnswerStep ==
    ASSUME Inv, UploadAnswer
    PROVE  Inv'
<1>1. /\ pc = "sending" /\ put.answer = None
      /\ UNCHANGED <<job, pc, frame, source, write, fed>>
      /\ \/ put' = [put EXCEPT !.answer = 405] /\ object' = object /\ stored' = stored
         \/ put' = [put EXCEPT !.answer = 412] /\ object' = object /\ stored' = stored
         \/ /\ Whole /\ put' = [put EXCEPT !.answer = 201]
            /\ object' = put.taken /\ stored' = put.taken
  BY DEF UploadAnswer, Sending
<1>2. TypeOK /\ put \in Puts /\ put.taken \in Seq(Blocks)
  BY DEF Inv, TypeOK, Puts
<1>3. {405, 412, 201} \subseteq UploadAnswers
  BY DEF UploadAnswers
<1>4. /\ put' \in Puts /\ put'.taken = put.taken /\ put'.eof = put.eof
      /\ put'.answer = 201 => Whole /\ object' = put.taken /\ stored' = put.taken
      /\ object' # object => object' = put.taken
      /\ object' \in Seq(Blocks) \cup {None, <<Other>>} /\ stored' \in Seq(Blocks) \cup {None}
  <2>1. ASSUME NEW a \in UploadAnswers, put' = [put EXCEPT !.answer = a]
        PROVE  /\ put' \in Puts /\ put'.taken = put.taken /\ put'.eof = put.eof
               /\ put'.answer = a
    BY <1>2, <2>1 DEF Puts
  <2>2. PICK a \in {405, 412, 201} : put' = [put EXCEPT !.answer = a]
                    /\ (a # 201 => object' = object /\ stored' = stored)
                    /\ (a = 201 => Whole /\ object' = put.taken /\ stored' = put.taken)
    BY <1>1
  <2>3. /\ put' \in Puts /\ put'.taken = put.taken /\ put'.eof = put.eof
        /\ put'.answer = a
    BY <1>3, <2>1, <2>2
  <2> QED
    BY <1>2, <2>2, <2>3 DEF TypeOK
<1>5. object' \notin {object, None, <<Other>>, <<>>} => put.taken # <<>>
  BY <1>4
<1> QED
  BY <1>1, <1>4, <1>5, ServerStep

LEMMA UploadOverStep ==
    ASSUME Inv, UploadOver
    PROVE  Inv'
<1>1. /\ pc = "sending"
      /\ UNCHANGED <<job, pc, frame, source, write, fed>> /\ stored' = stored
      /\ put' \in {[put EXCEPT !.over = "ok"], [put EXCEPT !.over = "error"]}
      /\ object' # object => \E k \in 0 .. Len(put.taken) : object' = SubSeq(put.taken, 1, k)
  BY DEF UploadOver, Sending
<1>2. /\ TypeOK /\ Confirmed /\ put \in Puts /\ put.taken \in Seq(Blocks)
      /\ object \in Seq(Blocks) \cup {None, <<Other>>} /\ stored \in Seq(Blocks) \cup {None}
  BY DEF Inv, TypeOK, Puts
<1>3. put' \in Puts /\ put'.taken = put.taken /\ put'.eof = put.eof /\ put'.answer = put.answer
  BY <1>1, <1>2 DEF Puts, Ends
<1>4. ASSUME object' # object
      PROVE  object' \in Seq(Blocks) /\ (object' # <<>> => put.taken # <<>>)
  <2>1. PICK k \in 0 .. Len(put.taken) : object' = SubSeq(put.taken, 1, k)
    BY <1>1, <1>4
  <2>2. object' \in Seq(Blocks) /\ Len(object') = k
    BY <1>2, <2>1, Halves
  <2>3. put.taken = <<>> => k = 0
    OBVIOUS
  <2>4. Len(object') = 0 => object' = <<>>
    BY <2>2
  <2> QED
    BY <2>2, <2>3, <2>4
<1>5. put'.answer = 201 => stored' = put.taken /\ Whole
  BY <1>1, <1>2, <1>3 DEF Confirmed
<1> QED
  BY <1>1, <1>2, <1>3, <1>4, <1>5, ServerStep

LEMMA UploadPerformedStep ==
    ASSUME Inv, UploadPerformed
    PROVE  Inv'
<1>1. /\ pc = "sending"
      /\ write' = [write EXCEPT !.complete = (put.over # None)]
      /\ pc' = IF put.over # None \/ (~write.finishing /\ write.input = <<>>)
               THEN "driven" ELSE "drive"
      /\ UNCHANGED <<job, frame, read, get, asked, put, object, fed, stored>>
  BY DEF UploadPerformed, source
<1>2. /\ TypeOK /\ HopsStayInRoot /\ Control /\ InOrder /\ Buffered
      /\ UploadFollows /\ Confirmed /\ Promised /\ Announced
  BY DEF Inv
<1>3. /\ write' \in Writes /\ write'.open = write.open /\ write'.failed = write.failed
      /\ write'.finishing = write.finishing /\ write'.input = write.input
      /\ write'.complete <=> put.over # None
  <2>1. (put.over # None) \in BOOLEAN /\ write \in Writes
    BY <1>2 DEF TypeOK
  <2>2. ASSUME NEW b \in BOOLEAN, write' = [write EXCEPT !.complete = b]
        PROVE  /\ write' \in Writes /\ write'.open = write.open /\ write'.failed = write.failed
               /\ write'.finishing = write.finishing /\ write'.input = write.input
               /\ write'.complete = b
    BY <2>1, <2>2 DEF Writes
  <2>3. /\ write' \in Writes /\ write'.open = write.open /\ write'.failed = write.failed
        /\ write'.finishing = write.finishing /\ write'.input = write.input
        /\ write'.complete = (put.over # None)
    BY <1>1, <2>1, <2>2
  <2> QED
    BY <2>3
<1>4. /\ pc' \in {"drive", "driven"}
      /\ pc' = "driven" /\ ~write.finishing /\ ~write'.complete => write.input = <<>>
  BY <1>1, <1>3
<1>5. TypeOK'
  BY <1>1, <1>2, <1>3, <1>4 DEF TypeOK
<1>6. HopsStayInRoot' /\ InOrder'
  BY <1>1, SourceKept DEF source
<1>7. Control' /\ Buffered'
  <2>1. Control'
    BY <1>1, <1>2, <1>3, <1>4 DEF Control, Underway, AtDisk, AtServer
  <2>2. Buffered'
    BY <1>1, <1>3, <1>4, BufferKept DEF Underway, source
  <2> QED
    BY <2>1, <2>2
<1>8. UploadFollows'
  BY <1>1, <1>2, <1>3, <1>4 DEF UploadFollows, Underway
<1>9. Confirmed' /\ Promised' /\ Announced'
  BY <1>1, <1>2, <1>3, <1>4 DEF Confirmed, Promised, Announced, Whole, Closed, AtServer
<1> QED
  BY <1>5, <1>6, <1>7, <1>8, <1>9 DEF Inv

LEMMA DrivenStep ==
    ASSUME Inv, Driven
    PROVE  Inv'
<1>1. /\ pc = "driven"
      /\ UNCHANGED <<job, read, get, asked, put, object, fed, stored>>
      /\ \/ /\ write.finishing /\ pc' = "cleanup" /\ write' = write
            /\ frame' = [frame EXCEPT !.ok = @ /\ ~(write.complete /\ put.over = "error")
                                               /\ Ok(put.answer)]
         \/ /\ ~write.finishing /\ pc' = "finish" /\ frame' = [frame EXCEPT !.ok = FALSE]
            /\ write' = [write EXCEPT !.failed = TRUE]
         \/ /\ ~write.finishing /\ pc' = "read" /\ frame' = frame
            /\ write' = [write EXCEPT !.input = <<>>]
            /\ ~Leftover
  BY DEF Driven, Fail, source
<1>2. /\ TypeOK /\ HopsStayInRoot /\ Control /\ InOrder /\ Buffered
      /\ UploadFollows /\ Confirmed /\ Promised /\ Announced
  BY DEF Inv
<1>3. /\ write.open /\ AtServer /\ write \in Writes /\ frame \in Frames
      /\ ~write.finishing => ~frame.ok /\ ~frame.ended /\ ~write.failed
  BY <1>1, <1>2 DEF Control, TypeOK, Underway
<1>4. /\ frame' \in Frames /\ frame'.size = frame.size /\ frame'.ended = frame.ended
      /\ frame'.announced = frame.announced
      /\ frame'.ok => frame.ok
      /\ pc' = "cleanup" /\ frame'.ok => Ok(put.answer)
      /\ pc' = "read" => ~frame'.ok
      /\ pc' = "finish" => ~frame'.ok
  <2>1. ASSUME NEW b \in BOOLEAN, frame' = [frame EXCEPT !.ok = b]
        PROVE  /\ frame' \in Frames /\ frame'.size = frame.size /\ frame'.ended = frame.ended
               /\ frame'.announced = frame.announced /\ frame'.ok = b
    BY <1>3, <2>1 DEF Frames
  <2>2. CASE pc' = "cleanup"
    <3> DEFINE b == frame.ok /\ ~(write.complete /\ put.over = "error") /\ Ok(put.answer)
    <3>1. frame' = [frame EXCEPT !.ok = b] /\ b \in BOOLEAN /\ (b => frame.ok /\ Ok(put.answer))
      BY <1>1, <1>3, <2>2 DEF Frames
    <3> HIDE DEF b
    <3>2. /\ frame' \in Frames /\ frame'.size = frame.size /\ frame'.ended = frame.ended
          /\ frame'.announced = frame.announced /\ frame'.ok = b
      BY <2>1, <3>1
    <3> QED
      BY <2>2, <3>1, <3>2
  <2>3. CASE pc' # "cleanup"
    BY <1>1, <1>3, <2>3 DEF Frames
  <2> QED
    BY <2>2, <2>3
<1>5. /\ write' \in Writes /\ write'.open = write.open
      /\ write'.finishing = write.finishing /\ write'.complete = write.complete
      /\ pc' # "finish" => write'.failed = write.failed
      /\ pc' # "read" => write'.input = write.input
      /\ pc' = "read" => write'.input = <<>> /\ ~write.finishing /\ write.input = <<>>
      /\ pc' = "cleanup" <=> write.finishing
      /\ pc' \in {"cleanup", "finish", "read"}
  <2>1. <<>> \in Seq(Blocks)
    OBVIOUS
  <2>2. pc' = "read" => write.input = <<>>
    BY <1>1, <1>2 DEF Leftover, UploadFollows
  <2> QED
    BY <1>1, <1>3, <2>1, <2>2 DEF Writes
<1>6. TypeOK'
  BY <1>1, <1>2, <1>4, <1>5 DEF TypeOK
<1>7. HopsStayInRoot' /\ InOrder'
  BY <1>1, SourceKept DEF source
<1>8. Control' /\ Buffered'
  <2>1. Control'
    BY <1>1, <1>2, <1>3, <1>4, <1>5 DEF Control, Underway, AtDisk, AtServer
  <2>2. Buffered'
    BY <1>1, <1>4, <1>5, BufferKept DEF Underway, source
  <2> QED
    BY <2>1, <2>2
<1>9. UploadFollows'
  <2>1. Underway \/ frame.ok => put.taken \o write.input = fed
    BY <1>1, <1>2, <1>3 DEF UploadFollows
  <2> QED
    BY <1>1, <1>2, <1>3, <1>4, <1>5, <2>1 DEF UploadFollows, Underway
<1>10. Confirmed' /\ Promised' /\ Announced'
  <2>1. Confirmed'
    BY <1>1, <1>2, <1>4, <1>5 DEF Confirmed, Whole
  <2>2. Promised'
    <3>1. Ok(put.answer) => put.answer = 201
      <4>1. put.answer \in {None, 201, 405, 412}
        BY <1>2 DEF TypeOK, Puts, UploadAnswers
      <4>2. ~Ok(None) /\ ~Ok(405) /\ ~Ok(412)
        BY NoneAssumption DEF Ok
      <4> QED
        BY <4>1, <4>2
    <3> QED
      BY <1>1, <1>3, <1>4, <1>5, <3>1 DEF Promised, AtServer
  <2>3. Announced'
    BY <1>1, <1>2, <1>4, <1>5 DEF Announced, Closed
  <2> QED
    BY <2>1, <2>2, <2>3
<1> QED
  BY <1>6, <1>7, <1>8, <1>9, <1>10 DEF Inv

LEMMA CleanupStep ==
    ASSUME Inv, Cleanup
    PROVE  Inv'
<1>1. /\ pc = "cleanup" /\ pc' = "done" /\ object' \in {None, object}
      /\ UNCHANGED <<job, frame, source, write, put, fed, stored>>
  BY DEF Cleanup
<1>2. UNCHANGED <<job, frame, read, get, asked, write, put, fed, stored>>
  BY <1>1 DEF source
<1>3. /\ TypeOK /\ HopsStayInRoot /\ Control /\ InOrder /\ Buffered
      /\ UploadFollows /\ Confirmed /\ Promised /\ Announced
  BY DEF Inv
<1>4. TypeOK'
  BY <1>1, <1>2, <1>3 DEF TypeOK
<1>5. HopsStayInRoot' /\ InOrder'
  BY <1>1, SourceKept
<1>6. Control' /\ Buffered'
  <2>1. Control'
    BY <1>1, <1>2, <1>3 DEF Control, Underway, AtDisk, AtServer
  <2>2. Buffered'
    BY <1>1, <1>2, BufferKept DEF Underway
  <2> QED
    BY <2>1, <2>2
<1>7. UploadFollows'
  BY <1>1, <1>2, <1>3 DEF UploadFollows, Underway
<1>8. Confirmed' /\ Promised' /\ Announced'
  <2>1. Confirmed' /\ Promised'
    BY <1>1, <1>2, <1>3 DEF Confirmed, Promised, Whole, AtServer
  <2>2. Announced'
    BY <1>1, <1>2, <1>3 DEF Announced, Closed
  <2> QED
    BY <2>1, <2>2
<1> QED
  BY <1>4, <1>5, <1>6, <1>7, <1>8 DEF Inv

LEMMA OtherUploadsStep ==
    ASSUME Inv, OtherUploads
    PROVE  Inv'
<1>1. /\ pc \in {"sending", "cleanup"} /\ object' = <<Other>>
      /\ UNCHANGED <<job, pc, frame, source, write, put, fed, stored>>
  BY DEF OtherUploads
<1>2. UNCHANGED <<job, pc, frame, read, get, asked, write, put, fed, stored>>
  BY <1>1 DEF source
<1>3. /\ TypeOK /\ HopsStayInRoot /\ Control /\ InOrder /\ Buffered
      /\ UploadFollows /\ Confirmed /\ Promised /\ Announced
  BY DEF Inv
<1>4. TypeOK'
  BY <1>1, <1>2, <1>3 DEF TypeOK
<1>5. HopsStayInRoot' /\ InOrder'
  BY <1>1, SourceKept
<1>6. Control' /\ Buffered'
  <2>1. Control'
    BY <1>1, <1>2, <1>3 DEF Control, Underway, AtDisk, AtServer
  <2>2. Buffered'
    BY <1>1, <1>2, BufferKept DEF Underway
  <2> QED
    BY <2>1, <2>2
<1>7. UploadFollows'
  BY <1>2, <1>3 DEF UploadFollows, Underway
<1>8. Confirmed' /\ Promised'
  BY <1>2, <1>3 DEF Confirmed, Promised, Whole, AtServer
<1>9. Announced'
  BY <1>1, <1>2, <1>3 DEF Announced, Closed
<1> QED
  BY <1>4, <1>5, <1>6, <1>7, <1>8, <1>9 DEF Inv

LEMMA Stuttering ==
    ASSUME Inv, UNCHANGED vars
    PROVE  Inv'
<1>1. UNCHANGED <<job, pc, frame, read, get, asked, write, put, object, stored, fed>>
  BY DEF vars, source, target
<1>2. /\ TypeOK /\ HopsStayInRoot /\ Control /\ InOrder /\ Buffered
      /\ UploadFollows /\ Confirmed /\ Promised /\ Announced
  BY DEF Inv
<1>3. TypeOK' /\ HopsStayInRoot' /\ Control'
  BY <1>1, <1>2 DEF TypeOK, HopsStayInRoot, Control, Underway, AtDisk, AtServer
<1>4. InOrder' /\ Buffered'
  BY <1>1, <1>2 DEF InOrder, Buffered, Underway, Reading, AtDisk, Buffer
<1>5. UploadFollows'
  BY <1>1, <1>2 DEF UploadFollows, Underway
<1>6. Confirmed' /\ Promised' /\ Announced'
  BY <1>1, <1>2 DEF Confirmed, Promised, Announced, Whole, AtServer, Closed
<1> QED
  BY <1>2, <1>3, <1>4, <1>5, <1>6 DEF Inv

-----------------------------------------------------------------------------
(* The invariant holds, and what follows from it. *)

LEMMA StepKeepsInv ==
    ASSUME Inv, [Next]_vars
    PROVE  Inv'
<1>1. CASE Program
  BY <1>1, StatHopStep, StatStep, OpenStep, ReadDiskStep, ReadStartStep, ReadLoopStep,
     PerformedStep, ReadReturnsStep, WriteStep, FinishStep, DriveStep, UploadPerformedStep,
     DrivenStep, CleanupStep DEF Program
<1>2. CASE Download
  BY <1>2, AnswerStep, StreamDataStep, ReceivedStep DEF Download
<1>3. CASE Upload
  BY <1>3, UploadReadStep, UploadAnswerStep, UploadOverStep DEF Upload
<1>4. CASE OtherUploads
  BY <1>4, OtherUploadsStep
<1>5. CASE UNCHANGED vars
  BY <1>5, Stuttering
<1> QED
  BY <1>1, <1>2, <1>3, <1>4, <1>5 DEF Next

\* The inductive invariant holds in every state of a copy.
THEOREM InvHolds == Spec => []Inv
<1>1. Init => Inv
  BY Initially
<1>2. Inv /\ [Next]_vars => Inv'
  BY StepKeepsInv
<1> QED
  BY <1>1, <1>2, PTL DEF Spec

\* Every variable keeps its type.
THEOREM TypeCorrect == Spec => []TypeOK
<1>1. Inv => TypeOK
  BY DEF Inv
<1> QED
  BY <1>1, InvHolds, PTL

\* No request leaves the root, wherever the servers redirect it and whether
\* or not libcurl can guard a request (http_redirect_within_root).
THEOREM RequestsStayInRoot == Spec => []HopsStayInRoot
<1>1. Inv => HopsStayInRoot
  BY DEF Inv
<1> QED
  BY <1>1, InvHolds, PTL

\* Success is reported only of a copy that is whole at its destination.
THEOREM SuccessMeansWhole == Spec => []SuccessIsWhole
<1>1. ASSUME Inv, pc = "done", frame.ok
      PROVE  /\ frame.ended /\ frame.size \in {None, Len(fed)}
             /\ job.to = "repository" => stored = fed
  <2>1. TypeOK /\ Control /\ UploadFollows /\ Confirmed /\ Promised
    BY <1>1 DEF Inv
  <2>2. frame.ended /\ write.open = AtServer
    BY <1>1, <2>1 DEF Control
  <2>3. CASE AtServer
    <3>1. put.taken \o write.input = fed /\ write.input = <<>>
      BY <1>1, <2>1, <2>2, <2>3 DEF UploadFollows
    <3>2. put.taken = fed
      BY <2>1, <3>1, ConcatEmptySeq DEF TypeOK, Puts
    <3>3. stored = put.taken /\ Whole
      BY <1>1, <2>1, <2>3 DEF Promised, Confirmed
    <3> QED
      BY <2>2, <3>2, <3>3 DEF Whole
  <2>4. CASE ~AtServer
    BY <1>1, <2>1, <2>2, <2>4 DEF Promised, AtServer
  <2> QED
    BY <2>3, <2>4
<1>2. Inv => SuccessIsWhole
  BY <1>1 DEF SuccessIsWhole
<1> QED
  BY <1>2, InvHolds, PTL

\* The user hears of a part of the source that a failed upload left behind.
THEOREM FragmentsAreAnnounced == Spec => []FragmentIsAnnounced
<1>1. Inv => FragmentIsAnnounced
  BY DEF Inv, Announced, Closed, FragmentIsAnnounced
<1> QED
  BY <1>1, InvHolds, PTL

\* An upload that may not overwrite replaces nobody's object: the condition is
\* the server's to check, so a race with another client does not matter.
THEOREM OthersAreKept == Spec => PutKeepsOthers
<1> DEFINE Kept == job.overwrite \/ object # <<Other>> \/ object' \in {object, None}
<1>1. ASSUME [Next]_vars
      PROVE  Kept
  <2>1. ASSUME Refused
        PROVE  ~UploadAnswer \/ object' = object
    BY <2>1 DEF UploadAnswer
  <2>2. ASSUME Refused
        PROVE  ~UploadOver \/ object' = object
    BY <2>2 DEF UploadOver
  <2>3. object = <<Other>> /\ ~job.overwrite => Refused
    BY NoneAssumption DEF Refused, IfNoneMatch
  <2>4. Program => object' \in {None, object}
    BY DEF Program, StatHop, Stat, Open, ReadDisk, ReadStart, ReadLoop, Performed, ReadReturns,
           Write, Finish, Drive, UploadPerformed, Driven, Cleanup, target
  <2>5. Download \/ UploadRead => object' = object
    BY DEF Download, Answer, StreamData, Received, UploadRead, target
  <2>6. OtherUploads => object # <<Other>>
    BY DEF OtherUploads
  <2>7. UNCHANGED vars => object' = object
    BY DEF vars, target
  <2> QED
    BY <1>1, <2>1, <2>2, <2>3, <2>4, <2>5, <2>6, <2>7 DEF Next, Upload
<1>2. [Next]_vars => [Kept]_vars
  BY <1>1
<1> QED
  BY <1>2, PTL DEF Spec, PutKeepsOthers

-----------------------------------------------------------------------------
(* Refinement: the answer 200 settles which resource is served, a read that *)
(* returns hands out its next piece or its end, and no other step is seen.  *)

Given == IF Served = None THEN <<>> ELSE fed
Phase == IF read.failed THEN "failed"
         ELSE IF Served # None /\ frame.ended THEN "ended" ELSE "reading"
View == <<Served, Given, Phase>>

LEMMA ViewKept ==
    ASSUME UNCHANGED <<job, fed>>, get'.url = get.url, get'.length = get.length,
           get'.answer = get.answer, read'.failed = read.failed, frame'.ended = frame.ended,
           pc' = "stat" <=> pc = "stat"
    PROVE  UNCHANGED View
<1>1. Served' = Served
  BY DEF Served
<1> QED
  BY <1>1 DEF View, Given, Phase

\* What is served, while it is read.
LEMMA ServedIs ==
    ASSUME Inv
    PROVE  /\ Served # None =>
                /\ ~AtDisk /\ Ok(get.answer) /\ Served = <<get.url, get.length>>
                /\ get.url \in Root /\ get.length \in 0 .. Length
                /\ get.at \in 0 .. get.length
           /\ ~AtDisk /\ pc # "stat" /\ Ok(get.answer) => Served # None
           /\ Served = None /\ ~AtDisk => fed = <<>> /\ read.used = <<>>
<1>1. TypeOK /\ Control /\ InOrder /\ get \in Gets /\ fed \in Seq(Blocks) /\ read \in Reads
  BY DEF Inv, TypeOK
<1>2. get.length \in 0 .. Length /\ get.at \in 0 .. Length
  BY <1>1 DEF Gets, Amounts
<1>3. ~AtDisk => get.url \in Root /\ get.at <= get.length
  BY <1>1 DEF InOrder
<1>4. ~AtDisk => <<get.url, get.length>> # None
  BY <1>2, <1>3, SizesAssumption, NoneAssumption
<1>5. ASSUME ~AtDisk, Served = None
      PROVE  fed = <<>> /\ read.used = <<>>
  <2>1. CASE pc = "stat"
    BY <1>1, <2>1 DEF Control
  <2>2. CASE pc # "stat"
    <3>1. get.at = 0
      BY <1>1, <1>4, <1>5, <2>2 DEF Served, InOrder, AtDisk
    <3>2. fed \o (read.used \o read.pending) = <<>>
      <4>1. Body(get.url, 0) = <<>>
        BY DEF Body
      <4> QED
        BY <1>1, <1>5, <3>1, <4>1 DEF InOrder
    <3>3. read.used \in Seq(Blocks) /\ read.pending \in Seq(Blocks)
      BY <1>1 DEF Reads
    <3>4. read.used \o read.pending \in Seq(Blocks)
      BY <3>3, ConcatProperties
    <3>5. fed = <<>> /\ read.used \o read.pending = <<>>
      BY <1>1, <3>2, <3>4, ConcatSimplifications
    <3> QED
      BY <3>3, <3>5, ConcatSimplifications
  <2> QED
    BY <2>1, <2>2
<1> QED
  BY <1>2, <1>3, <1>4, <1>5, SizesAssumption DEF Served, AtDisk

\* Nothing is served before an answer.
LEMMA NothingServed ==
    ASSUME Inv, get.answer = None \/ get.answer = 302 \/ pc = "stat" \/ AtDisk
    PROVE  Served = None
<1>1. ~Ok(None) /\ ~Ok(302)
  BY NoneAssumption DEF Ok
<1> QED
  BY <1>1 DEF Served, AtDisk

LEMMA PhaseIs ==
    ASSUME Inv, Underway
    PROVE  Phase = "reading"
BY DEF Inv, Control, Phase

LEMMA AnswerIsServe ==
    ASSUME Inv, Answer
    PROVE  Stream!Serve \/ UNCHANGED View
<1>1. /\ pc = "receiving" /\ get.answer = None /\ UNCHANGED <<job, pc, frame, read, fed>>
  BY DEF Answer, Receiving
<1>2. Inv'
  BY AnswerStep
<1>3. /\ Underway /\ Underway' /\ Phase = "reading" /\ Phase' = "reading"
  <2>1. Control /\ Control'
    BY <1>2 DEF Inv
  <2>2. ~write.finishing /\ Underway
    BY <1>1, <2>1 DEF Control, Underway
  <2>3. Underway'
    BY <1>1 DEF Underway
  <2> QED
    BY <1>2, <2>1, <2>2, <2>3 DEF Phase, Control
<1>4. Served = None /\ fed = <<>> /\ ~AtDisk
  <2>1. Served = None
    BY <1>1, NothingServed
  <2>2. ~AtDisk
    BY <1>1 DEF Inv, Control
  <2> QED
    BY <2>1, <2>2, ServedIs
<1>5. Given = <<>> /\ Given' = <<>>
  BY <1>1, <1>4 DEF Given
<1>6. CASE Served' = None
  BY <1>3, <1>4, <1>5, <1>6 DEF View
<1>7. CASE Served' # None
  <2>1. Served' = <<get'.url, get'.length>> /\ get'.url \in Root /\ get'.length \in 0 .. Length
    <3>1. TypeOK' /\ InOrder' /\ AtDisk' = AtDisk
      BY <1>1, <1>2 DEF Inv, AtDisk
    <3>2. get'.url \in Root /\ get'.length \in 0 .. Length
      BY <1>4, <3>1 DEF InOrder, TypeOK, Gets, Amounts
    <3> QED
      BY <1>7, <3>2 DEF Served
  <2>2. Served' \in Root \X (0 .. Length)
    BY <2>1
  <2> QED
    BY <1>3, <1>4, <1>5, <2>2 DEF Stream!Serve, Given, Phase
<1> QED
  BY <1>6, <1>7

LEMMA ReadFailsIsFail ==
    ASSUME Inv, pc \in {"loop", "receiving", "returning"}, ReadFails, UNCHANGED <<job, get, fed>>
    PROVE  Stream!Fail
<1>1. TypeOK /\ Underway
  BY DEF Inv, Underway
<1>2. read'.failed /\ pc' = "finish"
  BY <1>1 DEF ReadFails, Fail, TypeOK, Reads
<1>3. Served' = Served
  BY <1>2 DEF Served
<1>4. Given' = Given /\ Phase = "reading" /\ Phase' = "failed"
  BY <1>1, <1>2, <1>3, PhaseIs DEF Given, Phase
<1> QED
  BY <1>3, <1>4 DEF Stream!Fail, Given, Phase

LEMMA ReadReturnsIsNext ==
    ASSUME Inv, ReadReturns
    PROVE  Stream!Next
<1>1. CASE Incomplete
  BY <1>1, ReadFailsIsFail DEF ReadReturns, Stream!Next
<1>2. CASE ~Incomplete
  <2>1. /\ pc = "returning" /\ pc' \in {"write", "finish"} /\ UNCHANGED <<job, get>>
        /\ read' = [read EXCEPT !.used = <<>>]
        /\ fed' = fed \o read.used
        /\ \/ read.used # <<>> /\ frame' = [frame EXCEPT !.piece = read.used]
           \/ /\ read.used = <<>>
              /\ frame' = [frame EXCEPT !.ended = TRUE,
                             !.ok = job.to = "disk" => frame.size \in {None, Len(fed)}]
    BY <1>2 DEF ReadReturns
  <2>2. /\ TypeOK /\ Control /\ InOrder /\ Buffered /\ ~AtDisk /\ get \in Gets
        /\ fed \in Seq(Blocks) /\ read \in Reads /\ frame \in Frames
        /\ read.used \in Seq(Blocks) /\ read.pending \in Seq(Blocks)
    BY <2>1 DEF Inv, TypeOK, Control, Reads
  <2>3. Ok(get.answer) /\ Served # None
    <3>1. read.used = <<>> => read.complete
      BY <2>1, <2>2 DEF Buffered
    <3>2. read.used # <<>> => Served # None
      BY <2>2, ServedIs
    <3>3. Served # None => Ok(get.answer)
      BY ServedIs
    <3>4. read.complete => Ok(get.answer)
      BY <1>2 DEF Incomplete
    <3>5. Ok(get.answer)
      BY <3>1, <3>2, <3>3, <3>4
    <3> QED
      BY <2>1, <2>2, <3>5, ServedIs
  <2>4. /\ Served = <<get.url, get.length>> /\ get.url \in Root
        /\ get.length \in 0 .. Length /\ get.at \in 0 .. get.length
    BY <2>3, ServedIs
  <2>5. get.length \in Nat /\ get.at \in Nat /\ get.at <= get.length
    BY <2>4, SizesAssumption
  <2> DEFINE resource == Body(get.url, get.length)
  <2>6. [r \in Root \X (0 .. Length) |-> Body(r[1], r[2])][Served] = resource
    BY <2>4
  <2>7. resource \in Seq(Blocks) /\ Len(resource) = get.length
    BY <2>4, <2>5, BodyIs
  <2>8. read'.failed = read.failed /\ Served' = Served /\ Given = fed /\ Given' = fed'
        /\ Phase = "reading"
    <3>1. read'.failed = read.failed
      BY <2>1, <2>2 DEF Reads
    <3>2. Served' = Served
      BY <2>1 DEF Served
    <3>3. Phase = "reading"
      BY <2>1, PhaseIs DEF Underway
    <3> QED
      BY <2>3, <3>1, <3>2, <3>3 DEF Given
  <2>9. CASE read.used # <<>>
    <3> DEFINE n == Len(fed) + Len(read.used)
    <3>1. fed' \in Seq(Blocks) /\ Len(fed') = n
      BY <2>1, <2>2, ConcatProperties
    <3>2. fed' \o read.pending = Body(get.url, get.at)
      <4>1. fed' \o read.pending = fed \o (read.used \o read.pending)
        BY <2>1, <2>2, Joined
      <4> QED
        BY <2>2, <4>1 DEF InOrder
    <3>3. fed' = Body(get.url, Len(fed')) /\ Len(fed') + Len(read.pending) = get.at
      <4>1. /\ get.url \in Root \cup {Disk} /\ get.at \in Nat
            /\ fed' \in Seq(Blocks) /\ read.pending \in Seq(Blocks)
        BY <2>2, <2>4, <2>5, <3>1
      <4> QED
        <5>1. fed' = Body(get.url, Len(fed'))
          BY <3>2, <4>1, BodyPrefix, Zenon
        <5>2. Len(fed' \o read.pending) = Len(fed') + Len(read.pending)
          BY <4>1, ConcatProperties
        <5>3. Len(Body(get.url, get.at)) = get.at
          BY <4>1, BodyIs
        <5> QED
          BY <3>2, <5>1, <5>2, <5>3
    <3>4. Len(fed) \in Nat /\ Len(read.used) \in Nat \ {0} /\ Len(read.pending) \in Nat
      BY <2>2, <2>9, EmptySeq
    <3> HIDE DEF resource
    <3>5. Len(fed') \in Len(fed) + 1 .. Len(resource) /\ Len(fed') \in 0 .. get.length
      <4> DEFINE a == Len(fed)
                 b == Len(read.used)
                 c == Len(read.pending)
      <4>1. /\ a \in Nat /\ b \in Nat \ {0} /\ c \in Nat
            /\ (a + b) + c = get.at
            /\ Len(fed') = a + b /\ Len(resource) = get.length /\ a = Len(fed)
        BY <2>7, <3>1, <3>3, <3>4
      <4> HIDE DEF a, b, c
      <4>2. a + b \in a + 1 .. get.length /\ a + b \in 0 .. get.length
        BY <2>5, <4>1
      <4>3. Len(fed') \in a + 1 .. Len(resource) /\ Len(fed') \in 0 .. get.length
        BY <4>1, <4>2
      <4> QED
        BY <4>1, <4>3
    <3>6. fed' = SubSeq(resource, 1, Len(fed'))
      <4>1. SubSeq(Body(get.url, get.length), 1, Len(fed')) = Body(get.url, Len(fed'))
        BY <2>4, <2>5, <3>5, BodyStart
      <4> QED
        BY <3>3, <4>1 DEF resource
    <3>7. Phase' = "reading"
      <4>1. frame'.ended = frame.ended
        BY <2>1, <2>2, <2>9 DEF Frames
      <4>2. ~frame.ended /\ ~read.failed
        BY <2>1, <2>2 DEF Control, Underway
      <4> QED
        BY <2>8, <4>1, <4>2 DEF Phase
    <3>8. \E k \in Len(Given) + 1 .. Len(resource) : Given' = SubSeq(resource, 1, k)
      BY <2>8, <3>5, <3>6
    <3>9. Stream!Give
      BY <2>3, <2>6, <2>8, <3>7, <3>8 DEF Stream!Give, Given, Phase
    <3> QED
      BY <3>9 DEF Stream!Next
  <2>10. CASE read.used = <<>>
    <3>1. read.complete /\ read.pending = <<>> /\ get.over = "ok"
      <4>1. read.complete /\ read.pending = <<>> /\ get.over # None
        BY <2>1, <2>2, <2>10 DEF Buffered
      <4>2. get.over \in {None, "ok", "error"}
        BY <2>2 DEF Gets, Ends
      <4> QED
        BY <1>2, <4>1, <4>2 DEF Incomplete
    <3>2. fed = resource /\ fed' = fed
      <4>1. get.at = get.length
        BY <2>2, <3>1 DEF InOrder
      <4>2. fed \o (<<>> \o <<>>) = fed /\ fed \o <<>> = fed
        BY <2>2, ConcatEmptySeq
      <4> HIDE DEF Body
      <4> QED
        BY <2>1, <2>2, <2>10, <3>1, <4>1, <4>2 DEF InOrder
    <3>3. Phase' = "ended"
      <4>1. frame'.ended
        BY <2>1, <2>2, <2>10 DEF Frames
      <4>2. ~read.failed
        BY <2>1, <2>2 DEF Control, Underway
      <4> QED
        BY <2>3, <2>8, <4>1, <4>2 DEF Phase
    <3> HIDE DEF resource
    <3>4. Stream!End
      BY <2>3, <2>6, <2>8, <3>2, <3>3 DEF Stream!End, Given, Phase
    <3> QED
      BY <3>4 DEF Stream!Next
  <2> QED
    BY <2>9, <2>10
<1> QED
  BY <1>1, <1>2

LEMMA StreamStep ==
    ASSUME Inv, [Next]_vars
    PROVE  [Stream!Next]_View
<1>1. TypeOK /\ Control /\ InOrder /\ get \in Gets /\ frame \in Frames /\ read \in Reads
  BY DEF Inv, TypeOK
<1>2. CASE StatHop \/ Stat
  <2>1. /\ pc = "stat" /\ pc' \in {"stat", "open", "finish"}
        /\ UNCHANGED <<job, read, fed>> /\ frame'.ended = frame.ended
        /\ get'.answer = get.answer \/ get'.answer = None
    BY <1>1, <1>2 DEF StatHop, Stat, Fail, Idle, Gets, Frames
  <2>2. get.answer = None /\ ~frame.ended /\ ~read.failed
    BY <1>1, <2>1 DEF Control, Underway
  <2>3. Served = None /\ Served' = None
    <3>1. ~Ok(None)
      BY NoneAssumption DEF Ok
    <3> QED
      BY <2>1, <2>2, <3>1 DEF Served
  <2> QED
    BY <2>1, <2>3 DEF View, Given, Phase
<1>3. CASE Open
  <2>1. /\ pc = "open" /\ pc' \in {"read", "finish"} /\ UNCHANGED <<job, get, read, fed>>
        /\ frame'.ended = frame.ended
    BY <1>1, <1>3 DEF Open, Fail, Frames, source
  <2> QED
    BY <2>1, ViewKept
<1>4. CASE ReadDisk
  <2>1. /\ AtDisk /\ AtDisk' = AtDisk /\ read' = read
    BY <1>4 DEF ReadDisk, AtDisk, source
  <2>2. Served = None /\ Served' = None
    BY <2>1 DEF Served, AtDisk
  <2> QED
    BY <2>1, <2>2 DEF View, Given, Phase
<1>5. CASE ReadStart
  <2>1. /\ pc = "read" /\ pc' \in {"loop", "returning"} /\ UNCHANGED <<job, frame, fed>>
        /\ get'.url = get.url /\ get'.length = get.length /\ get'.answer = get.answer
        /\ read'.failed = read.failed
    BY <1>1, <1>5 DEF ReadStart, Continued, Gets, Reads
  <2> QED
    BY <2>1, ViewKept
<1>6. CASE ReadLoop
  <2>1. CASE ReadFails
    BY <1>6, <2>1, ReadFailsIsFail DEF ReadLoop, Stream!Next
  <2>2. CASE pc' = "receiving" /\ UNCHANGED <<read, frame>>
    BY <1>6, <2>2, ViewKept DEF ReadLoop
  <2> QED
    BY <1>6, <2>1, <2>2 DEF ReadLoop
<1>7. CASE Answer
  BY <1>7, AnswerIsServe DEF Stream!Next
<1>8. CASE StreamData \/ Received
  <2>1. UNCHANGED <<job, pc, frame, fed>>
    BY <1>8 DEF StreamData, Received
  <2>2. /\ get'.url = get.url /\ get'.length = get.length /\ get'.answer = get.answer
        /\ read'.failed = read.failed
    BY <1>1, <1>8 DEF StreamData, Received, Gets, Reads
  <2> QED
    BY <2>1, <2>2, ViewKept
<1>9. CASE Performed
  <2>1. pc = "receiving" /\ UNCHANGED <<job, fed>>
    BY <1>9 DEF Performed
  <2>2. CASE ReadFails /\ UNCHANGED get
    BY <2>1, <2>2, ReadFailsIsFail DEF Stream!Next
  <2>3. CASE /\ get.location # None /\ pc' = "loop" /\ UNCHANGED <<read, frame>>
             /\ get' = [Idle EXCEPT !.url = get.location, !.hops = get.hops + 1]
    <3>1. ~AtDisk
      BY <1>1, <2>1 DEF Control
    <3>2. get.answer = 302 /\ get'.answer = None /\ ~Ok(302) /\ ~Ok(None)
      <4>1. get.answer = 302
        BY <1>1, <2>3, <3>1 DEF InOrder
      <4>2. get'.answer = None
        BY <2>3 DEF Idle
      <4> QED
        BY <4>1, <4>2, NoneAssumption DEF Ok
    <3>3. Served = None /\ Served' = None
      BY <3>2 DEF Served
    <3> QED
      BY <2>3, <3>3 DEF View, Given, Phase
  <2>4. CASE pc' \in {"loop", "returning"} /\ UNCHANGED <<get, frame>> /\ read'.failed = read.failed
    BY <2>1, <2>4, ViewKept
  <2> QED
    <3>1. \A b \in BOOLEAN : read' = [read EXCEPT !.complete = b] => read'.failed = read.failed
      BY <1>1 DEF Reads
    <3> QED
      BY <1>9, <2>2, <2>3, <2>4, <3>1 DEF Performed, Follows
<1>10. CASE ReadReturns
  BY <1>10, ReadReturnsIsNext
<1>11. CASE Write \/ Finish \/ Drive \/ UploadPerformed \/ Driven \/ Cleanup
  <2>1. UNCHANGED <<job, read, get, fed>> /\ pc # "stat" /\ pc' # "stat"
    BY <1>11 DEF Write, Finish, Drive, UploadPerformed, Driven, Cleanup, Fail, source
  <2>2. frame'.ended = frame.ended
    <3>1. \A b \in BOOLEAN : frame' = [frame EXCEPT !.ok = b] => frame'.ended = frame.ended
      BY <1>1 DEF Frames
    <3>2. Finish => frame'.ended = frame.ended
      BY <1>1 DEF Finish, Frames
    <3>3. Driven => frame'.ended = frame.ended
      BY <1>1 DEF Driven, Fail, Frames
    <3> QED
      BY <1>11, <3>2, <3>3 DEF Write, Drive, UploadPerformed, Cleanup
  <2> QED
    BY <2>1, <2>2, ViewKept
<1>12. CASE Upload \/ OtherUploads
  <2>1. UNCHANGED <<job, pc, frame, read, get, fed>>
    BY <1>12 DEF Upload, UploadRead, UploadAnswer, UploadOver, OtherUploads, source
  <2> QED
    BY <2>1, ViewKept
<1>13. CASE UNCHANGED vars
  BY <1>13, ViewKept DEF vars, source
<1> QED
  BY <1>2, <1>3, <1>4, <1>5, <1>6, <1>7, <1>8, <1>9, <1>10, <1>11, <1>12, <1>13
     DEF Next, Program, Download

\* What the read handle hands out is one resource of the root, in order and
\* without a gap, and its end is reported after all of it only.
THEOREM ReadImplementsStream == Spec => ReadIsStream
<1>1. Init => Stream!Init
  <2>1. Init => Served = None /\ ~read.failed
    BY DEF Init, Served
  <2> QED
    BY <2>1 DEF Stream!Init
<1>2. Inv /\ [Next]_vars => [Stream!Next]_(Stream!vars)
  BY StreamStep DEF View, Given, Phase, Stream!vars
<1> QED
  BY <1>1, <1>2, InvHolds, PTL DEF Spec, ReadIsStream, Stream!Spec

----------------------------------------------------------------------------
(* The index of a listing *)

\* What the parser builds: entries, and slots with their indices in them.
Item == [link : Links \cup {None}, size : Sizes \cup {None}, dated : BOOLEAN]

\* The slot that is looked at after n others, and where a search may stop.
At(link, n, size) == ((Hash[link] + n) % size) + 1
Stops(slots, items, link, n) ==
    \/ slots[At(link, n, Len(slots))] = 0
    \/ items[slots[At(link, n, Len(slots))]].link = link

\* A search for the link stops after n steps, and not before.
Reaches(slots, items, link, n) ==
    /\ n \in 0 .. Len(slots) - 1 /\ Stops(slots, items, link, n)
    /\ \A m \in 0 .. Len(slots) - 1 : m < n => ~Stops(slots, items, link, m)

\* The slots hold the entries of T, each in one of them, where it is found.
Indexes(slots, items, T) ==
    /\ \A a \in DOMAIN slots : slots[a] \in {0} \cup T
    /\ \A a, b \in DOMAIN slots : slots[a] = slots[b] /\ slots[a] # 0 => a = b
    /\ \A i \in T : \E n \in Nat : /\ Reaches(slots, items, items[i].link, n)
                                   /\ slots[At(items[i].link, n, Len(slots))] = i

LEMMA AtIs ==
    ASSUME Page!ConstantsAssumption, NEW link \in Links, NEW size \in Nat \ {0}
    PROVE  /\ \A n \in Nat : At(link, n, size) \in 1 .. size
           /\ \A a \in 1 .. size : \E n \in 0 .. size - 1 : At(link, n, size) = a
<1>1. Hash[link] \in Nat
  BY DEF Page!ConstantsAssumption
<1>2. ASSUME NEW n \in Nat
      PROVE  At(link, n, size) \in 1 .. size
  <2> DEFINE h == Hash[link] + n
  <2>0. h \in Nat
    BY <1>1
  <2> HIDE DEF h
  <2>1. h % size \in 0 .. size - 1
    BY <2>0, Remainder
  <2> QED BY <2>1 DEF At, h
<1>3. ASSUME NEW a \in 1 .. size
      PROVE  \E n \in 0 .. size - 1 : At(link, n, size) = a
  <2>1. a - 1 \in 0 .. size - 1
    OBVIOUS
  <2>2. PICK n \in 0 .. size - 1 : (Hash[link] + n) % size = a - 1
    BY <1>1, <2>1, Around
  <2>3. At(link, n, size) = a
    BY <2>2 DEF At
  <2> QED BY <2>3
<1> QED BY <1>2, <1>3

\* listing_slot gives the slot where the search stops.
LEMMA SlotIs ==
    ASSUME NEW slots, Len(slots) \in Nat, NEW items, NEW link, NEW n, Reaches(slots, items, link, n)
    PROVE  Page!Slot(slots, items, link) = At(link, n, Len(slots))
<1> DEFINE ends == {m \in 0 .. Len(slots) - 1 : Stops(slots, items, link, m)}
           least == CHOOSE m \in ends : \A k \in ends : m <= k
<1>1. n \in ends /\ \A k \in ends : n <= k /\ k \in Int
  BY DEF Reaches
<1>2. least \in ends /\ \A k \in ends : least <= k
  BY <1>1
<1>3. least = n
  <2> HIDE DEF least
  <2> QED BY <1>1, <1>2
<1>4. Page!Slot(slots, items, link) = At(link, least, Len(slots))
  BY DEF Page!Slot, At, Stops
<1> QED BY <1>3, <1>4

\* While a slot is free a search stops.
LEMMA SomeReached ==
    ASSUME Page!ConstantsAssumption, NEW slots, Len(slots) \in Nat \ {0}, NEW items, NEW link \in Links,
           NEW a \in 1 .. Len(slots), slots[a] = 0
    PROVE  \E n \in 0 .. Len(slots) - 1 : Reaches(slots, items, link, n)
<1> DEFINE ends == {m \in 0 .. Len(slots) - 1 : Stops(slots, items, link, m)}
<1>1. PICK k \in 0 .. Len(slots) - 1 : At(link, k, Len(slots)) = a
  BY AtIs
<1>2. k \in ends /\ ends \in SUBSET Nat
  BY <1>1 DEF Stops
<1> HIDE DEF ends
<1>3. PICK n \in ends : \A m \in ends : n <= m
  BY <1>2, LeastNumber
<1>4. Reaches(slots, items, link, n)
  BY <1>3 DEF Reaches, ends
<1> QED BY <1>4 DEF Reaches

\* Only the links of the entries in the slots matter to a search.
LEMMA SameLinks ==
    ASSUME Page!ConstantsAssumption, NEW slots, Len(slots) \in Nat \ {0}, NEW items, NEW others,
           NEW T, DOMAIN slots = 1 .. Len(slots), \A a \in DOMAIN slots : slots[a] \in {0} \cup T,
           \A i \in T : items[i].link = others[i].link, NEW link \in Links, NEW n
    PROVE  Reaches(slots, items, link, n) <=> Reaches(slots, others, link, n)
<1>1. \A m \in 0 .. Len(slots) - 1 : At(link, m, Len(slots)) \in DOMAIN slots
  <2> DEFINE size == Len(slots)
  <2>1. size \in Nat \ {0}
    OBVIOUS
  <2> HIDE DEF size
  <2>2. \A m \in Nat : At(link, m, size) \in 1 .. size
    BY <2>1, AtIs
  <2> QED BY <2>1, <2>2 DEF size
<1>2. \A m \in 0 .. Len(slots) - 1 : Stops(slots, items, link, m) <=> Stops(slots, others, link, m)
  BY <1>1 DEF Stops
<1> QED BY <1>2 DEF Reaches

LEMMA SameIndex ==
    ASSUME Page!ConstantsAssumption, NEW slots, Len(slots) \in Nat \ {0}, NEW items, NEW others,
           NEW T, DOMAIN slots = 1 .. Len(slots), Indexes(slots, items, T),
           \A i \in T : items[i].link = others[i].link /\ items[i].link \in Links
    PROVE  Indexes(slots, others, T)
<1>1. \A a \in DOMAIN slots : slots[a] \in {0} \cup T
  BY DEF Indexes
<1>2. ASSUME NEW i \in T
      PROVE  \E n \in Nat : /\ Reaches(slots, others, others[i].link, n)
                            /\ slots[At(others[i].link, n, Len(slots))] = i
  <2>1. PICK n \in Nat : /\ Reaches(slots, items, items[i].link, n)
                         /\ slots[At(items[i].link, n, Len(slots))] = i
    BY DEF Indexes
  <2>2. Reaches(slots, others, items[i].link, n)
    BY <1>1, <2>1, SameLinks
  <2> QED BY <2>1, <2>2
<1> QED BY <1>1, <1>2 DEF Indexes

\* With more slots than entries one is free.
LEMMA FreeSlot ==
    ASSUME NEW size \in Nat, NEW slots \in [1 .. size -> Nat], NEW n \in Nat, n <= size,
           \A a \in DOMAIN slots : slots[a] \in {0} \cup 2 .. n,
           \A a, b \in DOMAIN slots : slots[a] = slots[b] /\ slots[a] # 0 => a = b, size # 0
    PROVE  \E a \in 1 .. size : slots[a] = 0
<1> SUFFICES ASSUME \A a \in 1 .. size : slots[a] # 0
             PROVE  FALSE
  OBVIOUS
<1>1. slots \in [1 .. size -> 2 .. n]
  OBVIOUS
<1>2. /\ IsFiniteSet(1 .. size) /\ Cardinality(1 .. size) = size
      /\ IsFiniteSet(2 .. n) /\ Cardinality(2 .. n) = IF 2 > n THEN 0 ELSE n - 1
  <2>1. 1 \in Int /\ 2 \in Int /\ n \in Int /\ size \in Int
    OBVIOUS
  <2>2. Cardinality(1 .. size) = size - 1 + 1 /\ IsFiniteSet(1 .. size)
    BY <2>1, FS_Interval
  <2>3. Cardinality(2 .. n) = (IF 2 > n THEN 0 ELSE n - 2 + 1) /\ IsFiniteSet(2 .. n)
    BY <2>1, FS_Interval
  <2> QED BY <2>2, <2>3
<1>3. Cardinality(2 .. n) < Cardinality(1 .. size)
  BY <1>2
<1>4. \E a, b \in 1 .. size : a # b /\ slots[a] = slots[b]
  BY <1>1, <1>2, <1>3, FS_PigeonHole
<1> QED BY <1>4

\* A new entry goes to the slot where its link is searched for, and everything
\* else is found where it was.
LEMMA EnterKeeps ==
    ASSUME Page!ConstantsAssumption, NEW size \in Nat \ {0}, NEW slots \in [1 .. size -> Nat],
           Len(slots) = size, NEW items, NEW T \in SUBSET (Nat \ {0}), Indexes(slots, items, T),
           NEW i \in Nat \ {0}, i \notin T, items[i].link \in Links,
           \A k \in T : items[k].link # items[i].link /\ items[k].link \in Links,
           NEW free \in 1 .. size, slots[free] = 0
    PROVE  LET a == Page!Slot(slots, items, items[i].link)
           IN /\ a \in 1 .. size /\ slots[a] = 0
              /\ Indexes([slots EXCEPT ![a] = i], items, T \cup {i})
<1> DEFINE link == items[i].link
           a == Page!Slot(slots, items, link)
           new == [slots EXCEPT ![a] = i]
<1>1. PICK n \in 0 .. size - 1 : Reaches(slots, items, link, n)
  BY SomeReached
<1>2. a = At(link, n, size)
  BY <1>1, SlotIs
<1>3. \A l \in Links, m \in Nat : At(l, m, size) \in 1 .. size
  BY AtIs
<1>4. a \in 1 .. size
  <2>1. link \in Links /\ n \in Nat
    OBVIOUS
  <2> HIDE DEF link, a
  <2> QED BY <1>2, <1>3, <2>1
<1>5. \A b \in 1 .. size : slots[b] \in {0} \cup T
  BY DEF Indexes
<1>6. slots[a] = 0
  BY <1>1, <1>2, <1>4, <1>5 DEF Reaches, Stops
<1>7. /\ new \in [1 .. size -> Nat] /\ Len(new) = size /\ new[a] = i
      /\ \A b \in 1 .. size : b # a => new[b] = slots[b]
  <2>1. new \in [1 .. size -> Nat] /\ DOMAIN new = 1 .. size
    OBVIOUS
  <2> QED BY <1>4, <2>1
<1> HIDE DEF a, new
<1>8. \A b \in DOMAIN new : new[b] \in {0} \cup (T \cup {i})
  BY <1>5, <1>7
<1>9. ASSUME NEW b \in DOMAIN new, NEW c \in DOMAIN new, new[b] = new[c], new[b] # 0
      PROVE  b = c
  <2>1. \A d \in 1 .. size : slots[d] # i
    BY <1>5
  <2>2. b \in 1 .. size /\ c \in 1 .. size
    BY <1>7
  <2>3. CASE b = a
    BY <1>7, <1>9, <2>1, <2>2, <2>3
  <2>4. CASE c = a
    BY <1>7, <1>9, <2>1, <2>2, <2>4
  <2>5. CASE b # a /\ c # a
    <3>1. slots[b] = slots[c] /\ slots[b] # 0
      BY <1>7, <1>9, <2>2, <2>5
    <3> QED BY <2>2, <3>1 DEF Indexes
  <2> QED BY <2>3, <2>4, <2>5
<1>10. ASSUME NEW l \in Links, NEW m \in 0 .. size - 1, At(l, m, size) # a
       PROVE  Stops(new, items, l, m) <=> Stops(slots, items, l, m)
  <2> DEFINE b == At(l, m, size)
  <2>1. b \in 1 .. size /\ b # a
    BY <1>3, <1>10
  <2>2. new[b] = slots[b]
    BY <1>7, <2>1
  <2> QED BY <1>7, <2>2 DEF Stops
<1>11. \E m \in Nat : Reaches(new, items, link, m) /\ new[At(link, m, size)] = i
  <2>1. Stops(new, items, link, n)
    BY <1>2, <1>7 DEF Stops
  <2>2. ASSUME NEW m \in 0 .. size - 1, m < n
        PROVE  ~Stops(new, items, link, m)
    <3>1. ~Stops(slots, items, link, m)
      BY <1>1, <2>2 DEF Reaches
    <3>2. At(link, m, size) # a
      BY <1>6, <3>1 DEF Stops
    <3> QED BY <1>10, <3>1, <3>2
  <2> QED BY <1>2, <1>7, <2>1, <2>2 DEF Reaches
<1>12. ASSUME NEW k \in T
       PROVE  \E m \in Nat : Reaches(new, items, items[k].link, m) /\ new[At(items[k].link, m, size)] = k
  <2>1. PICK m \in Nat : Reaches(slots, items, items[k].link, m) /\ slots[At(items[k].link, m, size)] = k
    BY DEF Indexes
  <2>2. m \in 0 .. size - 1 /\ At(items[k].link, m, size) # a /\ items[k].link \in Links
    BY <1>6, <2>1 DEF Reaches
  <2>3. Stops(new, items, items[k].link, m) /\ new[At(items[k].link, m, size)] = k
    BY <1>3, <1>7, <1>10, <2>1, <2>2 DEF Reaches
  <2>4. ASSUME NEW j \in 0 .. size - 1, j < m
        PROVE  ~Stops(new, items, items[k].link, j)
    <3>1. ~Stops(slots, items, items[k].link, j)
      BY <2>1, <2>4 DEF Reaches
    <3>2. At(items[k].link, j, size) # a
      BY <1>6, <3>1 DEF Stops
    <3> QED BY <1>10, <2>2, <3>1, <3>2
  <2> QED BY <1>7, <2>2, <2>3, <2>4 DEF Reaches
<1>13. Indexes(new, items, T \cup {i})
  <2>1. \A k \in T \cup {i} : \E m \in Nat : /\ Reaches(new, items, items[k].link, m)
                                            /\ new[At(items[k].link, m, Len(new))] = k
    BY <1>7, <1>11, <1>12
  <2> QED BY <1>8, <1>9, <2>1 DEF Indexes
<1> QED BY <1>4, <1>6, <1>13 DEF a, new

\* Max is the greatest of the indices that a fold from the left looks for.
LEMMA PageMax == \A s : Page!Max(s) = GreatestOf(s)
  BY DEF Page!Max, GreatestOf

\* One entry of the old slots goes to the new ones.
Entered(items, new, index) ==
    IF index = 0 THEN new
    ELSE [new EXCEPT ![Page!Slot(new, items, items[index].link)] = index]

Zeros(size) == [i \in 1 .. size |-> 0]

\* listing_grow_index has these slots after each of the old ones.
LEMMA RehashRuns ==
    ASSUME NEW old \in Seq(Nat), NEW items, NEW size \in Nat
    PROVE  \E r \in [0 .. Len(old) -> [1 .. size -> Nat]] :
             /\ r[0] = Zeros(size) /\ Page!Rehashed(old, items, size) = r[Len(old)]
             /\ \A k \in 1 .. Len(old) : r[k] = Entered(items, r[k - 1], old[k])
<1> DEFINE n == Len(old)
           S == [1 .. size -> Nat]
           base == [i \in 1 .. size |-> 0]
           Of(f) == [s \in SUBSET (DOMAIN old) |->
                       IF s = {} THEN base ELSE Entered(items, f[s \ {Page!Max(s)}], old[Page!Max(s)])]
           iter == CHOOSE f : f = Of(f)
           step == [k \in 1 .. n |-> [x \in S |-> Entered(items, x, old[k])]]
           mx == Greatests(n)
<1>1. Page!Rehashed(old, items, size) = iter[DOMAIN old]
  BY DEF Page!Rehashed, Page!FoldLeft, Page!MapThenFoldSet, Entered
<1>2. n \in Nat /\ DOMAIN old = 1 .. n /\ \A k \in 1 .. n : old[k] \in Nat
  OBVIOUS
<1>3. step \in [1 .. n -> [S -> S]]
  <2>1. \A x \in S, i \in Nat : Entered(items, x, i) \in S
    BY DEF Entered
  <2> QED BY <1>2, <2>1
<1>4. Greatest(mx, n) /\ \A s \in SUBSET (1 .. n) : mx[s] = Page!Max(s)
  BY <1>2, GreatestsAre, PageMax DEF Greatests
<1>5. \A s \in SUBSET (1 .. n) : s # {} => mx[s] \in 1 .. n
  BY <1>4 DEF Greatest
<1>6. \A k \in 1 .. n : \A x \in S : step[k][x] = Entered(items, x, old[k])
  OBVIOUS
<1> HIDE DEF step, mx
<1>7. n \in Nat /\ base \in S
  BY <1>2
<1>0. base = Zeros(size)
  BY DEF Zeros
<1> HIDE DEF n, base, S
<1>8. PICK f \in [SUBSET (1 .. n) -> S] : Recurs(f, n, S, base, step, mx)
  BY <1>3, <1>4, <1>7, FoldDefined
<1>9. f = Of(f)
  <2>1. ASSUME NEW s \in SUBSET (1 .. n), s # {}
        PROVE  f[s] = Entered(items, f[s \ {Page!Max(s)}], old[Page!Max(s)])
    <3>1. f[s \ {Page!Max(s)}] \in S /\ Page!Max(s) \in 1 .. n
      BY <1>4, <1>5, <2>1
    <3> QED BY <1>4, <1>6, <1>8, <2>1, <3>1 DEF Recurs
  <2>2. f[{}] = base
    BY <1>8 DEF Recurs
  <2> QED BY <1>2, <2>1, <2>2
<1>10. iter = Of(iter)
  BY <1>9
<1> HIDE DEF iter
<1>11. Recurs(iter, n, S, base, step, mx)
  <2>1. ASSUME NEW s \in SUBSET (1 .. n), s # {}, iter[s \ {mx[s]}] \in S
        PROVE  iter[s] = step[mx[s]][iter[s \ {mx[s]}]]
    <3>1. mx[s] = Page!Max(s) /\ mx[s] \in 1 .. n
      BY <1>4, <1>5, <2>1
    <3>2. iter[s] = Entered(items, iter[s \ {Page!Max(s)}], old[Page!Max(s)])
      BY <1>2, <1>10, <2>1
    <3> QED BY <1>6, <2>1, <3>1, <3>2
  <2>2. iter[{}] = base
    BY <1>10
  <2> QED BY <2>1, <2>2 DEF Recurs
<1>12. PICK r \in [0 .. n -> S] :
         r[0] = base /\ iter[1 .. n] = r[n] /\ \A k \in 1 .. n : r[k] = step[k][r[k - 1]]
  BY <1>3, <1>4, <1>7, <1>11, FoldRuns
<1>13. \A k \in 1 .. n : r[k] = Entered(items, r[k - 1], old[k])
  <2> TAKE k \in 1 .. n
  <2>1. r[k - 1] \in S
    BY <1>7
  <2> QED BY <1>6, <1>12, <2>1
<1> QED BY <1>0, <1>1, <1>2, <1>12, <1>13 DEF n, S

\* The entries but the first are links, each once.
Distinct(items, n) ==
    /\ \A i \in 2 .. n : items[i].link \in Links
    /\ \A i, k \in 2 .. n : items[i].link = items[k].link => i = k

\* listing_grow_index keeps all that was found.
LEMMA RehashIs ==
    ASSUME Page!ConstantsAssumption, NEW n \in Nat \ {0}, NEW size \in Nat \ {0}, n <= size,
           NEW items, Distinct(items, n), NEW old \in Seq(Nat), Indexes(old, items, 2 .. n)
    PROVE  /\ Page!Rehashed(old, items, size) \in [1 .. size -> Nat]
           /\ Indexes(Page!Rehashed(old, items, size), items, 2 .. n)
<1> DEFINE m == Len(old)
           T(k) == {old[a] : a \in 1 .. k} \ {0}
<1> HIDE DEF T
<1>1. m \in Nat /\ DOMAIN old = 1 .. m /\ \A k \in 1 .. m : old[k] \in Nat
  OBVIOUS
<1>0. size \in Nat /\ \A f \in [1 .. size -> Nat] : DOMAIN f = 1 .. size /\ Len(f) = size
  <2> SUFFICES ASSUME NEW f \in [1 .. size -> Nat]
               PROVE  DOMAIN f = 1 .. size /\ Len(f) = size
    OBVIOUS
  <2>1. DOMAIN f = 1 .. size /\ size \in Nat
    OBVIOUS
  <2> QED BY <2>1
<1>2. PICK r \in [0 .. m -> [1 .. size -> Nat]] :
             /\ r[0] = Zeros(size) /\ Page!Rehashed(old, items, size) = r[m]
             /\ \A k \in 1 .. m : r[k] = Entered(items, r[k - 1], old[k])
  <2>1. size \in Nat
    OBVIOUS
  <2>2. \E r \in [0 .. Len(old) -> [1 .. size -> Nat]] :
             /\ r[0] = Zeros(size) /\ Page!Rehashed(old, items, size) = r[Len(old)]
             /\ \A k \in 1 .. Len(old) : r[k] = Entered(items, r[k - 1], old[k])
    BY <2>1, RehashRuns
  <2> QED BY <2>2
<1>2a. /\ \A a \in DOMAIN old : old[a] \in {0} \cup 2 .. n
       /\ \A a, b \in DOMAIN old : old[a] = old[b] /\ old[a] # 0 => a = b
  BY DEF Indexes
<1>2b. \A i \in 2 .. n : \E a \in DOMAIN old : old[a] = i
  <2> TAKE i \in 2 .. n
  <2>1. PICK k \in Nat : Reaches(old, items, items[i].link, k) /\ old[At(items[i].link, k, Len(old))] = i
    BY DEF Indexes
  <2>2. Len(old) \in Nat \ {0} /\ items[i].link \in Links
    BY <1>1, <2>1 DEF Reaches, Distinct
  <2>3. At(items[i].link, k, Len(old)) \in 1 .. Len(old)
    BY <2>2, AtIs
  <2> QED BY <1>1, <2>1, <2>3
<1> DEFINE G == {k \in 0 .. m : Indexes(r[k], items, T(k))}
<1>3. 0 \in G
  <2>1. T(0) = {} /\ DOMAIN r[0] = 1 .. size
    <3>1. 0 \in 0 .. m /\ 1 .. 0 = {}
      BY <1>1
    <3>2. r[0] \in [1 .. size -> Nat]
      BY <1>2, <3>1
    <3>3. T(0) = {}
      BY <3>1 DEF T
    <3> QED BY <3>2, <3>3
  <2>2. Indexes(r[0], items, {})
    BY <1>0, <1>2, <2>1 DEF Indexes, Zeros
  <2>3. 0 \in 0 .. m
    BY <1>1
  <2> HIDE DEF m
  <2> QED BY <2>1, <2>2, <2>3
<1>4. ASSUME NEW k \in 1 .. m, k - 1 \in G
      PROVE  k \in G
  <2> DEFINE p == r[k - 1]
             i == old[k]
             U == T(k - 1)
  <2>1. k - 1 \in 0 .. m /\ Indexes(p, items, U) /\ k \in 0 .. m
    BY <1>1, <1>4
  <2>2. p \in [1 .. size -> Nat] /\ DOMAIN p = 1 .. size /\ Len(p) = size
    BY <1>0, <1>2, <2>1
  <2>3. r[k] = Entered(items, p, i)
    BY <1>2
  <2>4. U \subseteq 2 .. n /\ U \in SUBSET (Nat \ {0}) /\ i \in {0} \cup 2 .. n
    <3>1. \A a \in 1 .. k - 1 : a \in DOMAIN old
      BY <1>1
    <3>2. \A a \in DOMAIN old : old[a] \in {0} \cup 2 .. n
      BY <1>2a
    <3>3. U \subseteq 2 .. n
      BY <3>1, <3>2 DEF T
    <3>4. k \in DOMAIN old
      BY <1>1
    <3>5. 2 .. n \subseteq Nat \ {0}
      OBVIOUS
    <3>6. i \in {0} \cup 2 .. n
      BY <3>2, <3>4
    <3> HIDE DEF i, U
    <3> QED BY <3>3, <3>5, <3>6
  <2>5. T(k) = IF i = 0 THEN U ELSE U \cup {i}
    <3>1. 1 .. k = (1 .. k - 1) \cup {k}
      BY <1>1
    <3> QED BY <3>1 DEF T
  <2>6. CASE i = 0
    <3>1. r[k] = p /\ T(k) = U
      BY <2>3, <2>5, <2>6 DEF Entered
    <3> HIDE DEF p, U
    <3> QED BY <2>1, <3>1
  <2>7. CASE i # 0
    <3>1. i \in 2 .. n /\ i \in Nat \ {0} /\ i \notin U
      <4>1. \A a \in 1 .. k - 1 : old[a] # i
        <5>1. \A a \in 1 .. k - 1 : a \in DOMAIN old /\ a # k /\ k \in DOMAIN old
          BY <1>1
        <5> QED BY <1>2a, <2>7, <5>1
      <4>2. i \notin U
        BY <4>1 DEF T
      <4>3. i \in 2 .. n
        BY <2>4, <2>7
      <4> HIDE DEF i, U
      <4> QED BY <4>2, <4>3
    <3> HIDE DEF p, U, i
    <3>2. \A a \in DOMAIN p : p[a] \in {0} \cup 2 .. n
      BY <2>1, <2>4 DEF Indexes
    <3>3. \A a, b \in DOMAIN p : p[a] = p[b] /\ p[a] # 0 => a = b
      BY <2>1 DEF Indexes
    <3>4. PICK free \in 1 .. size : p[free] = 0
      BY <2>2, <3>2, <3>3, FreeSlot
    <3>5. \A j \in U : items[j].link # items[i].link /\ items[j].link \in Links
      BY <2>4, <3>1 DEF Distinct
    <3>6. items[i].link \in Links
      BY <3>1 DEF Distinct
    <3> DEFINE a == Page!Slot(p, items, items[i].link)
    <3>7. Indexes([p EXCEPT ![a] = i], items, U \cup {i})
      BY <2>1, <2>2, <2>4, <3>1, <3>4, <3>5, <3>6, EnterKeeps
    <3> QED BY <2>1, <2>3, <2>5, <2>7, <3>7 DEF Entered
  <2> QED BY <2>6, <2>7
<1> HIDE DEF G
<1>5. \A k \in 0 .. m : k \in G
  BY <1>1, <1>3, <1>4, UpTo
<1>6. m \in G
  BY <1>1, <1>5
<1>7. T(m) = 2 .. n
  <2>1. \A a \in 1 .. m : old[a] \in {0} \cup 2 .. n
    BY <1>1, <1>2a
  <2>2. \A i \in 2 .. n : i # 0 /\ \E a \in 1 .. m : old[a] = i
    BY <1>1, <1>2b
  <2> QED BY <2>1, <2>2 DEF T
<1>8. Indexes(r[m], items, 2 .. n) /\ m \in 0 .. m
  BY <1>1, <1>6, <1>7 DEF G
<1> HIDE DEF m
<1> QED BY <1>2, <1>8

----------------------------------------------------------------------------
(* The parser of a listing *)

\* The entries are links, each once, and indexed, with slots to spare.
Indexed(p) ==
    /\ Len(p.items) > 0 /\ Distinct(p.items, Len(p.items))
    /\ Indexes(p.slots, p.items, 2 .. Len(p.items))
    /\ IF p.slots = <<>> THEN Len(p.items) = 1
       ELSE Len(p.slots) > 1 /\ 2 * (Len(p.items) - 1) <= Len(p.slots)

ParserType ==
    [tag : Seq(Page!Characters), quote : BOOLEAN, row : Seq(Page!Characters \cup {" ", "tab"}),
     bytes : Nat, entry : Nat \cup {None}, metadata : BOOLEAN, table : BOOLEAN,
     comment : BOOLEAN, dashes : Nat, items : Seq(Item), slots : Seq(Nat), oversized : BOOLEAN]

\* A parser that has received something.
Parsers == {p \in ParserType : Indexed(p)}

LEMMA ParserFacts ==
    ASSUME NEW p \in Parsers
    PROVE  /\ p.items \in Seq(Item) /\ p.slots \in Seq(Nat)
           /\ Len(p.items) \in Nat \ {0} /\ Len(p.slots) \in Nat
           /\ DOMAIN p.slots = 1 .. Len(p.slots) /\ DOMAIN p.items = 1 .. Len(p.items)
           /\ Distinct(p.items, Len(p.items)) /\ Indexes(p.slots, p.items, 2 .. Len(p.items))
           /\ (p.slots = <<>> => Len(p.items) = 1)
           /\ (p.slots # <<>> => Len(p.slots) > 1 /\ 2 * (Len(p.items) - 1) <= Len(p.slots))
<1>1. p.items \in Seq(Item) /\ p.slots \in Seq(Nat) /\ Indexed(p)
  BY DEF Parsers, ParserType
<1>2. Len(p.items) \in Nat /\ Len(p.slots) \in Nat
      /\ DOMAIN p.slots = 1 .. Len(p.slots) /\ DOMAIN p.items = 1 .. Len(p.items)
  BY <1>1
<1> QED BY <1>1, <1>2 DEF Indexed

\* listing_grow_index makes room for one more entry.
LEMMA GrownIs ==
    ASSUME Page!ConstantsAssumption, NEW p \in Parsers
    PROVE  /\ Page!Grown(p) \in Seq(Nat) /\ Indexes(Page!Grown(p), p.items, 2 .. Len(p.items))
           /\ Len(Page!Grown(p)) > 1 /\ 2 * Len(p.items) <= Len(Page!Grown(p))
<1> DEFINE n == Len(p.items)
           old == p.slots
           size == IF old = <<>> THEN FirstSlots ELSE 2 * Len(old)
<1>1. /\ n \in Nat \ {0} /\ Len(old) \in Nat /\ old \in Seq(Nat) /\ Distinct(p.items, n)
      /\ Indexes(old, p.items, 2 .. n) /\ (old = <<>> => n = 1)
      /\ (old # <<>> => Len(old) > 1 /\ 2 * (n - 1) <= Len(old))
  BY ParserFacts
<1>0. Page!Grown(p) = IF old # <<>> /\ n - 1 < Len(old) \div 2 THEN old
                      ELSE Page!Rehashed(old, p.items, size)
  BY DEF Page!Grown
<1> HIDE DEF old, n
<1>2. CASE old # <<>> /\ n - 1 < Len(old) \div 2
  <2>1. Page!Grown(p) = old
    BY <1>0, <1>2
  <2> DEFINE l == Len(old)
  <2>2. l \in Nat /\ l > 1 /\ 2 * (n - 1) <= l /\ n - 1 < l \div 2
    BY <1>1, <1>2
  <2> HIDE DEF l
  <2>3. 2 * n <= l
    BY <1>1, <2>2
  <2> QED BY <1>1, <1>2, <2>1, <2>2, <2>3 DEF n, l
<1>3. CASE ~(old # <<>> /\ n - 1 < Len(old) \div 2)
  <2>1. Page!Grown(p) = Page!Rehashed(old, p.items, size)
    BY <1>0, <1>3
  <2>2. size \in Nat /\ size > 1 /\ 2 * n <= size /\ n <= size /\ size \in Nat \ {0}
    <3>1. FirstSlots \in Nat /\ FirstSlots > 1
      BY DEF Page!ConstantsAssumption
    <3>2. CASE old = <<>>
      BY <1>1, <3>1, <3>2
    <3>3. CASE old # <<>>
      <4> DEFINE l == Len(old)
      <4>1. l \in Nat /\ l > 1 /\ 2 * (n - 1) <= l /\ size = 2 * l
        BY <1>1, <3>3
      <4> HIDE DEF l, size
      <4> QED BY <1>1, <4>1
    <3> QED BY <3>2, <3>3
  <2> HIDE DEF size
  <2>3. /\ Page!Rehashed(old, p.items, size) \in [1 .. size -> Nat]
        /\ Indexes(Page!Rehashed(old, p.items, size), p.items, 2 .. n)
    BY <1>1, <2>2, RehashIs
  <2> DEFINE g == Page!Rehashed(old, p.items, size)
  <2>4. g \in Seq(Nat) /\ Len(g) = size
    <3>1. g \in [1 .. size -> Nat]
      BY <2>3
    <3> HIDE DEF g
    <3>2. DOMAIN g = 1 .. size
      BY <3>1
    <3> QED BY <2>2, <3>1, <3>2
  <2> QED BY <2>1, <2>2, <2>3, <2>4 DEF n
<1> QED BY <1>2, <1>3

\* A link has an entry from then on, and one only.
LEMMA AddLinkIs ==
    ASSUME Page!ConstantsAssumption, NEW p \in Parsers, NEW href \in Links \cup LeftOut
    PROVE  Page!AddLink(p, href) \in Parsers
<1>1. CASE href \in LeftOut
  BY <1>1 DEF Page!AddLink
<1>2. CASE href \notin LeftOut
  <2> DEFINE items == p.items
             n == Len(items)
             slots == Page!Grown(p)
             size == Len(slots)
             slot == Page!Slot(slots, items, href)
             new == [link |-> href, size |-> None, dated |-> FALSE]
             more == Append(items, new)
  <2>1. href \in Links /\ new \in Item
    BY <1>2 DEF Item
  <2>2. /\ items \in Seq(Item) /\ n \in Nat \ {0} /\ Distinct(items, n) /\ DOMAIN items = 1 .. n
        /\ slots \in Seq(Nat) /\ Indexes(slots, items, 2 .. n) /\ size > 1 /\ 2 * n <= size
    BY ParserFacts, GrownIs
  <2>3. Page!AddLink(p, href) =
          [p EXCEPT !.items = IF slots[slot] # 0 THEN items ELSE more,
                    !.slots = [slots EXCEPT ![slot] =
                                 IF slots[slot] # 0 THEN slots[slot]
                                 ELSE Len(IF slots[slot] # 0 THEN items ELSE more)],
                    !.entry = IF slots[slot] # 0 THEN slots[slot]
                              ELSE Len(IF slots[slot] # 0 THEN items ELSE more)]
    BY <1>2 DEF Page!AddLink
  <2> HIDE DEF items, n, slots, slot, new
  <2>4. size \in Nat \ {0} /\ slots \in [1 .. size -> Nat] /\ DOMAIN slots = 1 .. size /\ n <= size
        /\ size \in Nat
    BY <2>2
  <2>5. \A a \in DOMAIN slots : slots[a] \in {0} \cup 2 .. n
    BY <2>2 DEF Indexes
  <2>6. PICK free \in 1 .. size : slots[free] = 0
    <3>1. \A a, b \in DOMAIN slots : slots[a] = slots[b] /\ slots[a] # 0 => a = b
      BY <2>2 DEF Indexes
    <3> HIDE DEF size
    <3> QED BY <2>2, <2>4, <2>5, <3>1, FreeSlot
  <2>7. PICK at \in 0 .. size - 1 : Reaches(slots, items, href, at)
    BY <2>1, <2>4, <2>6, SomeReached
  <2>8. slot = At(href, at, size) /\ slot \in 1 .. size
    <3>1. slot = At(href, at, size)
      BY <2>4, <2>7, SlotIs DEF slot
    <3>2. at \in Nat
      BY <2>4
    <3> HIDE DEF size
    <3> QED BY <2>1, <2>4, <3>1, <3>2, AtIs
  <2>9. p \in ParserType
    BY DEF Parsers
  <2>10. CASE slots[slot] # 0
    <3>1. [slots EXCEPT ![slot] = slots[slot]] = slots /\ slots[slot] \in Nat
      BY <2>4, <2>8
    <3>2. Page!AddLink(p, href) = [p EXCEPT !.items = items, !.slots = slots, !.entry = slots[slot]]
      BY <2>3, <2>10, <3>1
    <3> DEFINE q == [p EXCEPT !.items = items, !.slots = slots, !.entry = slots[slot]]
    <3>3. q \in ParserType /\ q.items = items /\ q.slots = slots
      BY <2>2, <2>9, <3>1 DEF ParserType
    <3>4. slots # <<>> /\ n > 0 /\ 2 * (n - 1) <= size
      BY <2>2, <2>4
    <3> HIDE DEF q
    <3>5. Indexed(q)
      BY <2>2, <3>3, <3>4 DEF Indexed, n
    <3> QED BY <3>2, <3>3, <3>5 DEF Parsers, q
  <2>11. CASE slots[slot] = 0
    <3>1. /\ more \in Seq(Item) /\ Len(more) = n + 1 /\ more[n + 1] = new
          /\ \A i \in 1 .. n : more[i] = items[i]
      BY <2>1, <2>2 DEF n
    <3> HIDE DEF more
    <3>2. \A i \in 2 .. n : items[i].link # href /\ items[i].link \in Links
      <4> SUFFICES ASSUME NEW i \in 2 .. n, items[i].link = href
                   PROVE  FALSE
        BY <2>2 DEF Distinct
      <4>1. PICK m \in Nat : Reaches(slots, items, href, m) /\ slots[At(href, m, size)] = i
        BY <2>2 DEF Indexes
      <4>2. slot = At(href, m, size)
        BY <2>4, <4>1, SlotIs DEF slot
      <4> QED BY <2>11, <4>1, <4>2
    <3>3. Indexes(slots, more, 2 .. n)
      <4>1. \A i \in 2 .. n : items[i].link = more[i].link /\ items[i].link \in Links
        BY <3>1, <3>2
      <4> HIDE DEF size
      <4> QED BY <2>2, <2>4, <4>1, SameIndex DEF size
    <3>4. Page!Slot(slots, more, href) = slot
      <4>1. \A i \in 2 .. n : items[i].link = more[i].link
        BY <3>1
      <4>0. \A l \in Links : Reaches(slots, items, l, at) <=> Reaches(slots, more, l, at)
        <5> DEFINE T == 2 .. n
        <5>1. (\A a \in DOMAIN slots : slots[a] \in {0} \cup T) /\ \A k \in T : items[k].link = more[k].link
          BY <2>5, <4>1
        <5> HIDE DEF T
        <5> QED BY <2>4, <5>1, SameLinks
      <4>2. Reaches(slots, more, href, at)
        BY <2>1, <2>7, <4>0
      <4> QED BY <2>4, <2>8, <4>2, SlotIs
    <3> DEFINE i == n + 1
               s == [slots EXCEPT ![slot] = i]
    <3>5. more[i].link = href /\ i \in Nat \ {0} /\ i \notin 2 .. n /\ (2 .. n) \in SUBSET (Nat \ {0})
          /\ (2 .. n) \cup {i} = 2 .. i
      BY <2>2, <3>1 DEF new
    <3>6. \A k \in 2 .. n : more[k].link # more[i].link /\ more[k].link \in Links
      BY <3>1, <3>2, <3>5
    <3> HIDE DEF i
    <3>7. Indexes(s, more, (2 .. n) \cup {i})
      BY <2>1, <2>4, <2>6, <3>3, <3>4, <3>5, <3>6, EnterKeeps
    <3>8. Distinct(more, i)
      <4>1. \A k \in 2 .. i : k \in 2 .. n \/ k = i
        BY <3>5
      <4>2. \A j, k \in 2 .. n : more[j].link = more[k].link => j = k
        <5>1. \A k \in 2 .. n : k \in 1 .. n
          OBVIOUS
        <5> QED BY <2>2, <3>1, <5>1 DEF Distinct
      <4> QED BY <2>1, <3>5, <3>6, <4>1, <4>2 DEF Distinct
    <3>9. s \in Seq(Nat) /\ Len(s) = size
      <4>1. s \in [1 .. size -> Nat] /\ DOMAIN s = 1 .. size
        BY <2>4, <3>5
      <4> HIDE DEF s, size
      <4> QED BY <2>4, <4>1
    <3>10. Page!AddLink(p, href) = [p EXCEPT !.items = more, !.slots = s, !.entry = i]
      BY <2>3, <2>11, <3>1 DEF i
    <3> DEFINE q == [p EXCEPT !.items = more, !.slots = s, !.entry = i]
    <3>11. q \in ParserType /\ q.items = more /\ q.slots = s
      <4> HIDE DEF s
      <4> QED BY <2>9, <3>1, <3>5, <3>9 DEF ParserType
    <3>12. s # <<>> /\ i > 0 /\ 2 * (i - 1) <= size /\ Len(more) = i
      <4> HIDE DEF s
      <4> QED BY <2>2, <2>4, <3>1, <3>9 DEF i
    <3> HIDE DEF q, s
    <3>13. Indexed(q)
      BY <2>2, <3>5, <3>7, <3>8, <3>9, <3>11, <3>12 DEF Indexed
    <3> QED BY <3>10, <3>11, <3>13 DEF Parsers, q
  <2> QED BY <2>10, <2>11
<1> QED BY <1>1, <1>2

\* What a row says of a link does not move its entry.
LEMMA SameEntries ==
    ASSUME Page!ConstantsAssumption, NEW p \in Parsers, NEW q \in ParserType, q.slots = p.slots,
           Len(q.items) = Len(p.items),
           \A i \in 1 .. Len(p.items) : q.items[i].link = p.items[i].link
    PROVE  q \in Parsers
<1> DEFINE n == Len(p.items)
           T == 2 .. n
           slots == p.slots
<1>1. /\ n \in Nat \ {0} /\ Len(slots) \in Nat /\ DOMAIN slots = 1 .. Len(slots)
      /\ Distinct(p.items, n) /\ Indexes(slots, p.items, T)
      /\ (slots = <<>> => n = 1) /\ (slots # <<>> => Len(slots) > 1 /\ 2 * (n - 1) <= Len(slots))
  BY ParserFacts
<1>2. \A i \in T : p.items[i].link = q.items[i].link /\ p.items[i].link \in Links
  BY <1>1 DEF Distinct
<1>3. Distinct(q.items, n)
  BY <1>1, <1>2 DEF Distinct
<1> HIDE DEF slots, n
<1>4. Indexes(slots, q.items, T)
  <2>1. CASE slots = <<>>
    <3>1. T = {}
      BY <1>1, <2>1
    <3>2. Indexes(<<>>, q.items, {})
      BY DEF Indexes
    <3> HIDE DEF T
    <3> QED BY <2>1, <3>1, <3>2
  <2>2. CASE slots # <<>>
    <3>1. Len(slots) \in Nat \ {0}
      BY <1>1, <2>2
    <3> HIDE DEF T
    <3> QED BY <1>1, <1>2, <3>1, SameIndex
  <2> QED BY <2>1, <2>2
<1>5. Indexed(q)
  BY <1>1, <1>3, <1>4 DEF Indexed, slots, n
<1> QED BY <1>5 DEF Parsers

LEMMA NewRowIs ==
    ASSUME Page!ConstantsAssumption, NEW p \in Parsers
    PROVE  Page!NewRow(p) \in Parsers
<1>1. p \in ParserType
  BY DEF Parsers
<1>2. /\ Page!NewRow(p) \in ParserType /\ Page!NewRow(p).slots = p.slots
      /\ Page!NewRow(p).items = p.items
  <2>1. <<>> \in Seq(Page!Characters \cup {" ", "tab"}) /\ 0 \in Nat /\ FALSE \in BOOLEAN
    OBVIOUS
  <2> QED BY <1>1, <2>1 DEF ParserType, Page!NewRow
<1> QED BY <1>2, SameEntries

\* listing_finish_row
LEMMA FinishRowIs ==
    ASSUME Page!ConstantsAssumption, NEW p \in Parsers
    PROVE  Page!FinishRow(p) \in Parsers
<1>1. CASE p.entry = None \/ ~p.metadata
  <2>1. Page!FinishRow(p) = Page!NewRow(p)
    BY <1>1 DEF Page!FinishRow
  <2> QED BY <2>1, NewRowIs
<1>2. CASE ~(p.entry = None \/ ~p.metadata)
  <2> DEFINE text == Page!Trimmed(p.row)
             field == Page!Field(Page!SizeText(p.row, p.table), p.table)
             e == p.entry
             item == p.items[e]
             sized == item.size = None /\ item.link \notin Directories /\ field # <<>> /\ field[1] \in Sizes
             d == item.dated \/ (text # <<>> /\ text[1] = Date)
             z == IF sized THEN field[1] ELSE item.size
             said == [item EXCEPT !.dated = d, !.size = z]
             items == [p.items EXCEPT ![e] = said]
             q == [p EXCEPT !.items = items]
  <2>1. Page!FinishRow(p) = Page!NewRow(q)
    BY <1>2 DEF Page!FinishRow
  <2>2. d \in BOOLEAN /\ (z \in Sizes \/ z = item.size)
    OBVIOUS
  <2>3. p \in ParserType /\ p.items \in Seq(Item) /\ DOMAIN p.items = 1 .. Len(p.items)
        /\ Len(p.items) \in Nat
    BY ParserFacts DEF Parsers
  <2> HIDE DEF text, field, sized, d, z
  <2>4. CASE e \in DOMAIN p.items
    <3>1. item \in Item
      BY <2>3, <2>4
    <3>2. said \in Item /\ said.link = item.link
      BY <2>2, <3>1 DEF Item
    <3> HIDE DEF said
    <3>3. /\ items \in Seq(Item) /\ Len(items) = Len(p.items)
          /\ \A i \in 1 .. Len(p.items) : items[i] = IF i = e THEN said ELSE p.items[i]
      <4>1. e \in 1 .. Len(p.items)
        BY <2>3, <2>4
      <4> HIDE DEF e
      <4> QED BY <2>3, <3>2, <4>1, ExceptSeq
    <3>4. \A i \in 1 .. Len(p.items) : items[i].link = p.items[i].link
      BY <3>2, <3>3
    <3> HIDE DEF items
    <3>5. q \in ParserType /\ q.slots = p.slots /\ q.items = items
      BY <2>3, <3>3 DEF ParserType
    <3> HIDE DEF q
    <3>6. q \in Parsers
      BY <3>3, <3>4, <3>5, SameEntries
    <3> QED BY <2>1, <3>6, NewRowIs
  <2>5. CASE e \notin DOMAIN p.items
    <3>1. items = p.items
      BY <2>3, <2>5
    <3>2. q = p
      BY <2>3, <3>1 DEF ParserType
    <3> QED BY <2>1, <3>2, NewRowIs
  <2> QED BY <2>4, <2>5
<1> QED BY <1>1, <1>2

\* What leaves entries and slots alone.
LEMMA FieldsKeep ==
    ASSUME Page!ConstantsAssumption, NEW p \in Parsers, NEW q \in ParserType,
           q.items = p.items, q.slots = p.slots
    PROVE  q \in Parsers
  BY SameEntries

LEMMA NotedIs ==
    ASSUME Page!ConstantsAssumption, NEW p \in Parsers, NEW c \in Page!Characters \cup {" ", "tab"}
    PROVE  Page!Noted(p, c) \in Parsers
<1> DEFINE q == [p EXCEPT !.row = Append(p.row, c)]
<1>1. p \in ParserType
  BY DEF Parsers
<1>2. Append(p.row, c) \in Seq(Page!Characters \cup {" ", "tab"})
  <2> DEFINE S == Page!Characters \cup {" ", "tab"}
  <2>1. p.row \in Seq(S) /\ c \in S
    BY <1>1 DEF ParserType
  <2> HIDE DEF S
  <2>2. Append(p.row, c) \in Seq(S)
    BY <2>1, AppendProperties
  <2> QED BY <2>2 DEF S
<1>3. q \in ParserType /\ q.items = p.items /\ q.slots = p.slots
  BY <1>1, <1>2 DEF ParserType
<1>4. Page!Noted(p, c) \in {p, q}
  BY DEF Page!Noted
<1> HIDE DEF q
<1>5. q \in Parsers
  BY <1>3, FieldsKeep
<1> QED BY <1>4, <1>5

\* listing_tag
LEMMA TagIs ==
    ASSUME Page!ConstantsAssumption, NEW p \in Parsers
    PROVE  Page!Tag(p) \in Parsers
<1> DEFINE name == p.tag[2]
           hrefs == {i \in 3 .. Len(p.tag) : p.tag[i] \in Links \cup LeftOut}
           first == CHOOSE i \in hrefs : \A j \in hrefs : i <= j
           done == Page!FinishRow(p)
           table == [done EXCEPT !.table = (name = "tr")]
           meta == [p EXCEPT !.metadata = (p.entry # None)]
           begun == [done EXCEPT !.bytes = Len(p.tag)]
           mark == IF name = "/td" THEN "tab" ELSE " "
<1>0. Page!Tag(p) \in {table, done, meta, IF hrefs = {} THEN begun ELSE Page!AddLink(begun, p.tag[first]),
                       IF Len(p.row) < RowLimit THEN Page!Noted(p, mark) ELSE p}
  BY DEF Page!Tag
<1>1. p \in ParserType /\ done \in Parsers /\ done \in ParserType /\ Len(p.tag) \in Nat
      /\ p.tag \in Seq(Page!Characters)
  <2>1. p \in ParserType /\ done \in Parsers
    BY FinishRowIs DEF Parsers
  <2>2. p.tag \in Seq(Page!Characters)
    BY <2>1 DEF ParserType
  <2>3. Len(p.tag) \in Nat
    BY <2>2
  <2> QED BY <2>1, <2>2, <2>3 DEF Parsers
<1>2. hrefs # {} => p.tag[first] \in Links \cup LeftOut
  <2> SUFFICES ASSUME hrefs # {}
               PROVE  first \in hrefs
    OBVIOUS
  <2>1. hrefs \in SUBSET Nat
    BY <1>1
  <2>2. \E i \in hrefs : \A j \in hrefs : i <= j
    <3> HIDE DEF hrefs
    <3> QED BY <2>1, LeastNumber
  <2> QED BY <2>2
<1> HIDE DEF done, name, hrefs, first, mark
<1>3. table \in ParserType /\ table.items = done.items /\ table.slots = done.slots
  BY <1>1 DEF ParserType
<1>4. meta \in ParserType /\ meta.items = p.items /\ meta.slots = p.slots
  BY <1>1 DEF ParserType
<1>5. begun \in ParserType /\ begun.items = done.items /\ begun.slots = done.slots
  BY <1>1 DEF ParserType
<1> HIDE DEF table, meta, begun
<1>6. table \in Parsers /\ meta \in Parsers /\ begun \in Parsers
  BY <1>1, <1>3, <1>4, <1>5, FieldsKeep
<1>7. hrefs # {} => Page!AddLink(begun, p.tag[first]) \in Parsers
  BY <1>2, <1>6, AddLinkIs
<1>8. Page!Noted(p, mark) \in Parsers
  <2>1. mark \in Page!Characters \cup {" ", "tab"}
    BY DEF mark
  <2> QED BY <2>1, NotedIs
<1> QED BY <1>0, <1>1, <1>6, <1>7, <1>8

LEMMA CommentIs ==
    ASSUME Page!ConstantsAssumption, NEW p \in Parsers, NEW c
    PROVE  Page!Comment(p, c) \in Parsers
<1> DEFINE over1 == [p EXCEPT !.comment = FALSE, !.dashes = 0]
           more == IF p.dashes < 2 THEN p.dashes + 1 ELSE 2
           dash == [p EXCEPT !.dashes = more]
           other == [p EXCEPT !.dashes = 0]
<1>1. p \in ParserType
  BY DEF Parsers
<1>2. over1 \in ParserType /\ over1.items = p.items /\ over1.slots = p.slots
  BY <1>1 DEF ParserType
<1>3. more \in Nat
  <2>1. p.dashes \in Nat
    BY <1>1, Zenon DEF ParserType
  <2> HIDE DEF over1, dash, other
  <2> QED BY <2>1
<1>4. Page!Comment(p, c) \in {over1, dash, other}
  BY DEF Page!Comment
<1> HIDE DEF more
<1>5. dash \in ParserType /\ dash.items = p.items /\ dash.slots = p.slots
  BY <1>1, <1>3 DEF ParserType
<1>6. other \in ParserType /\ other.items = p.items /\ other.slots = p.slots
  BY <1>1 DEF ParserType
<1> HIDE DEF over1, dash, other
<1> QED BY <1>2, <1>4, <1>5, <1>6, FieldsKeep

LEMMA TextIs ==
    ASSUME Page!ConstantsAssumption, NEW p \in Parsers, NEW c \in Page!Characters
    PROVE  Page!Text(p, c) \in Parsers
<1> DEFINE d == IF c = "newline" \/ (c = "tab" /\ p.table) THEN " " ELSE c
<1>1. Page!Text(p, c) \in {Page!FinishRow(p), Page!Noted(p, d)}
  BY DEF Page!Text
<1>2. d \in Page!Characters \cup {" ", "tab"}
  OBVIOUS
<1> HIDE DEF d
<1> QED BY <1>1, <1>2, FinishRowIs, NotedIs

LEMMA InTagIs ==
    ASSUME Page!ConstantsAssumption, NEW q \in Parsers, NEW c \in Page!Characters
    PROVE  Page!InTag(q, c) \in Parsers
<1> DEFINE p == IF c = "<" /\ ~q.quote THEN [q EXCEPT !.tag = <<>>] ELSE q
           tag == Append(p.tag, c)
           quote == IF c = "quote" THEN ~p.quote ELSE p.quote
           large == [p EXCEPT !.oversized = TRUE]
           noted == Page!Noted(p, " ")
           comment == [noted EXCEPT !.comment = TRUE, !.tag = <<>>]
           full == [p EXCEPT !.tag = tag, !.quote = quote]
           done == Page!Tag(full)
           closed == [done EXCEPT !.tag = <<>>]
<1>0. Page!InTag(q, c) \in {large, comment, closed, full}
  BY DEF Page!InTag
<1>1. <<>> \in Seq(Page!Characters)
  OBVIOUS
<1>2. p \in Parsers
  <2> DEFINE r == [q EXCEPT !.tag = <<>>]
  <2>1. q \in ParserType
    BY DEF Parsers
  <2>2. r \in ParserType /\ r.items = q.items /\ r.slots = q.slots
    BY <1>1, <2>1 DEF ParserType
  <2>3. p \in {q, r}
    OBVIOUS
  <2> HIDE DEF r, p
  <2>4. r \in Parsers
    BY <2>2, FieldsKeep
  <2> QED BY <2>3, <2>4
<1> HIDE DEF p
<1>3. p \in ParserType
  BY <1>2 DEF Parsers
<1>4. tag \in Seq(Page!Characters) /\ quote \in BOOLEAN
  <2>1. p.tag \in Seq(Page!Characters) /\ p.quote \in BOOLEAN
    BY <1>3 DEF ParserType
  <2>2. tag \in Seq(Page!Characters)
    BY <2>1, AppendProperties
  <2> QED BY <2>1, <2>2
<1> HIDE DEF tag, quote
<1>5. large \in Parsers /\ full \in Parsers
  <2>1. large \in ParserType /\ large.items = p.items /\ large.slots = p.slots
    BY <1>3 DEF ParserType
  <2>2. full \in ParserType /\ full.items = p.items /\ full.slots = p.slots
    BY <1>3, <1>4 DEF ParserType
  <2> HIDE DEF large, full
  <2> QED BY <1>2, <2>1, <2>2, FieldsKeep
<1>6. comment \in Parsers
  <2>1. noted \in Parsers /\ noted \in ParserType
    BY <1>2, NotedIs DEF Parsers
  <2> HIDE DEF noted
  <2>2. comment \in ParserType /\ comment.items = noted.items /\ comment.slots = noted.slots
    BY <1>1, <2>1 DEF ParserType
  <2> HIDE DEF comment
  <2> QED BY <2>1, <2>2, FieldsKeep
<1>7. closed \in Parsers
  <2>1. done \in Parsers /\ done \in ParserType
    BY <1>5, TagIs DEF Parsers
  <2> HIDE DEF done
  <2>2. closed \in ParserType /\ closed.items = done.items /\ closed.slots = done.slots
    BY <1>1, <2>1 DEF ParserType
  <2> HIDE DEF closed
  <2> QED BY <2>1, <2>2, FieldsKeep
<1> QED BY <1>0, <1>5, <1>6, <1>7

\* receive_listing_data, one character
LEMMA CharIs ==
    ASSUME Page!ConstantsAssumption, NEW q \in Parsers, NEW c \in Page!Characters
    PROVE  Page!Char(q, c) \in Parsers
<1> DEFINE p == IF q.entry = None THEN q ELSE [q EXCEPT !.bytes = q.bytes + 1]
           large == [p EXCEPT !.oversized = TRUE]
<1>1. Page!Char(q, c) \in {q, large, Page!Comment(p, c), Page!Text(p, c), Page!InTag(p, c)}
  BY DEF Page!Char
<1>2. p \in Parsers
  <2> DEFINE r == [q EXCEPT !.bytes = q.bytes + 1]
  <2>1. q \in ParserType
    BY DEF Parsers
  <2>2. q.bytes + 1 \in Nat
    <3>1. q.bytes \in Nat
      BY <2>1, Zenon DEF ParserType
    <3> HIDE DEF p, large
    <3> QED BY <3>1
  <2>3. r \in ParserType /\ r.items = q.items /\ r.slots = q.slots
    BY <2>1, <2>2 DEF ParserType
  <2>4. p \in {q, r}
    OBVIOUS
  <2> HIDE DEF r, p
  <2>5. r \in Parsers
    BY <2>3, FieldsKeep
  <2> QED BY <2>4, <2>5
<1> HIDE DEF p
<1>3. large \in Parsers
  <2>1. p \in ParserType
    BY <1>2 DEF Parsers
  <2>2. large \in ParserType /\ large.items = p.items /\ large.slots = p.slots
    BY <2>1 DEF ParserType
  <2> HIDE DEF large
  <2> QED BY <1>2, <2>2, FieldsKeep
<1>4. Page!Comment(p, c) \in Parsers /\ Page!Text(p, c) \in Parsers /\ Page!InTag(p, c) \in Parsers
  BY <1>2, CommentIs, TextIs, InTagIs
<1> HIDE DEF large
<1> QED BY <1>1, <1>3, <1>4

\* What a piece of the page makes of the parser.
LEMMA CharsKeep ==
    ASSUME Page!ConstantsAssumption, NEW start \in Parsers, NEW list \in Seq(Page!Characters)
    PROVE  Page!FoldLeft(Page!Char, start, list) \in Parsers
<1> DEFINE n == Len(list)
           Of(f) == [s \in SUBSET (DOMAIN list) |->
                       IF s = {} THEN start ELSE Page!Char(f[s \ {Page!Max(s)}], list[Page!Max(s)])]
           iter == CHOOSE f : f = Of(f)
           step == [k \in 1 .. n |-> [x \in Parsers |-> Page!Char(x, list[k])]]
           mx == Greatests(n)
           S == Parsers
<1>1. Page!FoldLeft(Page!Char, start, list) = iter[DOMAIN list]
  BY DEF Page!FoldLeft, Page!MapThenFoldSet
<1>2. n \in Nat /\ DOMAIN list = 1 .. n /\ \A k \in 1 .. n : list[k] \in Page!Characters
  OBVIOUS
<1>3. step \in [1 .. n -> [Parsers -> Parsers]]
  BY <1>2, CharIs
<1>4. Greatest(mx, n) /\ \A s \in SUBSET (1 .. n) : mx[s] = Page!Max(s)
  BY <1>2, GreatestsAre, PageMax DEF Greatests
<1>5. \A s \in SUBSET (1 .. n) : s # {} => mx[s] \in 1 .. n
  BY <1>4 DEF Greatest
<1>6. \A k \in 1 .. n : \A x \in Parsers : step[k][x] = Page!Char(x, list[k])
  OBVIOUS
<1>7. start \in S /\ n \in Nat /\ step \in [1 .. n -> [S -> S]]
  BY <1>2, <1>3
<1> HIDE DEF step, mx, n, S
<1>8. PICK f \in [SUBSET (1 .. n) -> S] : Recurs(f, n, S, start, step, mx)
  BY <1>4, <1>7, FoldDefined
<1>9. f = Of(f)
  <2>1. ASSUME NEW s \in SUBSET (1 .. n), s # {}
        PROVE  f[s] = Page!Char(f[s \ {Page!Max(s)}], list[Page!Max(s)])
    <3>1. f[s \ {Page!Max(s)}] \in Parsers /\ Page!Max(s) \in 1 .. n
      BY <1>4, <1>5, <1>8, <2>1 DEF S
    <3> QED BY <1>4, <1>6, <1>8, <2>1, <3>1 DEF Recurs
  <2>2. f[{}] = start
    BY <1>8 DEF Recurs
  <2> QED BY <1>2, <2>1, <2>2
<1>10. iter = Of(iter)
  BY <1>9
<1> HIDE DEF iter
<1>11. Recurs(iter, n, S, start, step, mx)
  <2>1. ASSUME NEW s \in SUBSET (1 .. n), s # {}, iter[s \ {mx[s]}] \in S
        PROVE  iter[s] = step[mx[s]][iter[s \ {mx[s]}]]
    <3>1. mx[s] = Page!Max(s) /\ mx[s] \in 1 .. n
      BY <1>4, <1>5, <2>1
    <3>2. iter[s] = Page!Char(iter[s \ {Page!Max(s)}], list[Page!Max(s)])
      BY <1>2, <1>10, <2>1
    <3> QED BY <1>6, <2>1, <3>1, <3>2 DEF S
  <2>2. iter[{}] = start
    BY <1>10
  <2> QED BY <2>1, <2>2 DEF Recurs
<1>12. PICK r \in [0 .. n -> S] :
         r[0] = start /\ iter[1 .. n] = r[n] /\ \A k \in 1 .. n : r[k] = step[k][r[k - 1]]
  BY <1>4, <1>7, <1>11, FoldRuns
<1>13. r[n] \in S
  BY <1>7, <1>12
<1> QED BY <1>1, <1>2, <1>12, <1>13 DEF S

----------------------------------------------------------------------------
(* A listing *)

\* What is received, what is parsed and what the caller gets: the parser is as
\* it begins or has its entries indexed, and has met no row over the limit
\* while it goes on; another listing than the old one comes of a page alone.
ResponseType == [hops : Nat, status : {None, "ok", "error", "redirect"}, text : Seq(Page!Characters)]
Replaced ==
    /\ over = "returned" /\ response.status = "ok" /\ ~parser.oversized
    /\ Distinct(listing, Len(listing)) /\ Len(listing) \in Nat \ {0}

PageInv ==
    /\ response \in ResponseType
    /\ parser = Page!Start \/ parser \in Parsers
    /\ over \in {None, "complete"} => ~parser.oversized
    /\ listing # Old => Replaced

\* Of each link that a listing has it has one entry; and it is the old one
\* unless a page was received that the server calls a success, ended as HTTP
\* says and had no row over the limit.
EachLinkOnce ==
    listing # Old =>
      /\ over = "returned" /\ response.status = "ok" /\ ~parser.oversized
      /\ \A i \in 2 .. Len(listing) : listing[i].link \in Links
      /\ \A i, k \in 2 .. Len(listing) : listing[i].link = listing[k].link => i = k

\* The parser where the first character comes.
LEMMA BegunIs ==
    ASSUME Page!ConstantsAssumption, parser = Page!Start \/ parser \in Parsers
    PROVE  /\ (IF parser.items = <<>> THEN [parser EXCEPT !.items = <<Page!Parent>>] ELSE parser)
                \in Parsers
           /\ (IF parser.items = <<>> THEN [parser EXCEPT !.items = <<Page!Parent>>] ELSE parser).oversized
                = parser.oversized
<1> DEFINE q == [Page!Start EXCEPT !.items = <<Page!Parent>>]
<1>1. q \in Parsers /\ q.oversized = FALSE
  <2>1. Page!Parent \in Item
    BY DEF Page!Parent, Item
  <2>2. <<Page!Parent>> \in Seq(Item) /\ Len(<<Page!Parent>>) = 1
    BY <2>1
  <2>3. /\ <<>> \in Seq(Page!Characters) /\ <<>> \in Seq(Page!Characters \cup {" ", "tab"})
        /\ <<>> \in Seq(Nat)
    OBVIOUS
  <2>4. q \in ParserType
    BY <2>2, <2>3 DEF ParserType, Page!Start
  <2>5. q.items = <<Page!Parent>> /\ q.slots = <<>> /\ q.oversized = FALSE
    BY DEF Page!Start
  <2> HIDE DEF q
  <2>6. 2 .. 1 = {}
    OBVIOUS
  <2>7. Distinct(q.items, 1) /\ Indexes(q.slots, q.items, 2 .. 1)
    BY <2>5, <2>6 DEF Distinct, Indexes
  <2>8. Indexed(q)
    BY <2>2, <2>5, <2>7 DEF Indexed
  <2> QED BY <2>4, <2>5, <2>8 DEF Parsers
<1>2. CASE parser = Page!Start
  <2>1. parser.items = <<>> /\ parser.oversized = FALSE
    BY <1>2 DEF Page!Start
  <2> QED BY <1>1, <1>2, <2>1
<1>3. CASE parser \in Parsers
  <2>1. parser.items # <<>>
    BY <1>3, ParserFacts
  <2> QED BY <1>3, <2>1
<1> QED BY <1>2, <1>3

LEMMA PageBegins ==
    ASSUME Page!ConstantsAssumption, Page!Init
    PROVE  PageInv
<1>1. response \in ResponseType
  BY DEF Page!Init, ResponseType
<1>2. parser = Page!Start /\ ~parser.oversized /\ listing = Old
  BY DEF Page!Init, Page!Start
<1> QED BY <1>1, <1>2 DEF PageInv

LEMMA AnswerKeeps ==
    ASSUME PageInv, Page!ConstantsAssumption, Page!Answer
    PROVE  PageInv'
<1>1. over = None /\ UNCHANGED <<parser, listing>>
  BY DEF Page!Answer, Page!Receiving
<1>2. response \in ResponseType /\ response.hops \in Nat
  BY DEF PageInv, ResponseType
<1>3. response' \in ResponseType
  <2>1. response.hops + 1 \in Nat
    BY <1>2
  <2>2. \/ \E status \in {"ok", "error"} : response' = [response EXCEPT !.status = status, !.hops = 0]
        \/ response' = [response EXCEPT !.hops = response.hops + 1]
        \/ response' = response
        \/ response' = [response EXCEPT !.status = "redirect"]
    BY DEF Page!Answer
  <2>3. ASSUME NEW status \in {"ok", "error"}
        PROVE  [response EXCEPT !.status = status, !.hops = 0] \in ResponseType
    <3>1. status \in {None, "ok", "error", "redirect"} /\ 0 \in Nat
      OBVIOUS
    <3> QED BY <1>2, <3>1 DEF ResponseType
  <2>4. [response EXCEPT !.hops = response.hops + 1] \in ResponseType
    <3> DEFINE h == response.hops + 1
    <3> HIDE DEF h
    <3>1. h \in Nat
      BY <2>1 DEF h
    <3>2. [response EXCEPT !.hops = h] \in ResponseType
      BY <1>2, <3>1 DEF ResponseType
    <3> QED BY <3>2 DEF h
  <2>5. [response EXCEPT !.status = "redirect"] \in ResponseType
    BY <1>2 DEF ResponseType
  <2> QED BY <1>2, <2>2, <2>3, <2>4, <2>5
<1>4. ~parser.oversized /\ listing = Old
  BY <1>1 DEF PageInv, Replaced, Page!ConstantsAssumption
<1> QED BY <1>1, <1>3, <1>4 DEF PageInv

LEMMA RowKeeps ==
    ASSUME PageInv, Page!ConstantsAssumption, Page!Row
    PROVE  PageInv'
<1>1. over = None /\ UNCHANGED <<parser, over, listing>>
  BY DEF Page!Row, Page!Receiving
<1>2. response' \in ResponseType
  <2>1. PICK r \in Rows : response' = [response EXCEPT !.text = r.text]
    BY DEF Page!Row
  <2>2. r.text \in Seq(Page!Characters)
    BY DEF Page!ConstantsAssumption
  <2>3. response \in ResponseType
    BY DEF PageInv
  <2> QED BY <2>1, <2>2, <2>3 DEF ResponseType
<1>3. ~parser.oversized /\ listing = Old
  BY <1>1 DEF PageInv, Replaced, Page!ConstantsAssumption
<1> QED BY <1>1, <1>2, <1>3 DEF PageInv

LEMMA DataKeeps ==
    ASSUME PageInv, Page!ConstantsAssumption, Page!Data
    PROVE  PageInv'
<1> DEFINE text == response.text
           begun == IF parser.items = <<>> THEN [parser EXCEPT !.items = <<Page!Parent>>] ELSE parser
<1>1. over = None /\ listing' = listing /\ text # <<>>
  BY DEF Page!Data, Page!Receiving
<1>2. PICK n \in {1, Len(text)} :
        /\ response' = [response EXCEPT !.text = SubSeq(text, n + 1, Len(text))]
        /\ parser' = IF response.status = "ok"
                     THEN Page!FoldLeft(Page!Char, begun, SubSeq(text, 1, n)) ELSE parser
  BY DEF Page!Data
<1>3. response \in ResponseType /\ text \in Seq(Page!Characters)
  BY DEF PageInv, ResponseType
<1>4. n \in 0 .. Len(text)
  BY <1>1, <1>3
<1>5. SubSeq(text, 1, n) \in Seq(Page!Characters) /\ SubSeq(text, n + 1, Len(text)) \in Seq(Page!Characters)
  BY <1>3, <1>4, Halves
<1>6. response' \in ResponseType
  BY <1>2, <1>3, <1>5 DEF ResponseType
<1>7. begun \in Parsers
  BY BegunIs DEF PageInv
<1>8. parser' = Page!Start \/ parser' \in Parsers
  <2> HIDE DEF begun, text
  <2>1. Page!FoldLeft(Page!Char, begun, SubSeq(text, 1, n)) \in Parsers
    BY <1>5, <1>7, CharsKeep
  <2> QED BY <1>2, <2>1 DEF PageInv
<1>9. over' = IF parser'.oversized THEN "error" ELSE over
  BY DEF Page!Data
<1>10. listing = Old
  BY <1>1 DEF PageInv, Replaced, Page!ConstantsAssumption
<1>11. over' \in {None, "complete"} => ~parser'.oversized
  BY <1>9 DEF Page!ConstantsAssumption
<1> QED BY <1>1, <1>6, <1>8, <1>10, <1>11 DEF PageInv

LEMMA EndKeeps ==
    ASSUME PageInv, Page!ConstantsAssumption, Page!EndOfTransfer
    PROVE  PageInv'
<1>1. over = None /\ UNCHANGED <<parser, response, listing>>
  BY DEF Page!EndOfTransfer, Page!Receiving
<1>2. ~parser.oversized /\ listing = Old
  BY <1>1 DEF PageInv, Replaced, Page!ConstantsAssumption
<1> QED BY <1>1, <1>2 DEF PageInv

LEMMA ReturnKeeps ==
    ASSUME PageInv, Page!ConstantsAssumption, Page!Return
    PROVE  PageInv'
<1> DEFINE begun == IF parser.items = <<>> THEN [parser EXCEPT !.items = <<Page!Parent>>] ELSE parser
<1>1. /\ over # "returned" /\ over' = "returned" /\ UNCHANGED <<parser, response>>
      /\ listing' = IF over = "complete" /\ response.status = "ok"
                    THEN Page!FinishRow(begun).items ELSE Old
  BY DEF Page!Return, Page!Kept
<1>2. begun \in Parsers
  BY BegunIs DEF PageInv
<1> HIDE DEF begun
<1>3. Page!FinishRow(begun) \in Parsers
  BY <1>2, FinishRowIs
<1>4. ASSUME listing' # Old
      PROVE  Replaced'
  <2>1. over = "complete" /\ response.status = "ok" /\ listing' = Page!FinishRow(begun).items
    BY <1>1, <1>4
  <2>2. Distinct(listing', Len(listing')) /\ Len(listing') \in Nat \ {0}
    BY <1>3, <2>1, ParserFacts
  <2>3. ~parser.oversized
    BY <2>1 DEF PageInv
  <2> QED BY <1>1, <2>1, <2>2, <2>3 DEF Replaced, Distinct
<1>5. ~(over' \in {None, "complete"})
  BY <1>1 DEF Page!ConstantsAssumption
<1> QED BY <1>1, <1>4, <1>5 DEF PageInv

LEMMA PageKeeps ==
    ASSUME PageInv, Page!ConstantsAssumption, [Page!Next]_(Page!vars)
    PROVE  PageInv'
<1>1. CASE Page!Answer
  BY <1>1, AnswerKeeps
<1>2. CASE Page!Row
  BY <1>2, RowKeeps
<1>3. CASE Page!Data
  BY <1>3, DataKeeps
<1>4. CASE Page!EndOfTransfer
  BY <1>4, EndKeeps
<1>5. CASE Page!Return
  BY <1>5, ReturnKeeps
<1>6. CASE UNCHANGED Page!vars
  BY <1>6 DEF Page!vars, PageInv, Replaced, Distinct
<1> QED BY <1>1, <1>2, <1>3, <1>4, <1>5, <1>6, Zenon DEF Page!Next

THEOREM PageInvHolds == Page!Spec => []PageInv
<1>1. Page!ConstantsAssumption
  BY PartsAssumption
<1>2. Page!Init => PageInv
  BY <1>1, PageBegins
<1>3. PageInv /\ [Page!Next]_(Page!vars) => PageInv'
  BY <1>1, PageKeeps
<1> QED BY <1>2, <1>3, PTL DEF Page!Spec

\* Every link that was met is found again in the index, whatever its hash and
\* however often the index has grown, and there is a free slot where a search
\* for another link ends.
THEOREM EachLinkIsFound == Page!Spec => []IndexFindsEach
<1> DEFINE items == parser.items
           slots == parser.slots
<1>1. ASSUME PageInv, slots # <<>>
      PROVE  /\ \A i \in 2 .. Len(items) : slots[Page!Slot(slots, items, items[i].link)] = i
             /\ 0 \in Page!Range(slots)
  <2>1. parser \in Parsers
    BY <1>1 DEF PageInv, Page!Start
  <2>2. /\ Len(items) \in Nat \ {0} /\ Len(slots) \in Nat /\ DOMAIN slots = 1 .. Len(slots)
        /\ slots \in Seq(Nat) /\ Indexes(slots, items, 2 .. Len(items))
        /\ Len(slots) > 1 /\ 2 * (Len(items) - 1) <= Len(slots)
    BY <1>1, <2>1, ParserFacts
  <2> HIDE DEF items, slots
  <2>3. ASSUME NEW i \in 2 .. Len(items)
        PROVE  slots[Page!Slot(slots, items, items[i].link)] = i
    <3>1. PICK n \in Nat : /\ Reaches(slots, items, items[i].link, n)
                           /\ slots[At(items[i].link, n, Len(slots))] = i
      BY <2>2 DEF Indexes
    <3>2. Page!Slot(slots, items, items[i].link) = At(items[i].link, n, Len(slots))
      BY <2>2, <3>1, SlotIs
    <3> QED BY <3>1, <3>2
  <2>4. PICK a \in 1 .. Len(slots) : slots[a] = 0
    <3> DEFINE size == Len(slots)
               m == Len(items)
    <3>1. size \in Nat /\ slots \in [1 .. size -> Nat] /\ m \in Nat /\ m <= size /\ size # 0
      BY <2>2
    <3>2. /\ \A b \in DOMAIN slots : slots[b] \in {0} \cup 2 .. m
          /\ \A b, c \in DOMAIN slots : slots[b] = slots[c] /\ slots[b] # 0 => b = c
      BY <2>2 DEF Indexes
    <3> HIDE DEF size, m
    <3>3. \E b \in 1 .. size : slots[b] = 0
      BY <3>1, <3>2, FreeSlot
    <3> QED BY <3>3 DEF size
  <2>5. 0 \in Page!Range(slots)
    BY <2>2, <2>4 DEF Page!Range
  <2> QED BY <2>3, <2>5
<1>2. PageInv => IndexFindsEach
  BY <1>1 DEF IndexFindsEach, Page!IndexFindsEach
<1> QED BY <1>2, PageInvHolds, PTL

\* No link is listed twice, and a listing is replaced by that of a page alone.
THEOREM LinksAreListedOnce == Page!Spec => []EachLinkOnce
<1>1. PageInv => EachLinkOnce
  BY DEF PageInv, Replaced, Distinct, EachLinkOnce
<1> QED BY <1>1, PageInvHolds, PTL

=============================================================================
