-------------------------- MODULE Interface_proofs --------------------------
(***************************************************************************)
(* Proofs about what the user sees and types (see Ui): the panes and       *)
(* Viewers that hold providers (Workspace), the history of a pane          *)
(* (PaneHistory), its list (ListView) and the keys (KeyInput). Those of    *)
(* the bindings are in Keymap_proofs.                                      *)
(*                                                                         *)
(* The workspace, for any number of provider objects and any size of a     *)
(* Viewer's history. The invariant (Inv) is that every provider has one    *)
(* owner, alive as long as that, and where what is borrowed comes from;    *)
(* with it every provider is destroyed once, after its last use.           *)
(*                                                                         *)
(* The history, for any capacity, any providers and resources and any      *)
(* limits the operator may configure.  The first lemmas are about the      *)
(* array: the room made for one more entry, and a push.  PastInv is the    *)
(* five invariants together.                                               *)
(*                                                                         *)
(* The list, for any directory, orders, filters and heights.  A sorting    *)
(* routine is modelled by what it returns, so the first lemmas say that    *)
(* Sorted lists a finite set once each by rank (SortedIs) and that the     *)
(* rows shown are the entries a filter lets through (ShownIs); then come   *)
(* the arithmetic of the columns (EnsureVisibleIs) and what sorting,       *)
(* reading again and selecting do to the cursor.  ListInv is the type, the *)
(* order of the items and the cursor in the window.  All actions but       *)
(* Resize end in one of few ways (Leads), and the invariant and the two    *)
(* action properties follow from those.                                    *)
(*                                                                         *)
(* The keys, for any keymaps, contexts and strokes.  The code looks at one *)
(* event and at what its NavInput remembers; the properties are about the  *)
(* events themselves, so KeysInv says what the memory means: a stroke that *)
(* waits is the last event, met in the context that is noted               *)
(* (PendingWasTyped), nothing waits in a paste or under a progress screen  *)
(* (NothingWaits), and the shell is in a paste only while there is one it  *)
(* saw begin, in which no command runs (Pastes).                           *)
(***************************************************************************)
EXTENDS Ui, SequenceTheorems, FiniteSetTheorems, TLAPS

-----------------------------------------------------------------------------
(* The workspace: the inductive invariant. *)

\* No two of s own the same.
Distinct(s) ==
    \A j, k \in DOMAIN s :
        s[j].owned /\ s[k].owned /\ s[j].provider = s[k].provider => j = k

\* What is owned whether or not an operation is in progress.
Settled(q) == \E i \in Panes : q = provider[i] \/ q \in OwnedByViewer(i)

\* A provider exists for as long as it has an owner.
Accounted ==
    \A q : q \in live <=> q # Local /\ (Settled(q) \/ q \in OwnedIn(frames))

\* Nobody owns what another owns, nor the file system: the panes and Viewers...
PanesSeparate ==
    /\ \A i, j \in Panes : i # j /\ provider[i] = provider[j] => provider[i] = Local
    /\ \A i, j \in Panes : provider[j] \notin OwnedByViewer(i)
    /\ \A i, j \in Panes : i # j => OwnedByViewer(i) \cap OwnedByViewer(j) = {}
    /\ \A i \in Panes : Local \notin OwnedByViewer(i) /\ Distinct(ViewsOf(i))

\* ... and the handler in progress.
Separate ==
    /\ PanesSeparate
    /\ \A q \in OwnedIn(frames) : q # Local /\ ~ Settled(q)
    /\ Distinct(frames)

\* What a frame does not own is settled, the file system or owned by a frame,
\* one below it; and a callee that borrows does so from its caller.
Borrowed ==
    /\ \A k \in DOMAIN frames : ~ frames[k].owned =>
           LET q == frames[k].provider
           IN Settled(q) \/ q = Local \/ q \in OwnedIn(frames)
    /\ \A k, m \in DOMAIN frames :
           k < m /\ ~ frames[k].owned /\ frames[m].owned
           => frames[k].provider # frames[m].provider
    /\ \A k \in DOMAIN frames :
           k > 1 /\ ~ frames[k].owned => frames[k].provider = frames[k - 1].provider

\* What is known of the handler in progress.
InProgress ==
    /\ frames # <<>> =>
           /\ Base.job \in {"repository", "follow", "link"} => Base.owned
           /\ Base.job \in {"repository", "location"} => InFiles
           /\ Base.job \in {"follow"} => InViewer
           /\ InFiles /\ ~ Base.owned => Base.provider \in {provider[active], Local}
    /\ \A k \in DOMAIN frames :
           /\ frames[k].job = "view" => k > 1 /\ InFiles
           /\ frames[k].job = "download" => k > 1
           /\ frames[k].job = "location" => k = 1

Inv ==
    /\ TypeOK /\ FocusIsVisible
    /\ IF running
       THEN Accounted /\ Separate /\ Borrowed /\ InProgress /\ BorrowsFromItsPane
       ELSE live = {} /\ frames = <<>>

-----------------------------------------------------------------------------
(* What a sequence of views or of frames owns, when it grows or shrinks.    *)

Mine(e) == IF e.owned THEN {e.provider} ELSE {}

LEMMA OwnedBySome ==
    \A s, q : q \in OwnedIn(s) <=> \E k \in DOMAIN s : s[k].owned /\ s[k].provider = q
BY DEF OwnedIn

LEMMA OwnedInNone == OwnedIn(<<>>) = {} /\ Distinct(<<>>)
BY DEF OwnedIn, Distinct

LEMMA OwnedInOne ==
    ASSUME NEW e
    PROVE  OwnedIn(<<e>>) = Mine(e) /\ Distinct(<<e>>)
<1> DEFINE s == <<e>>
<1>1. DOMAIN s = {1} /\ s[1] = e
  OBVIOUS
<1> HIDE DEF s
<1>2. \A q : q \in OwnedIn(s) <=> q \in Mine(e)
  BY <1>1, OwnedBySome DEF Mine
<1>3. Distinct(s)
  BY <1>1 DEF Distinct
<1> QED
  BY <1>2, <1>3 DEF s

\* A handler, and the callee that borrows from it.
LEMMA OwnedInTwo ==
    ASSUME NEW e, NEW f, ~ f.owned
    PROVE  OwnedIn(<<e, f>>) = Mine(e) /\ Distinct(<<e, f>>)
<1> DEFINE s == <<e, f>>
<1>1. DOMAIN s = {1, 2} /\ s[1] = e /\ s[2] = f
  OBVIOUS
<1> HIDE DEF s
<1>2. \A q : q \in OwnedIn(s) <=> q \in Mine(e)
  BY <1>1, OwnedBySome DEF Mine
<1>3. Distinct(s)
  BY <1>1 DEF Distinct
<1> QED
  BY <1>2, <1>3 DEF s

LEMMA OwnedInAppend ==
    ASSUME NEW S, NEW s \in Seq(S), NEW e \in S
    PROVE  /\ OwnedIn(Append(s, e)) = OwnedIn(s) \cup Mine(e)
           /\ Distinct(s) /\ OwnedIn(s) \cap Mine(e) = {} => Distinct(Append(s, e))
<1> DEFINE t == Append(s, e)
           n == Len(s)
<1>1. /\ DOMAIN s = 1 .. n /\ DOMAIN t = 1 .. n + 1 /\ n \in Nat
      /\ t[n + 1] = e /\ \A k \in 1 .. n : t[k] = s[k]
  BY AppendProperties, LenProperties
<1> HIDE DEF t, n
<1>2. DOMAIN t = DOMAIN s \cup {n + 1} /\ \A k \in DOMAIN s : t[k] = s[k] /\ k # n + 1
  BY <1>1
<1>3. OwnedIn(t) = OwnedIn(s) \cup Mine(e)
  BY <1>1, <1>2, OwnedBySome DEF Mine
<1>4. Distinct(s) /\ OwnedIn(s) \cap Mine(e) = {} => Distinct(t)
  BY <1>1, <1>2, OwnedBySome DEF Mine, Distinct
<1> QED
  BY <1>3, <1>4 DEF t

LEMMA AppendIs ==
    ASSUME NEW S, NEW s \in Seq(S), NEW e \in S
    PROVE  /\ Append(s, e) \in Seq(S) /\ Append(s, e) # <<>>
           /\ DOMAIN Append(s, e) = 1 .. Len(s) + 1 /\ DOMAIN s = 1 .. Len(s)
           /\ \A k \in 1 .. Len(s) : Append(s, e)[k] = s[k]
           /\ Append(s, e)[Len(s) + 1] = e
BY AppendProperties, LenProperties

LEMMA OwnedInFront ==
    ASSUME NEW S, NEW s \in Seq(S), s # <<>>
    PROVE  /\ Front(s) \in Seq(S) /\ Last(s) \in S
           /\ Len(Front(s)) = Len(s) - 1
           /\ \A k \in DOMAIN Front(s) : Front(s)[k] = s[k] /\ k \in DOMAIN s
           /\ OwnedIn(s) = OwnedIn(Front(s)) \cup Mine(Last(s))
           /\ Distinct(s) => Distinct(Front(s)) /\ OwnedIn(Front(s)) \cap Mine(Last(s)) = {}
<1> DEFINE t == Front(s)
           n == Len(s)
           e == s[n]
<1>1. n \in Nat \ {0} /\ DOMAIN s = 1 .. n /\ e \in S
  BY EmptySeq, LenProperties
<1>2. t \in Seq(S) /\ Len(t) = n - 1 /\ DOMAIN t = 1 .. n - 1 /\ \A k \in 1 .. n - 1 : t[k] = s[k]
  <2>1. t = SubSeq(s, 1, n - 1)
    BY DEF Front
  <2>2. \A k \in 1 .. n - 1 : s[k] \in S
    BY <1>1, ElementOfSeq
  <2> HIDE DEF n
  <2>3. /\ SubSeq(s, 1, n - 1) \in Seq(S) /\ Len(SubSeq(s, 1, n - 1)) = n - 1
        /\ \A k \in 1 .. n - 1 : SubSeq(s, 1, n - 1)[k] = s[k]
    BY <1>1, <2>2, SubSeqProperties
  <2> HIDE DEF t
  <2> QED
    BY <2>1, <2>3, LenProperties
<1> HIDE DEF t, n, e
<1>3. /\ DOMAIN s = DOMAIN t \cup {n}
      /\ \A k \in DOMAIN t : t[k] = s[k] /\ k # n /\ k \in DOMAIN s
  BY <1>1, <1>2
<1>4. s[n] = e
  BY DEF e
<1>5. OwnedIn(s) = OwnedIn(t) \cup Mine(e)
  BY <1>3, <1>4, OwnedBySome DEF Mine
<1>6. Distinct(s) => Distinct(t) /\ OwnedIn(t) \cap Mine(e) = {}
  BY <1>3, <1>4, OwnedBySome DEF Mine, Distinct
<1>7. Last(s) = e
  BY DEF Last, e, n
<1> QED
  BY <1>1, <1>2, <1>3, <1>5, <1>6, <1>7 DEF t, n

LEMMA OwnedInTail ==
    ASSUME NEW S, NEW s \in Seq(S), s # <<>>
    PROVE  /\ Tail(s) \in Seq(S) /\ Head(s) \in S
           /\ Len(Tail(s)) = Len(s) - 1
           /\ \A k \in DOMAIN Tail(s) : Tail(s)[k] = s[k + 1] /\ k + 1 \in DOMAIN s
           /\ OwnedIn(s) = OwnedIn(Tail(s)) \cup Mine(Head(s))
           /\ Distinct(s) => Distinct(Tail(s)) /\ OwnedIn(Tail(s)) \cap Mine(Head(s)) = {}
<1> DEFINE t == Tail(s)
           n == Len(s)
           e == s[1]
<1>1. n \in Nat \ {0} /\ DOMAIN s = 1 .. n /\ e \in S
  BY EmptySeq, LenProperties
<1>2. t \in Seq(S) /\ Len(t) = n - 1 /\ DOMAIN t = 1 .. n - 1 /\ \A k \in 1 .. n - 1 : t[k] = s[k + 1]
  BY HeadTailProperties, LenProperties
<1> HIDE DEF t, n
<1>3. /\ \A k \in DOMAIN s : k = 1 \/ (k - 1 \in DOMAIN t /\ (k - 1) + 1 = k)
      /\ \A k \in DOMAIN t : t[k] = s[k + 1] /\ k + 1 # 1 /\ k + 1 \in DOMAIN s
      /\ 1 \in DOMAIN s
      /\ \A j, k \in DOMAIN t : j + 1 = k + 1 => j = k
  BY <1>1, <1>2
<1> HIDE DEF e
<1>4. s[1] = e
  BY DEF e
<1>5. OwnedIn(s) = OwnedIn(t) \cup Mine(e)
  <2>1. ASSUME NEW q \in OwnedIn(s)
        PROVE  q \in OwnedIn(t) \cup Mine(e)
    <3>1. PICK k \in DOMAIN s : s[k].owned /\ s[k].provider = q
      BY OwnedBySome
    <3>2. CASE k = 1
      BY <1>4, <3>1, <3>2 DEF Mine
    <3>3. CASE k # 1
      <4>1. k - 1 \in DOMAIN t /\ t[k - 1] = s[k]
        BY <1>3, <3>3
      <4> QED
        BY <3>1, <4>1, OwnedBySome
    <3> QED
      BY <3>2, <3>3
  <2>2. ASSUME NEW q \in OwnedIn(t)
        PROVE  q \in OwnedIn(s)
    BY <1>3, OwnedBySome
  <2>3. Mine(e) \subseteq OwnedIn(s)
    BY <1>3, <1>4, OwnedBySome DEF Mine
  <2> QED
    BY <2>1, <2>2, <2>3
<1>6. Distinct(s) => Distinct(t) /\ OwnedIn(t) \cap Mine(e) = {}
  BY <1>3, <1>4, OwnedBySome DEF Mine, Distinct
<1>7. Head(s) = e
  BY DEF e
<1> QED
  BY <1>1, <1>2, <1>3, <1>5, <1>6, <1>7 DEF t, n

-----------------------------------------------------------------------------
(* Steps of the handler in progress: panes and Viewers stay as they are.    *)

USE DEF Panes

LEMMA SettledKept ==
    ASSUME UNCHANGED panes
    PROVE  \A q : Settled(q)' <=> Settled(q)
BY DEF panes, Settled, OwnedByViewer

LEMMA PanesKept ==
    ASSUME Inv, running, UNCHANGED <<panes, active, running>>,
           live' \subseteq Providers, frames' \in Seq(Frames),
           \A q : q \in live' <=> q # Local /\ (Settled(q) \/ q \in OwnedIn(frames')),
           \A q \in OwnedIn(frames') : q # Local /\ ~ Settled(q),
           Distinct(frames'), Borrowed', InProgress'
    PROVE  Inv'
<1>1. /\ TypeOK /\ FocusIsVisible /\ Separate /\ BorrowsFromItsPane
      /\ UNCHANGED <<provider, viewer, active, running>>
  BY DEF Inv, panes
<1>2. TypeOK' /\ FocusIsVisible'
  BY <1>1 DEF TypeOK, FocusIsVisible
<1>3. Accounted'
  BY SettledKept DEF Accounted
<1>4. Separate'
  <2>1. \A q \in OwnedIn(frames') : q # Local /\ ~ Settled(q)'
    BY SettledKept
  <2>2. \A i \in Panes : OwnedByViewer(i)' = OwnedByViewer(i) /\ ViewsOf(i)' = ViewsOf(i)
    BY <1>1 DEF OwnedByViewer, ViewsOf
  <2> QED
    BY <1>1, <2>1, <2>2 DEF Separate, PanesSeparate
<1>5. BorrowsFromItsPane'
  BY <1>1 DEF BorrowsFromItsPane, ViewsOf
<1> QED
  BY <1>1, <1>2, <1>3, <1>4, <1>5 DEF Inv

LEMMA FrameIs ==
    ASSUME NEW job \in Handlers \cup Called, NEW p \in AnyProvider, NEW o \in BOOLEAN
    PROVE  /\ Frame(job, p, o) \in Frames
           /\ Frame(job, p, o).job = job /\ Frame(job, p, o).provider = p
           /\ Frame(job, p, o).owned = o
BY DEF Frame, Frames

\* What Inv says of the providers that exist while a handler may start.
LEMMA IdleFacts ==
    ASSUME Inv, Idle
    PROVE  /\ running /\ frames = <<>> /\ OwnedIn(frames) = {} /\ Distinct(frames)
           /\ \A q : q \in live <=> q # Local /\ Settled(q)
           /\ live \subseteq Providers /\ active \in Panes
           /\ provider \in [Panes -> AnyProvider]
           /\ viewer \in [Panes -> Viewers \cup {None}]
BY OwnedInNone DEF Inv, Idle, Accounted, TypeOK

LEMMA StartsWithOwn ==
    ASSUME ConstantsAssumption, Inv, Idle, NEW p, NEW job \in {"repository", "location", "follow"},
           StartWithNew(job, p), UNCHANGED <<panes, active, running>>,
           job \in {"repository", "location"} => InFiles, job = "follow" => InViewer
    PROVE  Inv'
<1> DEFINE f == Frame(job, p, TRUE)
<1>1. /\ p \in Providers /\ p \notin live /\ p # Local /\ p \in AnyProvider
      /\ live' = live \cup {p} /\ frames' = <<f>>
  BY DEF StartWithNew, Created, AnyProvider, ConstantsAssumption
<1>2. f \in Frames /\ f.job = job /\ f.provider = p /\ f.owned = TRUE
  BY <1>1, FrameIs DEF Handlers
<1> HIDE DEF f
<1>3. OwnedIn(frames') = {p} /\ Distinct(frames') /\ frames' \in Seq(Frames)
      /\ DOMAIN frames' = {1} /\ frames'[1] = f
  <2>1. OwnedIn(<<f>>) = {p} /\ Distinct(<<f>>)
    BY <1>2, OwnedInOne DEF Mine
  <2>2. <<f>> \in Seq(Frames) /\ DOMAIN <<f>> = {1} /\ <<f>>[1] = f
    BY <1>2
  <2> QED
    BY <1>1, <2>1, <2>2
<1>4. Borrowed'
  BY <1>2, <1>3 DEF Borrowed
<1>5. InProgress'
  <2>1. Base' = f
    BY <1>1 DEF Base
  <2>2. InFiles' = InFiles
    BY DEF InFiles, panes
  <2> QED
    BY <1>2, <1>3, <2>1, <2>2 DEF InProgress, InViewer
<1> QED
  BY <1>1, <1>3, <1>4, <1>5, IdleFacts, PanesKept

LEMMA StartsBorrowing ==
    ASSUME ConstantsAssumption, Inv, Idle, InFiles, NEW p \in {provider[active], Local},
           StartBorrowing("location", p), UNCHANGED <<panes, active, running>>
    PROVE  Inv'
<1> DEFINE f == Frame("location", p, FALSE)
<1>1. live' = live /\ frames' = <<f>> /\ p \in AnyProvider /\ (p = Local \/ Settled(p))
  BY IdleFacts DEF StartBorrowing, AnyProvider, Settled
<1>2. f \in Frames /\ f.job = "location" /\ f.provider = p /\ f.owned = FALSE
  BY <1>1, FrameIs DEF Handlers
<1> HIDE DEF f
<1>3. OwnedIn(frames') = {} /\ Distinct(frames') /\ frames' \in Seq(Frames)
      /\ DOMAIN frames' = {1} /\ frames'[1] = f
  <2>1. OwnedIn(<<f>>) = {} /\ Distinct(<<f>>)
    BY <1>2, OwnedInOne DEF Mine
  <2>2. <<f>> \in Seq(Frames) /\ DOMAIN <<f>> = {1} /\ <<f>>[1] = f
    BY <1>2
  <2> QED
    BY <1>1, <2>1, <2>2
<1>4. Borrowed'
  BY <1>1, <1>2, <1>3, SettledKept DEF Borrowed
<1>5. InProgress'
  <2>1. Base' = f
    BY <1>1 DEF Base
  <2>2. InFiles' /\ provider' = provider /\ active' = active
    BY DEF InFiles, panes
  <2> QED
    BY <1>2, <1>3, <2>1, <2>2 DEF InProgress, InViewer
<1> QED
  BY <1>1, <1>3, <1>4, <1>5, IdleFacts, PanesKept

\* A handler that at once calls the Viewer or the download, which borrow.
LEMMA StartsCalling ==
    ASSUME ConstantsAssumption, Inv, Idle, NEW p \in AnyProvider, NEW o \in BOOLEAN,
           NEW job \in {"file", "link"}, NEW callee \in Called,
           frames' = <<Frame(job, p, o), Frame(callee, p, FALSE)>>,
           IF o THEN p \notin live /\ p \in Providers /\ live' = live \cup {p}
                ELSE (p = Local \/ Settled(p)) /\ live' = live,
           callee = "view" => InFiles, job = "link" => o,
           InFiles /\ ~ o => p \in {provider[active], Local},
           UNCHANGED <<panes, active, running>>
    PROVE  Inv'
<1> DEFINE f == Frame(job, p, o)
           g == Frame(callee, p, FALSE)
<1>1. /\ f \in Frames /\ f.job = job /\ f.provider = p /\ f.owned = o
      /\ g \in Frames /\ g.job = callee /\ g.provider = p /\ g.owned = FALSE
  BY FrameIs DEF Handlers
<1>2. frames' = <<f, g>>
  OBVIOUS
<1> HIDE DEF f, g
<1>3. OwnedIn(frames') = (IF o THEN {p} ELSE {}) /\ Distinct(frames') /\ frames' \in Seq(Frames)
      /\ DOMAIN frames' = {1, 2} /\ frames'[1] = f /\ frames'[2] = g
  <2>1. OwnedIn(<<f, g>>) = Mine(f) /\ Distinct(<<f, g>>)
    BY <1>1, OwnedInTwo
  <2>2. <<f, g>> \in Seq(Frames) /\ DOMAIN <<f, g>> = {1, 2} /\ <<f, g>>[1] = f /\ <<f, g>>[2] = g
    BY <1>1
  <2>3. Mine(f) = IF o THEN {p} ELSE {}
    BY <1>1 DEF Mine
  <2> QED
    BY <1>2, <2>1, <2>2, <2>3
<1>4. /\ DOMAIN frames' = {1, 2}
      /\ frames'[1].job = job /\ frames'[1].provider = p /\ frames'[1].owned = o
      /\ frames'[2].job = callee /\ frames'[2].provider = p /\ frames'[2].owned = FALSE
  BY <1>1, <1>3
<1>5. Borrowed'
  <2>1. \A k \in DOMAIN frames' : frames'[k].provider = p /\ (frames'[k].owned => k = 1 /\ o)
    BY <1>4
  <2>2. \A q : q = p => Settled(q)' \/ q = Local \/ q \in OwnedIn(frames')
    BY <1>3, SettledKept
  <2>3. \A k, m \in DOMAIN frames' : k < m => ~ frames'[m].owned
    <3>1. ASSUME NEW k \in {1, 2}, NEW m \in {1, 2}, k < m
          PROVE  m = 2
      BY <3>1
    <3> QED
      BY <1>4, <3>1
  <2>4. \A k \in DOMAIN frames' : k > 1 => frames'[k - 1].provider = p
    BY <1>4
  <2>5. \A k \in DOMAIN frames' : ~ frames'[k].owned =>
            Settled(frames[k].provider)' \/ frames'[k].provider = Local
            \/ frames'[k].provider \in OwnedIn(frames')
    BY <2>1, <2>2
  <2>6. \A k, m \in DOMAIN frames' :
            k < m /\ ~ frames'[k].owned /\ frames'[m].owned
            => frames'[k].provider # frames'[m].provider
    BY <2>3
  <2>7. \A k \in DOMAIN frames' :
            k > 1 /\ ~ frames'[k].owned => frames'[k].provider = frames'[k - 1].provider
    BY <2>1, <2>4
  <2> QED
    BY <2>5, <2>6, <2>7 DEF Borrowed
<1>6. InProgress'
  <2>1. Base' = f
    BY <1>2 DEF Base
  <2>2. InFiles' = InFiles /\ provider' = provider /\ active' = active
    BY DEF InFiles, panes
  <2>3. \A k \in DOMAIN frames' :
            /\ frames'[k].job = "view" => k > 1 /\ InFiles
            /\ frames'[k].job = "download" => k > 1
            /\ frames'[k].job = "location" => k = 1
    <3>1. callee \in {"view", "download"} /\ job \notin {"view", "download", "location"}
      BY DEF Called
    <3>2. \A k \in {1, 2} : k = 1 \/ (k = 2 /\ k > 1)
      OBVIOUS
    <3>3. callee # "location" /\ (callee = "view" => InFiles)
      BY <3>1
    <3> QED
      BY <1>4, <3>1, <3>2, <3>3
  <2> QED
    BY <1>1, <2>1, <2>2, <2>3 DEF InProgress, InViewer
<1>7. /\ live' \subseteq Providers /\ running
      /\ \A q : q \in live' <=> q # Local /\ (Settled(q) \/ q \in OwnedIn(frames'))
      /\ \A q \in OwnedIn(frames') : q # Local /\ ~ Settled(q)
  BY <1>3, IdleFacts DEF ConstantsAssumption
<1> QED
  BY <1>3, <1>5, <1>6, <1>7, PanesKept

\* What Inv says of a handler in progress.
LEMMA ProgressFacts ==
    ASSUME Inv, running, frames # <<>>
    PROVE  /\ Accounted /\ Separate /\ Borrowed /\ InProgress
           /\ frames \in Seq(Frames) /\ Len(frames) \in Nat \ {0}
           /\ DOMAIN frames = 1 .. Len(frames)
           /\ Top = frames[Len(frames)] /\ Base = frames[1] /\ Top \in Frames /\ Base \in Frames
           /\ live \subseteq Providers /\ active \in Panes
           /\ provider \in [Panes -> AnyProvider]
           /\ viewer \in [Panes -> Viewers \cup {None}]
<1>1. frames \in Seq(Frames)
  BY DEF Inv, TypeOK
<1>2. Len(frames) \in Nat \ {0} /\ DOMAIN frames = 1 .. Len(frames)
  BY <1>1, EmptySeq, LenProperties
<1>3. frames[Len(frames)] \in Frames /\ frames[1] \in Frames
  BY <1>1, <1>2, ElementOfSeq
<1>4. Top = frames[Len(frames)] /\ Base = frames[1]
  BY <1>1, <1>2 DEF Top, Base, Last
<1> QED
  BY <1>1, <1>2, <1>3, <1>4 DEF Inv, TypeOK

LEMMA CallsStep ==
    ASSUME Inv, running, frames # <<>>, NEW callee \in Called,
           callee = "view" => Top.job = "location",
           frames' = Append(frames, Frame(callee, Top.provider, FALSE)),
           UNCHANGED <<live, panes, active, running>>
    PROVE  Inv'
<1> DEFINE e == Frame(callee, Top.provider, FALSE)
           n == Len(frames)
<1>1. /\ Accounted /\ Separate /\ Borrowed /\ InProgress
      /\ frames \in Seq(Frames) /\ n \in Nat \ {0} /\ DOMAIN frames = 1 .. n
      /\ Top = frames[n] /\ Base = frames[1] /\ Top \in Frames /\ live \subseteq Providers
  BY ProgressFacts
<1>2. e \in Frames /\ e.job = callee /\ e.provider = Top.provider /\ e.owned = FALSE
  <2>1. Top.provider \in AnyProvider
    BY <1>1 DEF Frames
  <2> QED
    BY <2>1, FrameIs
<1>3. frames' = Append(frames, e)
  OBVIOUS
<1> HIDE DEF e, n
<1>4. /\ frames' \in Seq(Frames) /\ DOMAIN frames' = 1 .. n + 1
      /\ \A k \in 1 .. n : frames'[k] = frames[k]
      /\ frames'[n + 1] = e /\ frames' # <<>>
      /\ OwnedIn(frames') = OwnedIn(frames) \cup Mine(e)
      /\ Distinct(frames) /\ OwnedIn(frames) \cap Mine(e) = {} => Distinct(frames')
  <2>1. frames \in Seq(Frames) /\ e \in Frames /\ frames' = Append(frames, e)
    BY <1>1, <1>2, <1>3
  <2>2. \A s \in Seq(Frames), x \in Frames :
            /\ Append(s, x) \in Seq(Frames) /\ Append(s, x) # <<>>
            /\ DOMAIN Append(s, x) = 1 .. Len(s) + 1
            /\ \A k \in 1 .. Len(s) : Append(s, x)[k] = s[k]
            /\ Append(s, x)[Len(s) + 1] = x
            /\ OwnedIn(Append(s, x)) = OwnedIn(s) \cup Mine(x)
            /\ Distinct(s) /\ OwnedIn(s) \cap Mine(x) = {} => Distinct(Append(s, x))
    BY AppendIs, OwnedInAppend
  <2> DEFINE t == Append(frames, e)
  <2>3. /\ t \in Seq(Frames) /\ t # <<>>
        /\ DOMAIN t = 1 .. n + 1
        /\ \A k \in 1 .. n : t[k] = frames[k]
        /\ t[n + 1] = e
        /\ OwnedIn(t) = OwnedIn(frames) \cup Mine(e)
        /\ Distinct(frames) /\ OwnedIn(frames) \cap Mine(e) = {} => Distinct(t)
    BY <2>1, <2>2, Zenon DEF n
  <2>4. frames' = t
    BY <2>1
  <2> HIDE DEF t
  <2> QED
    BY <2>3, <2>4
<1>5. OwnedIn(frames') = OwnedIn(frames) /\ Distinct(frames')
  BY <1>1, <1>2, <1>4 DEF Mine, Separate
<1>6. n \in 1 .. n /\ \A k \in 1 .. n + 1 : k \in 1 .. n \/ (k = n + 1 /\ k - 1 = n /\ k > 1)
  BY <1>1
<1>7. \A k \in 1 .. n + 1 : k > 1 => k - 1 \in 1 .. n
  BY <1>1
<1>8. Borrowed'
  <2>1. \A k \in 1 .. n + 1 : ~ frames'[k].owned =>
            Settled(frames[k].provider)' \/ frames'[k].provider = Local
            \/ frames'[k].provider \in OwnedIn(frames')
    <3>1. \A k \in 1 .. n : ~ frames[k].owned =>
            Settled(frames[k].provider) \/ frames[k].provider = Local
            \/ frames[k].provider \in OwnedIn(frames)
      BY <1>1 DEF Borrowed
    <3>2. Settled(Top.provider) \/ Top.provider = Local \/ Top.provider \in OwnedIn(frames)
      <4>1. CASE Top.owned
        BY <1>1, <1>6, <4>1, OwnedBySome
      <4>2. CASE ~ Top.owned
        BY <1>1, <1>6, <3>1, <4>2
      <4> QED
        BY <4>1, <4>2
    <3>3. \A q : Settled(q)' <=> Settled(q)
      BY SettledKept
    <3> QED
      BY <1>2, <1>4, <1>5, <1>6, <3>1, <3>2, <3>3
  <2>2. \A k, m \in 1 .. n + 1 :
            k < m /\ ~ frames'[k].owned /\ frames'[m].owned
            => frames'[k].provider # frames'[m].provider
    <3>1. ASSUME NEW k \in 1 .. n + 1, NEW m \in 1 .. n + 1, k < m, frames'[m].owned
          PROVE  k \in 1 .. n /\ m \in 1 .. n
      <4>1. m # n + 1
        BY <1>2, <1>4, <3>1
      <4> QED
        BY <1>1, <3>1, <4>1
    <3>2. \A k, m \in 1 .. n :
              k < m /\ ~ frames[k].owned /\ frames[m].owned
              => frames[k].provider # frames[m].provider
      BY <1>1 DEF Borrowed
    <3>3. ASSUME NEW k \in 1 .. n + 1, NEW m \in 1 .. n + 1,
                 k < m, ~ frames'[k].owned, frames'[m].owned
          PROVE  frames'[k].provider # frames'[m].provider
      <4>1. k \in 1 .. n /\ m \in 1 .. n
        BY <3>1, <3>3
      <4>2. frames'[k] = frames[k] /\ frames'[m] = frames[m]
        BY <1>4, <4>1
      <4> QED
        BY <3>2, <3>3, <4>1, <4>2
    <3> QED
      BY <3>3
  <2>3. \A k \in 1 .. n + 1 :
            k > 1 /\ ~ frames'[k].owned => frames'[k].provider = frames'[k - 1].provider
    <3>1. ASSUME NEW k \in 1 .. n, k > 1, ~ frames[k].owned
          PROVE  frames[k].provider = frames[k - 1].provider
      BY <1>1, <3>1 DEF Borrowed
    <3> QED
      BY <1>1, <1>2, <1>4, <1>6, <1>7, <3>1
  <2> QED
    BY <1>4, <2>1, <2>2, <2>3 DEF Borrowed
<1>9. InProgress'
  <2>1. Base' = Base
    <3>1. 1 \in 1 .. n
      BY <1>1
    <3>2. \A s \in Seq(Frames) : s # <<>> => Head(s) = s[1]
      OBVIOUS
    <3>3. Head(frames') = frames'[1]
      BY <1>4, <3>2, Zenon
    <3> QED
      BY <1>1, <1>4, <3>1, <3>3 DEF Base
  <2>2. InFiles' = InFiles /\ provider' = provider /\ active' = active
    BY DEF InFiles, panes
  <2>3. callee = "view" => InFiles
    <3>1. Top.job = "location" => n = 1
      BY <1>1, <1>6 DEF InProgress
    <3> QED
      BY <1>1, <3>1 DEF InProgress
  <2>4. \A k \in 1 .. n + 1 :
            /\ frames'[k].job = "view" => k > 1 /\ InFiles
            /\ frames'[k].job = "download" => k > 1
            /\ frames'[k].job = "location" => k = 1
    <3>1. callee # "location"
      BY DEF Called
    <3> QED
      BY <1>1, <1>2, <1>4, <1>6, <2>3, <3>1 DEF InProgress
  <2> QED
    BY <1>1, <1>4, <2>1, <2>2, <2>4 DEF InProgress, InViewer
<1> QED
  <2>1. /\ live' \subseteq Providers
        /\ \A q : q \in live' <=> q # Local /\ (Settled(q) \/ q \in OwnedIn(frames'))
        /\ \A q \in OwnedIn(frames') : q # Local /\ ~ Settled(q)
    BY <1>1, <1>5 DEF Accounted, Separate
  <2> QED
    BY <1>4, <1>5, <1>8, <1>9, <2>1, PanesKept

\* A frame that gets another provider, which nobody has yet.
LEMMA OwnedElsewhere ==
    ASSUME NEW s, NEW t, NEW e, NEW n \in DOMAIN s,
           Distinct(s), e.owned, e.provider \notin OwnedIn(s),
           DOMAIN t = DOMAIN s, t[n] = e,
           \A k \in DOMAIN s : k # n => t[k] = s[k]
    PROVE  OwnedIn(t) = (OwnedIn(s) \ Mine(s[n])) \cup {e.provider} /\ Distinct(t)
<1>1. OwnedIn(t) = (OwnedIn(s) \ Mine(s[n])) \cup {e.provider}
  <2>1. ASSUME NEW q \in OwnedIn(t), q # e.provider
        PROVE  q \in OwnedIn(s) /\ q \notin Mine(s[n])
    <3>1. PICK k \in DOMAIN s : k # n /\ s[k].owned /\ s[k].provider = q
      <4>1. PICK k \in DOMAIN t : t[k].owned /\ t[k].provider = q
        BY <2>1, OwnedBySome
      <4>2. k \in DOMAIN s /\ k # n
        BY <2>1, <4>1
      <4>3. t[k] = s[k]
        BY <4>2
      <4> QED
        BY <4>1, <4>2, <4>3
    <3>2. q \in OwnedIn(s)
      BY <3>1, OwnedBySome
    <3>3. q \notin Mine(s[n])
      BY <3>1 DEF Mine, Distinct
    <3> QED
      BY <3>2, <3>3
  <2>2. ASSUME NEW q \in OwnedIn(s), q \notin Mine(s[n])
        PROVE  q \in OwnedIn(t)
    <3>1. PICK k \in DOMAIN s : s[k].owned /\ s[k].provider = q
      BY <2>2, OwnedBySome
    <3>2. k # n
      BY <2>2, <3>1 DEF Mine
    <3> QED
      BY <3>1, <3>2, OwnedBySome
  <2>3. e.provider \in OwnedIn(t)
    <3>1. n \in DOMAIN t /\ t[n].owned /\ t[n].provider = e.provider
      OBVIOUS
    <3> QED
      BY <3>1, OwnedBySome
  <2> QED
    BY <2>1, <2>2, <2>3
<1>2. Distinct(t)
  BY OwnedBySome DEF Distinct
<1> QED
  BY <1>1, <1>2

LEMMA OwnedInReplaced ==
    ASSUME NEW s \in Seq(Frames), s # <<>>, NEW e \in Frames,
           Distinct(s), e.owned, e.provider \notin OwnedIn(s)
    PROVE  LET t == [s EXCEPT ![Len(s)] = e]
           IN /\ t \in Seq(Frames) /\ t # <<>> /\ DOMAIN t = DOMAIN s
              /\ \A k \in DOMAIN s : k # Len(s) => t[k] = s[k]
              /\ t[Len(s)] = e
              /\ OwnedIn(t) = (OwnedIn(s) \ Mine(s[Len(s)])) \cup {e.provider}
              /\ Distinct(t)
<1> DEFINE n == Len(s)
           t == [s EXCEPT ![n] = e]
<1>1. n \in Nat \ {0} /\ DOMAIN s = 1 .. n
  BY EmptySeq, LenProperties
<1>2. t \in Seq(Frames) /\ Len(t) = n
  BY <1>1, ExceptSeq
<1>3. /\ n \in DOMAIN s /\ DOMAIN t = DOMAIN s /\ t[n] = e
      /\ \A k \in DOMAIN s : k # n => t[k] = s[k]
  BY <1>1
<1>4. t # <<>>
  BY <1>1, <1>2
<1> HIDE DEF n, t
<1>5. OwnedIn(t) = (OwnedIn(s) \ Mine(s[n])) \cup {e.provider} /\ Distinct(t)
  BY <1>3, OwnedElsewhere
<1> QED
  BY <1>2, <1>3, <1>4, <1>5 DEF n, t

LEMMA AuthRetryStep ==
    ASSUME ConstantsAssumption, Inv, NEW p \in Providers, AuthRetry(p)
    PROVE  Inv'
<1> DEFINE e == Frame(Top.job, p, TRUE)
           n == Len(frames)
           mine == Mine(Top)
<1>1. /\ running /\ frames # <<>> /\ p \notin live /\ p # Local /\ p \in AnyProvider
      /\ live' = (live \cup {p}) \ mine
      /\ frames' = [frames EXCEPT ![n] = e]
      /\ UNCHANGED <<panes, active, running>>
  BY DEF AuthRetry, Created, Replaced, Mine, ConstantsAssumption, AnyProvider
<1>2. /\ Accounted /\ Separate /\ Borrowed /\ InProgress
      /\ frames \in Seq(Frames) /\ n \in Nat \ {0} /\ DOMAIN frames = 1 .. n
      /\ Top = frames[n] /\ Base = frames[1] /\ Top \in Frames /\ live \subseteq Providers
  BY <1>1, ProgressFacts
<1>3. e \in Frames /\ e.job = Top.job /\ e.provider = p /\ e.owned = TRUE
  <2>1. Top.job \in Handlers \cup Called
    BY <1>2 DEF Frames
  <2> QED
    BY <1>1, <2>1, FrameIs
<1> HIDE DEF e, n, mine
<1>4. p \notin OwnedIn(frames) /\ ~ Settled(p)
  BY <1>1, <1>2 DEF Accounted
<1>5. /\ frames' \in Seq(Frames) /\ frames' # <<>> /\ DOMAIN frames' = 1 .. n
      /\ \A k \in 1 .. n : k # n => frames'[k] = frames[k]
      /\ frames'[n] = e /\ n \in 1 .. n
      /\ OwnedIn(frames') = (OwnedIn(frames) \ mine) \cup {p}
      /\ Distinct(frames')
  <2>1. /\ frames \in Seq(Frames) /\ frames # <<>> /\ e \in Frames /\ Distinct(frames)
        /\ e.owned /\ e.provider \notin OwnedIn(frames)
    BY <1>1, <1>2, <1>3, <1>4 DEF Separate
  <2> DEFINE t == [frames EXCEPT ![Len(frames)] = e]
  <2>2. /\ t \in Seq(Frames) /\ t # <<>> /\ DOMAIN t = DOMAIN frames
        /\ \A k \in DOMAIN frames : k # Len(frames) => t[k] = frames[k]
        /\ t[Len(frames)] = e
        /\ OwnedIn(t) = (OwnedIn(frames) \ Mine(frames[Len(frames)])) \cup {e.provider}
        /\ Distinct(t)
    BY <2>1, OwnedInReplaced
  <2>3. frames' = t
    BY <1>1 DEF n
  <2> HIDE DEF t
  <2> QED
    <3>1. Len(frames) = n /\ frames[Len(frames)] = Top /\ mine = Mine(Top)
          /\ n \in 1 .. n /\ DOMAIN frames = 1 .. n /\ e.provider = p
      BY <1>2, <1>3 DEF mine, n
    <3> QED
      BY <2>2, <2>3, <3>1
<1>6. /\ \A k \in DOMAIN frames : frames[k].owned => frames[k].provider \in OwnedIn(frames)
      /\ mine \subseteq OwnedIn(frames)
  BY <1>2, <1>5, OwnedBySome DEF mine, Mine
<1>7. \A k \in 1 .. n : ~ frames[k].owned =>
          /\ Settled(frames[k].provider) \/ frames[k].provider = Local
             \/ frames[k].provider \in OwnedIn(frames)
          /\ k # n => frames[k].provider \notin mine
          /\ frames[k].provider # p
  <2>1. ASSUME NEW k \in 1 .. n, ~ frames[k].owned
        PROVE  Settled(frames[k].provider) \/ frames[k].provider = Local
               \/ frames[k].provider \in OwnedIn(frames)
    BY <1>2, <2>1 DEF Borrowed
  <2>2. ASSUME NEW k \in 1 .. n, ~ frames[k].owned, k # n
        PROVE  frames[k].provider \notin mine
    <3>1. k < n
      BY <1>2, <2>2
    <3>2. frames[n].owned => frames[k].provider # frames[n].provider
      BY <1>2, <1>5, <2>2, <3>1 DEF Borrowed
    <3> QED
      BY <1>2, <3>2 DEF mine, Mine
  <2> QED
    BY <1>1, <1>4, <2>1, <2>2
<1>8. Borrowed'
  <2>1. \A k \in 1 .. n : ~ frames'[k].owned =>
            Settled(frames[k].provider)' \/ frames'[k].provider = Local
            \/ frames'[k].provider \in OwnedIn(frames')
    <3>1. \A q : Settled(q)' <=> Settled(q)
      BY <1>1, SettledKept
    <3> QED
      BY <1>3, <1>5, <1>7, <3>1
  <2>2. \A k, m \in 1 .. n :
            k < m /\ ~ frames'[k].owned /\ frames'[m].owned
            => frames'[k].provider # frames'[m].provider
    <3>1. \A k, m \in 1 .. n :
              k < m /\ ~ frames[k].owned /\ frames[m].owned
              => frames[k].provider # frames[m].provider
      BY <1>2 DEF Borrowed
    <3> QED
      BY <1>3, <1>5, <1>7, <3>1
  <2>3. \A k \in 1 .. n :
            k > 1 /\ ~ frames'[k].owned => frames'[k].provider = frames'[k - 1].provider
    <3>1. ASSUME NEW k \in 1 .. n, k > 1, ~ frames[k].owned
          PROVE  frames[k].provider = frames[k - 1].provider
      BY <1>2, <3>1 DEF Borrowed
    <3>2. \A k \in 1 .. n : k > 1 /\ k # n => k - 1 \in 1 .. n /\ k - 1 # n
      BY <1>2
    <3> QED
      BY <1>3, <1>5, <3>1, <3>2
  <2> QED
    BY <1>5, <2>1, <2>2, <2>3 DEF Borrowed
<1>9. InProgress'
  <2>1. Base' = frames'[1] /\ 1 \in 1 .. n
    <3>1. \A s \in Seq(Frames) : s # <<>> => Head(s) = s[1]
      OBVIOUS
    <3>2. Head(frames') = frames'[1]
      BY <1>5, <3>1, Zenon
    <3> QED
      BY <1>2, <3>2 DEF Base
  <2>2. InFiles' = InFiles /\ provider' = provider /\ active' = active
    BY <1>1 DEF InFiles, panes
  <2>3. Base'.job = Base.job /\ (Base'.owned \/ Base' = Base)
    BY <1>2, <1>3, <1>5, <2>1
  <2>4. \A k \in 1 .. n : frames'[k].job = frames[k].job
    BY <1>2, <1>3, <1>5
  <2> QED
    BY <1>1, <1>2, <1>5, <2>2, <2>3, <2>4 DEF InProgress, InViewer
<1> QED
  <2>1. /\ live' \subseteq Providers
        /\ \A q : q \in live' <=> q # Local /\ (Settled(q) \/ q \in OwnedIn(frames'))
        /\ \A q \in OwnedIn(frames') : q # Local /\ ~ Settled(q)
    BY <1>1, <1>2, <1>4, <1>5, <1>6 DEF Accounted, Separate
  <2> QED
    BY <1>1, <1>5, <1>8, <1>9, <2>1, PanesKept

LEMMA ReturnStep ==
    ASSUME Inv, Return
    PROVE  Inv'
<1>1. /\ running /\ frames # <<>> /\ frames' = <<>>
      /\ live' = live \ OwnedIn(frames)
      /\ UNCHANGED <<panes, active, running>>
  BY DEF Return, Destroyed, Held
<1>2. Accounted /\ Separate /\ live \subseteq Providers
  BY <1>1, ProgressFacts
<1>3. OwnedIn(frames') = {} /\ Distinct(frames') /\ frames' \in Seq(Frames) /\ DOMAIN frames' = {}
  BY <1>1, OwnedInNone
<1>4. Borrowed' /\ InProgress'
  BY <1>1, <1>3 DEF Borrowed, InProgress
<1>5. /\ live' \subseteq Providers
      /\ \A q : q \in live' <=> q # Local /\ Settled(q)
  BY <1>1, <1>2 DEF Accounted, Separate
<1> QED
  BY <1>1, <1>3, <1>4, <1>5, PanesKept

-----------------------------------------------------------------------------
(* Steps that leave no handler in progress.                                 *)

LEMMA NothingInProgress ==
    ASSUME TypeOK', FocusIsVisible', running', frames' = <<>>,
           \A q : q \in live' <=> q # Local /\ Settled(q)',
           PanesSeparate', BorrowsFromItsPane'
    PROVE  Inv'
<1>1. OwnedIn(frames') = {} /\ Distinct(frames') /\ DOMAIN frames' = {}
  BY OwnedInNone
<1>2. Accounted'
  BY <1>1 DEF Accounted
<1>3. Separate'
  BY <1>1 DEF Separate
<1>4. Borrowed' /\ InProgress'
  BY <1>1 DEF Borrowed, InProgress
<1> QED
  BY <1>2, <1>3, <1>4 DEF Inv

\* The Viewer of the active pane opens, changes or closes: what it takes over
\* it had or the handler owned, and the rest of that is destroyed.
LEMMA ViewerBecomes ==
    ASSUME Inv, running, UNCHANGED <<provider, active, running>>, frames' = <<>>,
           NEW v \in Viewers \cup {None}, NEW views,
           views = IF v = None THEN <<>> ELSE v.views,
           viewer' = [viewer EXCEPT ![active] = v],
           Len(views) <= MaxBack + 1, Distinct(views),
           OwnedIn(views) \subseteq OwnedByViewer(active) \cup OwnedIn(frames),
           \A k \in DOMAIN views : ~ views[k].owned =>
               views[k].provider \in {provider[active], Local},
           \A q : q \in live' <=>
               q \in live /\ (q \in OwnedByViewer(active) \cup OwnedIn(frames)
                              => q \in OwnedIn(views))
    PROVE  Inv'
<1>1. /\ TypeOK /\ FocusIsVisible /\ Accounted /\ Separate /\ PanesSeparate
      /\ BorrowsFromItsPane
  BY DEF Inv, Separate
<1>2. /\ active \in Panes /\ provider' = provider /\ active' = active
      /\ viewer \in [Panes -> Viewers \cup {None}]
      /\ viewer'[active] = v /\ \A i \in Panes : i # active => viewer'[i] = viewer[i]
      /\ viewer' \in [Panes -> Viewers \cup {None}]
      /\ live \subseteq Providers
  BY <1>1 DEF TypeOK
<1>3. /\ ViewsOf(active)' = views /\ OwnedByViewer(active)' = OwnedIn(views)
      /\ \A i \in Panes : i # active =>
             ViewsOf(i)' = ViewsOf(i) /\ OwnedByViewer(i)' = OwnedByViewer(i)
  BY <1>2, OwnedInNone DEF ViewsOf, OwnedByViewer
<1>4. \A q : Settled(q)' <=> \/ \E i \in Panes : q = provider[i]
                             \/ q \in OwnedIn(views)
                             \/ \E i \in Panes : i # active /\ q \in OwnedByViewer(i)
  BY <1>2, <1>3 DEF Settled
<1>5. TypeOK'
  <2>1. \A i \in Panes : viewer'[i] # None => Len(viewer'[i].views) <= MaxBack + 1
    BY <1>1, <1>2 DEF TypeOK
  <2>2. live' \subseteq Providers
    BY <1>2
  <2> QED
    BY <1>1, <1>2, <2>1, <2>2 DEF TypeOK
<1>6. FocusIsVisible'
  BY <1>1, <1>2 DEF FocusIsVisible
<1>7. \A q \in OwnedIn(views) :
          /\ q # Local
          /\ \A i \in Panes : q # provider[i] /\ (i # active => q \notin OwnedByViewer(i))
  BY <1>1, <1>2 DEF Separate, PanesSeparate, Settled
<1>8. \A q : q \in live' <=> q # Local /\ Settled(q)'
  <2>1. \A q : q \in live <=> q # Local /\ (Settled(q) \/ q \in OwnedIn(frames))
    BY <1>1 DEF Accounted
  <2>2. \A q : Settled(q) <=> \/ \E i \in Panes : q = provider[i]
                              \/ q \in OwnedByViewer(active)
                              \/ \E i \in Panes : i # active /\ q \in OwnedByViewer(i)
    BY <1>2 DEF Settled
  <2>3. \A q \in OwnedByViewer(active) \cup OwnedIn(frames) :
            \A i \in Panes : q # provider[i] /\ (i # active => q \notin OwnedByViewer(i))
    BY <1>1, <1>2 DEF Separate, PanesSeparate, Settled
  <2> QED
    BY <1>4, <1>7, <2>1, <2>2, <2>3
<1>9. PanesSeparate'
  <2>1. /\ \A i, j \in Panes : i # j /\ provider[i] = provider[j] => provider[i] = Local
        /\ \A i, j \in Panes : provider[j] \notin OwnedByViewer(i)
        /\ \A i, j \in Panes : i # j => OwnedByViewer(i) \cap OwnedByViewer(j) = {}
        /\ \A i \in Panes : Local \notin OwnedByViewer(i) /\ Distinct(ViewsOf(i))
    BY <1>1 DEF PanesSeparate
  <2>2. \A i, j \in Panes : provider[j] \notin OwnedByViewer(i)'
    BY <1>2, <1>3, <1>7, <2>1
  <2>3. \A i, j \in Panes : i # j => OwnedByViewer(i)' \cap OwnedByViewer(j)' = {}
    <3>1. ASSUME NEW i \in Panes, NEW j \in Panes, i # j,
                 NEW q \in OwnedByViewer(i)', q \in OwnedByViewer(j)'
          PROVE  FALSE
      <4>1. CASE i # active /\ j # active
        BY <1>3, <2>1, <3>1, <4>1
      <4>2. CASE i = active
        BY <1>3, <1>7, <3>1, <4>2
      <4>3. CASE j = active
        BY <1>3, <1>7, <3>1, <4>3
      <4> QED
        BY <4>1, <4>2, <4>3
    <3> QED
      BY <3>1
  <2>4. \A i \in Panes : Local \notin OwnedByViewer(i)' /\ Distinct(ViewsOf(i)')
    BY <1>2, <1>3, <1>7, <2>1
  <2> QED
    BY <1>2, <2>1, <2>2, <2>3, <2>4 DEF PanesSeparate
<1>10. BorrowsFromItsPane'
  <2>1. ASSUME NEW i \in Panes
        PROVE  \A k \in DOMAIN ViewsOf(i)' : ~ ViewsOf(i)'[k].owned =>
                   ViewsOf(i)'[k].provider \in {provider[i], Local}
    <3>1. CASE i = active
      BY <1>3, <3>1
    <3>2. CASE i # active
      BY <1>1, <1>3, <3>2 DEF BorrowsFromItsPane
    <3> QED
      BY <3>1, <3>2
  <2> QED
    BY <1>2, <2>1 DEF BorrowsFromItsPane
<1> QED
  BY <1>5, <1>6, <1>8, <1>9, <1>10, NothingInProgress

LEMMA ViewerIs ==
    ASSUME NEW v \in Viewers
    PROVE  /\ v.views \in Seq(Views) /\ v.views # <<>> /\ v.fullscreen \in BOOLEAN
           /\ \A views \in Seq(Views) \ {<<>>} : [v EXCEPT !.views = views] \in Viewers
                  /\ [v EXCEPT !.views = views].views = views
           /\ \A b \in BOOLEAN : [v EXCEPT !.fullscreen = b] \in Viewers
                  /\ [v EXCEPT !.fullscreen = b].views = v.views
<1> DEFINE S == Seq(Views) \ {<<>>}
<1>1. Viewers = [views : S, fullscreen : BOOLEAN]
  BY DEF Viewers
<1> HIDE DEF S
<1>2. /\ v.views \in S /\ v.fullscreen \in BOOLEAN
      /\ \A views \in S : [v EXCEPT !.views = views] \in Viewers
             /\ [v EXCEPT !.views = views].views = views
      /\ \A b \in BOOLEAN : [v EXCEPT !.fullscreen = b] \in Viewers
             /\ [v EXCEPT !.fullscreen = b].views = v.views
  BY <1>1
<1> QED
  BY <1>2 DEF S

\* The Viewer of the active pane, when it shows one.
LEMMA InViewerFacts ==
    ASSUME ConstantsAssumption, Inv, running, InViewer
    PROVE  /\ active \in Panes /\ viewer[active] \in Viewers /\ viewer[active] # None
           /\ ViewsOf(active) = viewer[active].views
           /\ OwnedByViewer(active) = OwnedIn(viewer[active].views)
           /\ Distinct(viewer[active].views)
           /\ Len(viewer[active].views) <= MaxBack + 1
           /\ \A k \in DOMAIN viewer[active].views : ~ viewer[active].views[k].owned =>
                  viewer[active].views[k].provider \in {provider[active], Local}
<1>1. TypeOK /\ PanesSeparate /\ BorrowsFromItsPane
  BY DEF Inv, Separate
<1>2. active \in Panes /\ viewer[active] \in Viewers /\ viewer[active] # None
  BY <1>1 DEF TypeOK, InViewer, InFiles
<1>3. /\ ViewsOf(active) = viewer[active].views
      /\ OwnedByViewer(active) = OwnedIn(viewer[active].views)
  BY <1>2 DEF ViewsOf, OwnedByViewer
<1>4. Len(viewer[active].views) <= MaxBack + 1
  BY <1>1, <1>2 DEF TypeOK
<1>5. Distinct(viewer[active].views)
  BY <1>1, <1>2, <1>3 DEF PanesSeparate
<1>6. \A k \in DOMAIN viewer[active].views : ~ viewer[active].views[k].owned =>
          viewer[active].views[k].provider \in {provider[active], Local}
  BY <1>1, <1>2, <1>3 DEF BorrowsFromItsPane
<1> QED
  BY <1>2, <1>3, <1>4, <1>5, <1>6

LEMMA ViewerCloseStep ==
    ASSUME ConstantsAssumption, Inv, ViewerClose
    PROVE  Inv'
<1>1. /\ running /\ InViewer /\ frames = <<>> /\ frames' = <<>>
      /\ live' = live \ OwnedByViewer(active)
      /\ viewer' = [viewer EXCEPT ![active] = None]
      /\ UNCHANGED <<provider, active, running>>
  BY DEF ViewerClose, Idle, Destroyed
<1>2. OwnedIn(frames) = {} /\ OwnedIn(<<>>) = {} /\ Distinct(<<>>)
  BY <1>1, OwnedInNone
<1>3. /\ Len(<<>>) = 0 /\ 0 <= MaxBack + 1 /\ DOMAIN <<>> = {}
      /\ <<>> = IF None = None THEN <<>> ELSE None.views
  BY DEF ConstantsAssumption
<1>4. None \in Viewers \cup {None}
  OBVIOUS
<1> QED
  BY <1>1, <1>2, <1>3, <1>4, ViewerBecomes

LEMMA ToggleFullscreenStep ==
    ASSUME ConstantsAssumption, Inv, ToggleFullscreen
    PROVE  Inv'
<1> DEFINE v == [viewer[active] EXCEPT !.fullscreen = ~ @]
           views == viewer[active].views
<1>1. /\ running /\ InViewer /\ frames = <<>> /\ frames' = <<>> /\ live' = live
      /\ viewer' = [viewer EXCEPT ![active] = v]
      /\ UNCHANGED <<provider, active, running>>
  BY DEF ToggleFullscreen, Idle
<1>2. OwnedIn(frames) = {}
  BY <1>1, OwnedInNone
<1>3. /\ active \in Panes /\ viewer[active] \in Viewers /\ viewer[active] # None
      /\ OwnedByViewer(active) = OwnedIn(views) /\ Distinct(views)
      /\ Len(views) <= MaxBack + 1
      /\ \A k \in DOMAIN views : ~ views[k].owned =>
             views[k].provider \in {provider[active], Local}
  BY <1>1, InViewerFacts
<1>4. v \in Viewers /\ v.views = views
  BY <1>3, ViewerIs
<1>5. v \in Viewers \cup {None} /\ views = IF v = None THEN <<>> ELSE v.views
  BY <1>4 DEF ConstantsAssumption
<1> HIDE DEF v, views
<1> QED
  BY <1>1, <1>2, <1>3, <1>5, ViewerBecomes

LEMMA ViewerBackStep ==
    ASSUME ConstantsAssumption, Inv, ViewerBack
    PROVE  Inv'
<1> DEFINE old == viewer[active].views
           views == Front(old)
           v == [viewer[active] EXCEPT !.views = views]
<1>1. /\ running /\ InViewer /\ frames = <<>> /\ frames' = <<>> /\ Len(old) > 1
      /\ live' = live \ Mine(Last(old))
      /\ viewer' = [viewer EXCEPT ![active] = v]
      /\ UNCHANGED <<provider, active, running>>
  BY DEF ViewerBack, Idle, Destroyed, Shown, Mine
<1>2. OwnedIn(frames) = {}
  BY <1>1, OwnedInNone
<1>3. /\ active \in Panes /\ viewer[active] \in Viewers /\ viewer[active] # None
      /\ OwnedByViewer(active) = OwnedIn(old) /\ Distinct(old)
      /\ Len(old) <= MaxBack + 1
      /\ \A k \in DOMAIN old : ~ old[k].owned => old[k].provider \in {provider[active], Local}
  BY <1>1, InViewerFacts
<1>4. old \in Seq(Views) /\ old # <<>>
  BY <1>3, ViewerIs
<1> HIDE DEF old
<1>5. /\ views \in Seq(Views) /\ Len(views) = Len(old) - 1
      /\ \A k \in DOMAIN views : views[k] = old[k] /\ k \in DOMAIN old
      /\ OwnedIn(old) = OwnedIn(views) \cup Mine(Last(old))
      /\ Distinct(views) /\ OwnedIn(views) \cap Mine(Last(old)) = {}
  BY <1>3, <1>4, OwnedInFront
<1>6. Len(old) \in Nat
  BY <1>4, LenProperties
<1>7. views # <<>> /\ Len(views) <= MaxBack + 1
  BY <1>1, <1>3, <1>5, <1>6 DEF ConstantsAssumption
<1> HIDE DEF views
<1>8. v \in Viewers \cup {None} /\ views = IF v = None THEN <<>> ELSE v.views
  BY <1>3, <1>5, <1>7, ViewerIs DEF ConstantsAssumption
<1> HIDE DEF v
<1>9. \A k \in DOMAIN views : ~ views[k].owned => views[k].provider \in {provider[active], Local}
  BY <1>3, <1>5
<1>10. /\ OwnedIn(views) \subseteq OwnedByViewer(active) \cup OwnedIn(frames)
       /\ \A q : q \in live' <=>
              q \in live /\ (q \in OwnedByViewer(active) \cup OwnedIn(frames)
                             => q \in OwnedIn(views))
  BY <1>1, <1>2, <1>3, <1>5
<1> QED
  BY <1>1, <1>3, <1>5, <1>7, <1>8, <1>9, <1>10, ViewerBecomes

\* The only frame of a handler, and what it owns.
LEMMA OneFrame ==
    ASSUME Inv, running, Len(frames) = 1
    PROVE  /\ frames # <<>> /\ Top = Base /\ Top \in Frames
           /\ OwnedIn(frames) = Mine(Top)
           /\ Top.owned => Top.provider \in live /\ Top.provider # Local
                           /\ ~ Settled(Top.provider)
<1>1. frames # <<>> /\ frames \in Seq(Frames)
  BY DEF Inv, TypeOK
<1>2. /\ Accounted /\ Separate /\ DOMAIN frames = 1 .. Len(frames)
      /\ Top = frames[Len(frames)] /\ Base = frames[1] /\ Top \in Frames
  BY <1>1, ProgressFacts
<1>3. DOMAIN frames = {1} /\ frames[1] = Top /\ Top = Base
  BY <1>2
<1>4. OwnedIn(frames) = Mine(Top)
  BY <1>3, OwnedBySome DEF Mine
<1>5. Top.owned => Top.provider \in OwnedIn(frames)
  BY <1>4 DEF Mine
<1> QED
  BY <1>1, <1>2, <1>3, <1>4, <1>5 DEF Accounted, Separate

LEMMA ViewIs ==
    ASSUME NEW p \in AnyProvider, NEW o \in BOOLEAN
    PROVE  View(p, o) \in Views /\ View(p, o).provider = p /\ View(p, o).owned = o
BY DEF View, Views

LEMMA KeptIs ==
    ASSUME ConstantsAssumption, NEW s \in Seq(Views), s # <<>>, Distinct(s), Len(s) <= MaxBack + 1
    PROVE  /\ Kept(s) \in Seq(Views) /\ Len(Kept(s)) \in Nat /\ Len(Kept(s)) <= MaxBack
           /\ OwnedIn(s) = OwnedIn(Kept(s)) \cup Oldest(s)
           /\ OwnedIn(Kept(s)) \cap Oldest(s) = {}
           /\ Distinct(Kept(s))
           /\ \A k \in DOMAIN Kept(s) : \E m \in DOMAIN s : Kept(s)[k] = s[m]
<1>1. Len(s) \in Nat \ {0} /\ MaxBack \in Nat
  BY EmptySeq, LenProperties DEF ConstantsAssumption
<1>2. CASE Len(s) > MaxBack
  <2>1. Kept(s) = Tail(s) /\ Oldest(s) = Mine(Head(s))
    BY <1>2 DEF Kept, Oldest, Mine
  <2>2. /\ Tail(s) \in Seq(Views) /\ Len(Tail(s)) = Len(s) - 1
        /\ \A k \in DOMAIN Tail(s) : Tail(s)[k] = s[k + 1] /\ k + 1 \in DOMAIN s
        /\ OwnedIn(s) = OwnedIn(Tail(s)) \cup Mine(Head(s))
        /\ Distinct(Tail(s)) /\ OwnedIn(Tail(s)) \cap Mine(Head(s)) = {}
    BY OwnedInTail
  <2>3. Len(Tail(s)) \in Nat /\ Len(Tail(s)) <= MaxBack
    BY <1>1, <2>2
  <2> QED
    BY <2>1, <2>2, <2>3, Zenon
<1>3. CASE ~ (Len(s) > MaxBack)
  <2>1. Kept(s) = s /\ Oldest(s) = {}
    BY <1>3 DEF Kept, Oldest
  <2>2. Len(s) \in Nat /\ Len(s) <= MaxBack
    BY <1>1, <1>3
  <2> QED
    BY <2>1, <2>2
<1> QED
  BY <1>2, <1>3

LEMMA LinkOpensStep ==
    ASSUME ConstantsAssumption, Inv, LinkOpens
    PROVE  Inv'
<1> DEFINE old == viewer[active].views
           kept == Kept(old)
           new == View(Top.provider, Top.owned)
           views == Append(kept, new)
           v == [viewer[active] EXCEPT !.views = views]
<1>1. /\ running /\ Len(frames) = 1 /\ Top.job = "follow" /\ frames' = <<>>
      /\ live' = live \ Oldest(old)
      /\ viewer' = [viewer EXCEPT ![active] = v]
      /\ UNCHANGED <<provider, active, running>>
  BY DEF LinkOpens, Destroyed
<1>2. /\ Top = Base /\ Top \in Frames /\ OwnedIn(frames) = Mine(Top) /\ frames # <<>>
      /\ Top.owned => Top.provider \in live /\ Top.provider # Local /\ ~ Settled(Top.provider)
  BY <1>1, OneFrame
<1>3. InViewer /\ Top.owned = TRUE /\ Top.provider \in AnyProvider
  <2>1. InProgress
    BY <1>1, <1>2, ProgressFacts
  <2>2. InViewer /\ Base.owned
    BY <1>1, <1>2, <2>1 DEF InProgress
  <2> QED
    BY <1>2, <2>2 DEF Frames
<1>4. /\ active \in Panes /\ viewer[active] \in Viewers /\ viewer[active] # None
      /\ OwnedByViewer(active) = OwnedIn(old) /\ Distinct(old)
      /\ Len(old) <= MaxBack + 1
      /\ \A k \in DOMAIN old : ~ old[k].owned => old[k].provider \in {provider[active], Local}
  BY <1>1, <1>3, InViewerFacts
<1>5. old \in Seq(Views) /\ old # <<>>
  BY <1>4, ViewerIs
<1> HIDE DEF old
<1>6. /\ kept \in Seq(Views) /\ Len(kept) \in Nat /\ Len(kept) <= MaxBack
      /\ OwnedIn(old) = OwnedIn(kept) \cup Oldest(old)
      /\ OwnedIn(kept) \cap Oldest(old) = {} /\ Distinct(kept)
      /\ \A k \in DOMAIN kept : \E m \in DOMAIN old : kept[k] = old[m]
  BY <1>4, <1>5, KeptIs
<1>7. new \in Views /\ new.provider = Top.provider /\ new.owned = TRUE
  BY <1>3, ViewIs
<1>8. Mine(new) = {Top.provider} /\ Mine(Top) = {Top.provider}
  BY <1>3, <1>7 DEF Mine
<1>9. Top.provider \notin OwnedIn(old) /\ Top.provider \in live
  BY <1>2, <1>3, <1>4 DEF Settled
<1> HIDE DEF kept, new
<1>10. /\ views \in Seq(Views) /\ views # <<>>
       /\ DOMAIN views = 1 .. Len(kept) + 1 /\ DOMAIN kept = 1 .. Len(kept)
       /\ \A k \in 1 .. Len(kept) : views[k] = kept[k]
       /\ views[Len(kept) + 1] = new
  BY <1>6, <1>7, AppendIs
<1>11. OwnedIn(views) = OwnedIn(kept) \cup {Top.provider} /\ Distinct(views)
  <2>1. OwnedIn(kept) \cap Mine(new) = {}
    BY <1>6, <1>8, <1>9
  <2>2. kept \in Seq(Views) /\ new \in Views /\ Distinct(kept)
    BY <1>6, <1>7
  <2> QED
    BY <1>8, <2>1, <2>2, OwnedInAppend
<1>12. Len(views) <= MaxBack + 1
  <2>1. Len(views) = Len(kept) + 1
    BY <1>6, <1>7, AppendProperties
  <2> QED
    BY <1>6, <2>1 DEF ConstantsAssumption
<1> HIDE DEF views
<1>13. v \in Viewers \cup {None} /\ views = IF v = None THEN <<>> ELSE v.views
  BY <1>4, <1>10, ViewerIs DEF ConstantsAssumption
<1> HIDE DEF v
<1>14. \A k \in DOMAIN views : ~ views[k].owned => views[k].provider \in {provider[active], Local}
  <2>1. \A k \in 1 .. Len(kept) + 1 : k \in 1 .. Len(kept) \/ k = Len(kept) + 1
    BY <1>6
  <2>2. \A k \in 1 .. Len(kept) : \E m \in DOMAIN old : views[k] = old[m]
    BY <1>6, <1>10
  <2> QED
    BY <1>4, <1>7, <1>10, <2>1, <2>2
<1>15. /\ OwnedIn(views) \subseteq OwnedByViewer(active) \cup OwnedIn(frames)
       /\ \A q : q \in live' <=>
              q \in live /\ (q \in OwnedByViewer(active) \cup OwnedIn(frames)
                             => q \in OwnedIn(views))
  BY <1>1, <1>2, <1>4, <1>6, <1>8, <1>9, <1>11
<1> QED
  BY <1>1, <1>11, <1>12, <1>13, <1>14, <1>15, ViewerBecomes

\* What the Viewer gets of a handler and of the viewer it called: all they own
\* but what the retry put another in place of.
LEMMA HandedOver ==
    ASSUME Inv, running, Len(frames) = 2, Top.job = "view"
    PROVE  /\ frames # <<>> /\ InFiles /\ Top.provider \in AnyProvider /\ Owns \in BOOLEAN
           /\ IF Owns THEN Top.provider \in OwnedIn(frames)
                      ELSE Top.provider \in {provider[active], Local}
           /\ Superseded \subseteq OwnedIn(frames)
           /\ \A q \in OwnedIn(frames) :
                  q \in Superseded <=> ~ (Owns /\ q = Top.provider)
<1>1. frames # <<>> /\ frames \in Seq(Frames)
  BY DEF Inv, TypeOK
<1>2. /\ Separate /\ Borrowed /\ InProgress /\ DOMAIN frames = 1 .. Len(frames)
      /\ Top = frames[Len(frames)] /\ Base = frames[1] /\ Top \in Frames /\ Base \in Frames
  BY <1>1, ProgressFacts
<1>3. /\ DOMAIN frames = {1, 2} /\ Base = frames[1] /\ Top = frames[2]
  BY <1>2
<1>4. /\ Top.provider \in AnyProvider /\ Top.owned \in BOOLEAN /\ Base.owned \in BOOLEAN
  BY <1>2 DEF Frames
<1>5. InFiles
  BY <1>2, <1>3 DEF InProgress
<1>6. OwnedIn(frames) = Mine(Base) \cup Mine(Top)
  BY <1>3, OwnedBySome DEF Mine
<1>7. ~ Top.owned => Top.provider = Base.provider
  <2>1. \A k \in DOMAIN frames :
            k > 1 /\ ~ frames[k].owned => frames[k].provider = frames[k - 1].provider
    BY <1>2 DEF Borrowed
  <2>2. 2 > 1 /\ 2 - 1 = 1
    OBVIOUS
  <2> QED
    BY <1>3, <2>1, <2>2
<1>8. Top.owned /\ Base.owned => Top.provider # Base.provider
  BY <1>2, <1>3 DEF Separate, Distinct
<1>9. ~ Base.owned => Base.provider \in {provider[active], Local}
  BY <1>1, <1>2, <1>5 DEF InProgress
<1> QED
  BY <1>1, <1>4, <1>5, <1>6, <1>7, <1>8, <1>9 DEF Owns, Superseded, Mine

LEMMA ViewerOpensStep ==
    ASSUME ConstantsAssumption, Inv, ViewerOpens
    PROVE  Inv'
<1> DEFINE new == View(Top.provider, Owns)
           views == <<new>>
           v == [views |-> views, fullscreen |-> FALSE]
<1>1. /\ running /\ Len(frames) = 2 /\ Top.job = "view" /\ frames' = <<>>
      /\ live' = live \ (Superseded \cup OwnedByViewer(active))
      /\ viewer' = [viewer EXCEPT ![active] = v]
      /\ UNCHANGED <<provider, active, running>>
  BY DEF ViewerOpens, Destroyed
<1>2. /\ frames # <<>> /\ InFiles /\ Top.provider \in AnyProvider /\ Owns \in BOOLEAN
      /\ IF Owns THEN Top.provider \in OwnedIn(frames)
                 ELSE Top.provider \in {provider[active], Local}
      /\ Superseded \subseteq OwnedIn(frames)
      /\ \A q \in OwnedIn(frames) : q \in Superseded <=> ~ (Owns /\ q = Top.provider)
  BY <1>1, HandedOver
<1>3. new \in Views /\ new.provider = Top.provider /\ new.owned = Owns
  BY <1>2, ViewIs
<1> HIDE DEF new
<1>4. /\ OwnedIn(views) = (IF Owns THEN {Top.provider} ELSE {}) /\ Distinct(views)
      /\ Len(views) = 1 /\ DOMAIN views = {1} /\ views[1] = new
      /\ views \in Seq(Views) /\ views # <<>>
  <2>1. OwnedIn(views) = Mine(new) /\ Distinct(views)
    BY OwnedInOne
  <2>2. Mine(new) = IF Owns THEN {Top.provider} ELSE {}
    BY <1>3 DEF Mine
  <2> QED
    BY <1>3, <2>1, <2>2
<1> HIDE DEF views
<1>5. v \in Viewers \cup {None} /\ views = IF v = None THEN <<>> ELSE v.views
  <2>1. v \in Viewers /\ v.views = views
    BY <1>4 DEF Viewers
  <2> QED
    BY <2>1 DEF ConstantsAssumption
<1> HIDE DEF v
<1>6. Len(views) <= MaxBack + 1
  BY <1>4 DEF ConstantsAssumption
<1>7. OwnedByViewer(active) = {}
  BY <1>2 DEF OwnedByViewer, InFiles
<1>8. \A k \in DOMAIN views : ~ views[k].owned => views[k].provider \in {provider[active], Local}
  BY <1>2, <1>3, <1>4
<1>9. /\ OwnedIn(views) \subseteq OwnedByViewer(active) \cup OwnedIn(frames)
      /\ \A q : q \in live' <=>
             q \in live /\ (q \in OwnedByViewer(active) \cup OwnedIn(frames)
                            => q \in OwnedIn(views))
  BY <1>1, <1>2, <1>4, <1>7
<1> QED
  BY <1>1, <1>4, <1>5, <1>6, <1>8, <1>9, ViewerBecomes

\* The pane takes the provider of the handler.
LEMMA AttachStep ==
    ASSUME ConstantsAssumption, Inv, Attach
    PROVE  Inv'
<1> DEFINE p == Top.provider
           here == provider[active]
<1>1. /\ running /\ Len(frames) = 1 /\ Top.job \in {"repository", "location"} /\ frames' = <<>>
      /\ IF p = here THEN UNCHANGED <<live, provider>>
                     ELSE /\ provider' = [provider EXCEPT ![active] = p]
                          /\ live' = live \ {here}
      /\ UNCHANGED <<viewer, active, running>>
  BY DEF Attach, Destroyed, LeftBy
<1>2. /\ Top = Base /\ Top \in Frames /\ OwnedIn(frames) = Mine(Top) /\ frames # <<>>
      /\ Top.owned => p \in live /\ p # Local /\ ~ Settled(p)
  BY <1>1, OneFrame
<1>3. /\ TypeOK /\ FocusIsVisible /\ Accounted /\ Separate /\ PanesSeparate
      /\ InProgress /\ BorrowsFromItsPane
  BY <1>1 DEF Inv, Separate
<1>4. /\ InFiles /\ viewer[active] = None
      /\ active \in Panes /\ p \in AnyProvider
      /\ provider \in [Panes -> AnyProvider]
  BY <1>1, <1>2, <1>3 DEF InProgress, InFiles, TypeOK, Frames
<1>5. ~ Top.owned => p \in {here, Local}
  BY <1>2, <1>3, <1>4 DEF InProgress
<1>6. Settled(here)
  BY <1>4 DEF Settled
<1>7. \A q : q \in live <=> q # Local /\ (Settled(q) \/ (Top.owned /\ q = p))
  BY <1>2, <1>3 DEF Accounted, Mine
<1> HIDE DEF p, here
<1>8. \A i \in Panes : ViewsOf(i)' = ViewsOf(i) /\ OwnedByViewer(i)' = OwnedByViewer(i)
  BY <1>1 DEF ViewsOf, OwnedByViewer
<1>9. OwnedByViewer(active) = {} /\ ViewsOf(active) = <<>>
  BY <1>4 DEF OwnedByViewer, ViewsOf
<1>10. FocusIsVisible'
  BY <1>1, <1>3 DEF FocusIsVisible
<1>11. CASE p = here
  <2>1. live' = live /\ provider' = provider /\ ~ Top.owned
    BY <1>1, <1>2, <1>6, <1>11
  <2>2. \A q : Settled(q)' <=> Settled(q)
    BY <1>8, <2>1 DEF Settled
  <2>3. TypeOK'
    BY <1>1, <1>3, <2>1 DEF TypeOK
  <2>4. PanesSeparate'
    BY <1>3, <1>8, <2>1 DEF PanesSeparate
  <2>5. BorrowsFromItsPane'
    BY <1>1, <1>3, <1>8, <2>1 DEF BorrowsFromItsPane
  <2> QED
    BY <1>1, <1>7, <1>10, <2>1, <2>2, <2>3, <2>4, <2>5, NothingInProgress
<1>12. CASE p # here
  <2>1. /\ live' = live \ {here} /\ provider'[active] = p
        /\ \A i \in Panes : i # active => provider'[i] = provider[i]
        /\ provider' \in [Panes -> AnyProvider]
    BY <1>1, <1>4, <1>12
  <2>2. /\ p = Local \/ (Top.owned /\ p \in live /\ p # Local /\ ~ Settled(p))
        /\ Top.owned => p # Local
    BY <1>2, <1>5, <1>12
  <2>3. TypeOK'
    BY <1>1, <1>3, <2>1 DEF TypeOK
  <2>4. \A i \in Panes : p \notin OwnedByViewer(i) /\ (i # active /\ provider[i] = p => p = Local)
    BY <1>3, <2>2 DEF PanesSeparate, Settled
  <2>5. here = provider[active]
    BY DEF here
  <2>6. PanesSeparate'
    <3>1. /\ \A i, j \in Panes : i # j /\ provider[i] = provider[j] => provider[i] = Local
          /\ \A i, j \in Panes : provider[j] \notin OwnedByViewer(i)
          /\ \A i, j \in Panes : i # j => OwnedByViewer(i) \cap OwnedByViewer(j) = {}
          /\ \A i \in Panes : Local \notin OwnedByViewer(i) /\ Distinct(ViewsOf(i))
      BY <1>3 DEF PanesSeparate
    <3>2. \A i, j \in Panes : i # j /\ provider'[i] = provider'[j] => provider'[i] = Local
      BY <2>1, <2>4, <3>1
    <3>3. \A i, j \in Panes : provider'[j] \notin OwnedByViewer(i)
      BY <2>1, <2>4, <3>1
    <3> QED
      BY <1>8, <3>1, <3>2, <3>3 DEF PanesSeparate
  <2>7. BorrowsFromItsPane'
    <3>1. ASSUME NEW i \in Panes
          PROVE  \A k \in DOMAIN ViewsOf(i) : ~ ViewsOf(i)[k].owned =>
                     ViewsOf(i)[k].provider \in {provider'[i], Local}
      <4>1. CASE i = active
        BY <1>9, <4>1
      <4>2. CASE i # active
        BY <1>1, <1>3, <2>1, <4>2 DEF BorrowsFromItsPane
      <4> QED
        BY <4>1, <4>2
    <3> QED
      BY <1>8, <3>1 DEF BorrowsFromItsPane
  <2>8. \A q : Settled(q)' <=>
            \/ q = p
            \/ \E i \in Panes : (i # active /\ q = provider[i]) \/ q \in OwnedByViewer(i)
    BY <1>4, <1>8, <2>1 DEF Settled
  <2>9. \A q : Settled(q) <=>
            \/ q = here
            \/ \E i \in Panes : (i # active /\ q = provider[i]) \/ q \in OwnedByViewer(i)
    BY <1>4, <2>5 DEF Settled
  <2>10. \A i \in Panes : here \notin OwnedByViewer(i) /\ (i # active /\ provider[i] = here => here = Local)
    BY <1>3, <1>4, <2>5 DEF PanesSeparate
  <2>11. \A q : q \in live' <=> q # Local /\ Settled(q)'
    BY <1>7, <1>12, <2>1, <2>2, <2>8, <2>9, <2>10
  <2> QED
    BY <1>1, <1>10, <2>3, <2>6, <2>7, <2>11, NothingInProgress
<1> QED
  BY <1>11, <1>12

-----------------------------------------------------------------------------
(* The focus moves, the panes change places, and the program ends.          *)

LEMMA PanelSwitchStep ==
    ASSUME Inv, PanelSwitch
    PROVE  Inv'
<1>1. /\ running /\ frames = <<>> /\ frames' = <<>> /\ Leaves(active)
      /\ active' = 1 - active
      /\ UNCHANGED <<live, provider, viewer, running>>
  BY DEF PanelSwitch, Idle, Other, panes
<1>2. TypeOK /\ FocusIsVisible /\ Accounted /\ PanesSeparate /\ BorrowsFromItsPane
  BY <1>1 DEF Inv, Separate
<1>3. active \in Panes /\ active' \in Panes
  BY <1>1, <1>2 DEF TypeOK
<1>4. TypeOK'
  BY <1>1, <1>2, <1>3 DEF TypeOK
<1>5. FocusIsVisible'
  BY <1>1, <1>2, <1>3 DEF FocusIsVisible, Leaves
<1>6. \A i \in Panes : ViewsOf(i)' = ViewsOf(i) /\ OwnedByViewer(i)' = OwnedByViewer(i)
  BY <1>1 DEF ViewsOf, OwnedByViewer
<1>7. \A q : Settled(q)' <=> Settled(q)
  BY <1>1, <1>6 DEF Settled
<1>8. PanesSeparate' /\ BorrowsFromItsPane'
  BY <1>1, <1>2, <1>6 DEF PanesSeparate, BorrowsFromItsPane
<1>9. \A q : q \in live <=> q # Local /\ Settled(q)
  BY <1>1, <1>2, OwnedInNone DEF Accounted
<1> QED
  BY <1>1, <1>4, <1>5, <1>7, <1>8, <1>9, NothingInProgress

LEMMA PanelSwapStep ==
    ASSUME Inv, PanelSwap
    PROVE  Inv'
<1>1. /\ running /\ frames = <<>> /\ frames' = <<>> /\ viewer[active] = None
      /\ provider' = [i \in Panes |-> provider[1 - i]]
      /\ viewer' = [i \in Panes |-> viewer[1 - i]]
      /\ UNCHANGED <<live, active, running>>
  BY DEF PanelSwap, Idle, InFiles, Other, Swapped
<1>2. TypeOK /\ FocusIsVisible /\ Accounted /\ PanesSeparate /\ BorrowsFromItsPane
  BY <1>1 DEF Inv, Separate
<1>3. /\ active \in Panes /\ provider \in [Panes -> AnyProvider]
      /\ viewer \in [Panes -> Viewers \cup {None}]
      /\ \A i \in Panes : viewer[i] # None => Len(viewer[i].views) <= MaxBack + 1
  BY <1>2 DEF TypeOK
<1>4. \A i \in Panes : 1 - i \in Panes /\ 1 - (1 - i) = i
  OBVIOUS
<1>5. /\ \A i \in Panes : provider'[i] = provider[1 - i] /\ viewer'[i] = viewer[1 - i]
      /\ provider' \in [Panes -> AnyProvider] /\ viewer' \in [Panes -> Viewers \cup {None}]
  BY <1>1, <1>3, <1>4
<1>6. TypeOK'
  <2>1. \A i \in Panes : viewer'[i] # None => Len(viewer'[i].views) <= MaxBack + 1
    BY <1>3, <1>4, <1>5
  <2> QED
    BY <1>1, <1>2, <1>5, <2>1 DEF TypeOK
<1>7. FocusIsVisible'
  BY <1>1, <1>2, <1>3, <1>4, <1>5 DEF FocusIsVisible
<1>8. \A i \in Panes : /\ ViewsOf(i)' = ViewsOf(1 - i)
                       /\ OwnedByViewer(i)' = OwnedByViewer(1 - i)
  BY <1>5 DEF ViewsOf, OwnedByViewer
<1>9. \A q : Settled(q)' <=> Settled(q)
  BY <1>4, <1>5, <1>8 DEF Settled
<1>10. PanesSeparate'
  <2>1. /\ \A i, j \in Panes : i # j /\ provider[i] = provider[j] => provider[i] = Local
        /\ \A i, j \in Panes : provider[j] \notin OwnedByViewer(i)
        /\ \A i, j \in Panes : i # j => OwnedByViewer(i) \cap OwnedByViewer(j) = {}
        /\ \A i \in Panes : Local \notin OwnedByViewer(i) /\ Distinct(ViewsOf(i))
    BY <1>2 DEF PanesSeparate
  <2>2. \A i, j \in Panes : i # j => 1 - i # 1 - j
    OBVIOUS
  <2> QED
    BY <1>4, <1>5, <1>8, <2>1, <2>2 DEF PanesSeparate
<1>11. BorrowsFromItsPane'
  BY <1>1, <1>2, <1>4, <1>5, <1>8 DEF BorrowsFromItsPane
<1>12. \A q : q \in live <=> q # Local /\ Settled(q)
  BY <1>1, <1>2, OwnedInNone DEF Accounted
<1> QED
  BY <1>1, <1>6, <1>7, <1>9, <1>10, <1>11, <1>12, NothingInProgress

LEMMA QuitStep ==
    ASSUME Inv, Quit
    PROVE  Inv'
<1> DEFINE A == {provider[i] : i \in Panes}
           B == UNION {OwnedByViewer(i) : i \in Panes}
<1>1. /\ running /\ frames = <<>> /\ frames' = <<>> /\ running' = FALSE
      /\ live' = live \ (B \cup A)
      /\ viewer' = [i \in Panes |-> None]
      /\ UNCHANGED <<provider, active>>
  BY DEF Quit, Idle, Destroyed
<1>2. TypeOK /\ Accounted
  BY <1>1 DEF Inv
<1>3. live' = {}
  <2>1. \A q \in live : Settled(q)
    BY <1>1, <1>2, OwnedInNone DEF Accounted
  <2>2. \A i \in Panes : provider[i] \in A /\ OwnedByViewer(i) \subseteq B
    OBVIOUS
  <2> HIDE DEF A, B
  <2> QED
    BY <1>1, <2>1, <2>2 DEF Settled
<1>4. \A i \in Panes : viewer'[i] = None
  BY <1>1
<1>5. TypeOK'
  BY <1>1, <1>2, <1>3, <1>4 DEF TypeOK
<1>6. FocusIsVisible'
  BY <1>4 DEF FocusIsVisible
<1> QED
  BY <1>1, <1>3, <1>5, <1>6 DEF Inv

-----------------------------------------------------------------------------
(* Every step, and what follows.                                            *)

LEMMA StartSteps ==
    ASSUME ConstantsAssumption, Inv,
           \/ \E p \in Providers : OpenRepository(p) \/ FollowLink(p) \/ DownloadLink(p)
           \/ OpenLocation \/ ViewFile \/ DownloadFile
    PROVE  Inv'
<1> USE DEF OpenRepository, FollowLink, DownloadLink, OpenLocation, ViewFile, DownloadFile
<1>1. CASE \E p \in Providers : OpenRepository(p)
  BY <1>1, StartsWithOwn
<1>2. CASE \E p \in Providers : FollowLink(p)
  BY <1>2, StartsWithOwn
<1>3. CASE \E p \in Providers : DownloadLink(p)
  <2>1. PICK p \in Providers :
            /\ Idle /\ InViewer /\ p \notin live /\ live' = live \cup {p}
            /\ frames' = <<Frame("link", p, TRUE), Frame("download", p, FALSE)>>
            /\ UNCHANGED <<panes, active, running>>
    BY <1>3 DEF Created
  <2>2. p \in AnyProvider /\ "download" \in Called /\ ("download" = "view" => InFiles)
    BY DEF AnyProvider, Called
  <2> QED
    BY <2>1, <2>2, StartsCalling
<1>4. CASE OpenLocation
  <2>1. Idle /\ InFiles /\ UNCHANGED <<panes, active, running>>
    BY <1>4
  <2>2. CASE \E p \in Providers : StartWithNew("location", p)
    BY <2>1, <2>2, StartsWithOwn
  <2>3. CASE \E p \in {provider[active], Local} : StartBorrowing("location", p)
    BY <2>1, <2>3, StartsBorrowing
  <2> QED
    BY <1>4, <2>2, <2>3
<1>5. CASE ViewFile
  <2> DEFINE p == provider[active]
  <2>1. /\ Idle /\ InFiles /\ UNCHANGED <<live, panes, active, running>>
        /\ frames' = <<Frame("file", p, FALSE), Frame("view", p, FALSE)>>
    BY <1>5
  <2>2. p \in AnyProvider /\ Settled(p) /\ p \in {provider[active], Local}
    BY <2>1, IdleFacts DEF Settled
  <2> HIDE DEF p
  <2>3. "view" \in Called /\ FALSE \in BOOLEAN
    BY DEF Called
  <2> QED
    BY <2>1, <2>2, <2>3, StartsCalling
<1>6. CASE DownloadFile
  <2> DEFINE p == IF InFiles THEN provider[active] ELSE Shown(active).provider
  <2>1. /\ Idle /\ UNCHANGED <<live, panes, active, running>>
        /\ frames' = <<Frame("file", p, FALSE), Frame("download", p, FALSE)>>
    BY <1>6
  <2>2. /\ p \in AnyProvider /\ (p = Local \/ Settled(p))
        /\ InFiles => p \in {provider[active], Local}
    <3>1. CASE InFiles
      BY <2>1, <3>1, IdleFacts DEF Settled
    <3>2. CASE ~ InFiles
      <4> DEFINE views == viewer[active].views
      <4>1. /\ active \in Panes /\ viewer[active] \in Viewers
            /\ OwnedByViewer(active) = OwnedIn(views)
            /\ \A k \in DOMAIN views : ~ views[k].owned =>
                   views[k].provider \in {provider[active], Local}
        BY <2>1, <3>2, InViewerFacts DEF InViewer, Idle
      <4>2. views \in Seq(Views) /\ views # <<>>
        BY <4>1, ViewerIs
      <4> HIDE DEF views
      <4>3. Len(views) \in DOMAIN views /\ views[Len(views)] \in Views
        BY <4>2, EmptySeq, LenProperties, ElementOfSeq
      <4>4. p = views[Len(views)].provider
        BY <3>2 DEF Shown, Last, views
      <4>5. CASE views[Len(views)].owned
        <5>1. p \in OwnedIn(views)
          BY <4>3, <4>4, <4>5, OwnedBySome
        <5> QED
          BY <3>2, <4>1, <4>3, <4>4, <5>1 DEF Settled, Views
      <4>6. CASE ~ views[Len(views)].owned
        BY <3>2, <4>1, <4>3, <4>4, <4>6 DEF Settled, Views
      <4> QED
        BY <4>5, <4>6
    <3> QED
      BY <3>1, <3>2
  <2> HIDE DEF p
  <2>3. "download" \in Called /\ FALSE \in BOOLEAN /\ "download" # "view"
    BY DEF Called
  <2> QED
    BY <2>1, <2>2, <2>3, StartsCalling
<1> QED
  BY <1>1, <1>2, <1>3, <1>4, <1>5, <1>6

LEMMA CallSteps ==
    ASSUME Inv, ViewLocation \/ DownloadLocation \/ OfferDownload
    PROVE  Inv'
<1>1. CASE ViewLocation
  BY <1>1, CallsStep DEF ViewLocation, Calls, Called
<1>2. CASE DownloadLocation
  BY <1>2, CallsStep DEF DownloadLocation, Calls, Called
<1>3. CASE OfferDownload
  BY <1>3, CallsStep DEF OfferDownload, Calls, Called
<1> QED
  BY <1>1, <1>2, <1>3

LEMMA InvHolds ==
    ASSUME ConstantsAssumption
    PROVE  Spec => []Inv
<1>1. Init => Inv
  <2> SUFFICES ASSUME Init PROVE Inv
    OBVIOUS
  <2>1. /\ live = {} /\ active = 0 /\ frames = <<>> /\ running = TRUE
        /\ \A i \in Panes : provider[i] = Local /\ viewer[i] = None
        /\ provider \in [Panes -> AnyProvider] /\ viewer \in [Panes -> Viewers \cup {None}]
    BY DEF Init, AnyProvider
  <2>2. TypeOK /\ FocusIsVisible
    BY <2>1 DEF TypeOK, FocusIsVisible
  <2>3. \A i \in Panes : OwnedByViewer(i) = {} /\ ViewsOf(i) = <<>>
    BY <2>1 DEF OwnedByViewer, ViewsOf
  <2>4. OwnedIn(frames) = {} /\ Distinct(frames) /\ Distinct(<<>>) /\ DOMAIN frames = {}
    BY <2>1, OwnedInNone
  <2>5. Accounted
    BY <2>1, <2>3, <2>4 DEF Accounted, Settled
  <2>6. Separate
    BY <2>1, <2>3, <2>4 DEF Separate, PanesSeparate
  <2>7. Borrowed /\ InProgress /\ BorrowsFromItsPane
    BY <2>1, <2>3, <2>4 DEF Borrowed, InProgress, BorrowsFromItsPane
  <2> QED
    BY <2>1, <2>2, <2>5, <2>6, <2>7 DEF Inv
<1>2. Inv /\ [Next]_vars => Inv'
  <2> SUFFICES ASSUME Inv, [Next]_vars PROVE Inv'
    OBVIOUS
  <2>1. CASE UNCHANGED vars
    <3>1. UNCHANGED <<live, provider, viewer, active, frames, running>>
      BY <2>1 DEF vars, panes
    <3>2. TypeOK' = TypeOK /\ FocusIsVisible' = FocusIsVisible
      BY <3>1 DEF TypeOK, FocusIsVisible
    <3>3. \A i \in Panes : OwnedByViewer(i)' = OwnedByViewer(i) /\ ViewsOf(i)' = ViewsOf(i)
      BY <3>1 DEF OwnedByViewer, ViewsOf
    <3>4. \A q : Settled(q)' <=> Settled(q)
      BY <3>1, SettledKept DEF panes
    <3>5. CASE ~ running
      BY <3>1, <3>2, <3>5 DEF Inv
    <3>6. CASE running
      <4>1. /\ TypeOK /\ FocusIsVisible /\ Accounted /\ Separate /\ PanesSeparate /\ Borrowed
            /\ InProgress /\ BorrowsFromItsPane
        BY <3>6 DEF Inv, Separate
      <4>2. Accounted'
        BY <3>1, <3>4, <4>1 DEF Accounted
      <4>3. PanesSeparate' /\ BorrowsFromItsPane'
        BY <3>1, <3>3, <4>1 DEF PanesSeparate, BorrowsFromItsPane
      <4>4. Separate'
        BY <3>1, <3>4, <4>1, <4>3 DEF Separate
      <4>5. Borrowed'
        BY <3>1, <3>4, <4>1 DEF Borrowed
      <4>6. InProgress'
        BY <3>1, <4>1 DEF InProgress, Base, InFiles, InViewer
      <4> QED
        BY <3>1, <3>2, <3>6, <4>1, <4>2, <4>3, <4>4, <4>5, <4>6 DEF Inv
    <3> QED
      BY <3>5, <3>6
  <2>2. CASE Next
    BY <2>2, StartSteps, AuthRetryStep, CallSteps, ReturnStep, AttachStep,
       ViewerOpensStep, LinkOpensStep, ViewerBackStep, ToggleFullscreenStep,
       ViewerCloseStep, PanelSwitchStep, PanelSwapStep, QuitStep DEF Next
  <2> QED
    BY <2>1, <2>2
<1> QED
  BY <1>1, <1>2, PTL DEF Spec

\* Type correctness: panes, Viewers and frames hold what they can hold, and a
\* Viewer never has more to go back to than ViewerScreen.history has room for.
THEOREM TypeCorrect ==
    ASSUME ConstantsAssumption
    PROVE  Spec => []TypeOK
<1>1. Inv => TypeOK
  BY DEF Inv
<1> QED
  BY <1>1, InvHolds, PTL

\* A Viewer that covers both panes has the focus, whatever the keys did.
THEOREM FocusStaysVisible ==
    ASSUME ConstantsAssumption
    PROVE  Spec => []FocusIsVisible
<1>1. Inv => FocusIsVisible
  BY DEF Inv
<1> QED
  BY <1>1, InvHolds, PTL

LEMMA OwnersAre ==
    ASSUME NEW p, NEW o
    PROVE  o \in Owners(p) <=>
               \/ \E i \in Panes : o = <<"pane", i>> /\ provider[i] = p
               \/ \E i \in Panes : \E k \in DOMAIN ViewsOf(i) :
                      o = <<"view", i, k>> /\ ViewsOf(i)[k].owned /\ ViewsOf(i)[k].provider = p
               \/ \E k \in DOMAIN frames :
                      o = <<"frame", k>> /\ frames[k].owned /\ frames[k].provider = p
<1> DEFINE P == {<<"pane", i>> : i \in {j \in Panes : provider[j] = p}}
           W(i) == {<<"view", i, k>> : k \in {j \in DOMAIN ViewsOf(i) :
                        ViewsOf(i)[j].owned /\ ViewsOf(i)[j].provider = p}}
           F == {<<"frame", k>> : k \in {j \in DOMAIN frames :
                     frames[j].owned /\ frames[j].provider = p}}
           V == UNION {W(i) : i \in Panes}
<1>1. o \in P <=> \E i \in Panes : o = <<"pane", i>> /\ provider[i] = p
  OBVIOUS
<1>2. \A i \in Panes : o \in W(i) <=>
          \E k \in DOMAIN ViewsOf(i) :
              o = <<"view", i, k>> /\ ViewsOf(i)[k].owned /\ ViewsOf(i)[k].provider = p
  OBVIOUS
<1>3. o \in F <=> \E k \in DOMAIN frames :
          o = <<"frame", k>> /\ frames[k].owned /\ frames[k].provider = p
  OBVIOUS
<1>4. o \in V <=> \E i \in Panes : o \in W(i)
  <2> HIDE DEF W
  <2> QED
    OBVIOUS
<1>5. Owners(p) = P \cup V \cup F
  BY DEF Owners
<1> HIDE DEF P, W, F, V
<1> QED
  BY <1>1, <1>2, <1>3, <1>4, <1>5

\* The three kinds of owners of a provider that exists exclude one another.
LEMMA SoleOwner ==
    ASSUME ConstantsAssumption, Inv, running, NEW p \in live
    PROVE  \E o \in Owners(p) : Owners(p) = {o}
<1>1. /\ TypeOK /\ Accounted /\ Separate /\ PanesSeparate
      /\ p # Local /\ (Settled(p) \/ p \in OwnedIn(frames))
  BY DEF Inv, Accounted, Separate
<1>2. \A i \in Panes : OwnedByViewer(i) = OwnedIn(ViewsOf(i))
  BY OwnedInNone DEF OwnedByViewer, ViewsOf
<1>3. \A i \in Panes : \A k \in DOMAIN ViewsOf(i) :
          ViewsOf(i)[k].owned /\ ViewsOf(i)[k].provider = p => p \in OwnedByViewer(i)
  BY <1>2, OwnedBySome
<1>4. \A k \in DOMAIN frames : frames[k].owned /\ frames[k].provider = p => p \in OwnedIn(frames)
  BY OwnedBySome
<1>5. /\ \A i, j \in Panes : provider[i] = p /\ provider[j] = p => i = j
      /\ \A i, j \in Panes : provider[j] = p => p \notin OwnedByViewer(i)
      /\ \A i, j \in Panes : p \in OwnedByViewer(i) /\ p \in OwnedByViewer(j) => i = j
      /\ p \in OwnedIn(frames) => ~ Settled(p)
  BY <1>1 DEF PanesSeparate, Separate
<1>6. ASSUME NEW i \in Panes, provider[i] = p
      PROVE  \E o \in Owners(p) : Owners(p) = {o}
  <2> DEFINE o == <<"pane", i>>
  <2>1. p \notin OwnedIn(frames) /\ \A j \in Panes : p \notin OwnedByViewer(j)
    BY <1>5, <1>6 DEF Settled
  <2>2. \A x : x \in Owners(p) <=> x = o
    BY <1>3, <1>4, <1>5, <1>6, <2>1, OwnersAre
  <2> HIDE DEF o
  <2>3. Owners(p) = {o}
    BY <2>2
  <2> QED
    BY <2>3
<1>7. ASSUME NEW i \in Panes, p \in OwnedByViewer(i)
      PROVE  \E o \in Owners(p) : Owners(p) = {o}
  <2>1. PICK k \in DOMAIN ViewsOf(i) : ViewsOf(i)[k].owned /\ ViewsOf(i)[k].provider = p
    BY <1>2, <1>7, OwnedBySome
  <2> DEFINE o == <<"view", i, k>>
  <2>2. p \notin OwnedIn(frames) /\ \A j \in Panes : provider[j] # p
    BY <1>5, <1>7 DEF Settled
  <2>3. \A m \in DOMAIN ViewsOf(i) :
            ViewsOf(i)[m].owned /\ ViewsOf(i)[m].provider = p => m = k
    BY <1>1, <2>1 DEF PanesSeparate, Distinct
  <2>4. \A x : x \in Owners(p) <=> x = o
    <3>1. ASSUME NEW x \in Owners(p)
          PROVE  x = o
      <4>1. PICK j \in Panes : \E m \in DOMAIN ViewsOf(j) :
                x = <<"view", j, m>> /\ ViewsOf(j)[m].owned /\ ViewsOf(j)[m].provider = p
        BY <1>4, <2>2, <3>1, OwnersAre
      <4>2. j = i
        BY <1>3, <1>5, <1>7, <4>1
      <4> QED
        BY <2>3, <4>1, <4>2
    <3>2. o \in Owners(p)
      BY <2>1, OwnersAre
    <3> QED
      BY <3>1, <3>2
  <2> HIDE DEF o
  <2>5. Owners(p) = {o}
    BY <2>4
  <2> QED
    BY <2>5
<1>8. ASSUME p \in OwnedIn(frames)
      PROVE  \E o \in Owners(p) : Owners(p) = {o}
  <2>1. PICK k \in DOMAIN frames : frames[k].owned /\ frames[k].provider = p
    BY <1>8, OwnedBySome
  <2> DEFINE o == <<"frame", k>>
  <2>2. \A j \in Panes : provider[j] # p /\ p \notin OwnedByViewer(j)
    BY <1>5, <1>8 DEF Settled
  <2>3. \A m \in DOMAIN frames : frames[m].owned /\ frames[m].provider = p => m = k
    BY <1>1, <2>1 DEF Separate, Distinct
  <2>4. \A x : x \in Owners(p) <=> x = o
    BY <1>3, <2>1, <2>2, <2>3, OwnersAre
  <2> HIDE DEF o
  <2>5. Owners(p) = {o}
    BY <2>4
  <2> QED
    BY <2>5
<1>9. Settled(p) => \E i \in Panes : provider[i] = p \/ p \in OwnedByViewer(i)
  BY DEF Settled
<1> QED
  BY <1>1, <1>6, <1>7, <1>8, <1>9

\* Whatever keys, dialogs, retries and hand-overs did: what a pane, a Viewer or
\* the handler in progress refers to has not been destroyed, every provider has
\* one owner, what a Viewer does not own its pane keeps for it, and when the
\* program has ended every provider has been destroyed.
THEOREM OwnershipHolds ==
    ASSUME ConstantsAssumption
    PROVE  Spec => []Ownership
<1>1. ASSUME Inv
      PROVE  Ownership
  <2>1. NothingLeaked /\ BorrowsFromItsPane
    BY <1>1 DEF Inv, NothingLeaked, BorrowsFromItsPane
  <2>2. OneOwner
    BY <1>1, SoleOwner DEF OneOwner
  <2>3. NoDangling
    <3> SUFFICES ASSUME running
                 PROVE  /\ \A i \in Panes :
                               /\ provider[i] \in live \cup {Local}
                               /\ \A k \in DOMAIN ViewsOf(i) :
                                      ViewsOf(i)[k].provider \in live \cup {Local}
                        /\ \A k \in DOMAIN frames : frames[k].provider \in live \cup {Local}
      BY DEF NoDangling
    <3>1. Accounted /\ Borrowed /\ BorrowsFromItsPane
      BY <1>1 DEF Inv
    <3>2. \A q : Settled(q) \/ q \in OwnedIn(frames) => q \in live \cup {Local}
      BY <3>1 DEF Accounted
    <3>3. \A i \in Panes : provider[i] \in live \cup {Local}
      BY <3>2 DEF Settled
    <3>4. ASSUME NEW i \in Panes, NEW k \in DOMAIN ViewsOf(i)
          PROVE  ViewsOf(i)[k].provider \in live \cup {Local}
      <4>1. OwnedByViewer(i) = OwnedIn(ViewsOf(i))
        BY OwnedInNone DEF OwnedByViewer, ViewsOf
      <4>2. CASE ViewsOf(i)[k].owned
        BY <3>2, <4>1, <4>2, OwnedBySome DEF Settled
      <4>3. CASE ~ ViewsOf(i)[k].owned
        BY <3>1, <3>3, <4>3 DEF BorrowsFromItsPane
      <4> QED
        BY <4>2, <4>3
    <3>5. ASSUME NEW k \in DOMAIN frames
          PROVE  frames[k].provider \in live \cup {Local}
      <4>1. CASE frames[k].owned
        BY <3>2, <4>1, OwnedBySome
      <4>2. CASE ~ frames[k].owned
        BY <3>1, <3>2, <4>2 DEF Borrowed
      <4> QED
        BY <4>1, <4>2
    <3> QED
      BY <3>3, <3>4, <3>5
  <2> QED
    BY <2>1, <2>2, <2>3 DEF Ownership
<1> QED
  BY <1>1, InvHolds, PTL


----------------------------------------------------------------------------
(* The history *)

\* What the constants of PaneHistory are.
LEMMA HistoryMaxIs == HistoryMax \in Nat \ {0}
  BY PartsAssumption DEF Past!ConstantsAssumption

LEMMA LimitsAre == Limits \subseteq 1 .. HistoryMax
  BY PartsAssumption DEF Past!ConstantsAssumption

(* What the array holds after the room for one more entry has been made:    *)
(* entries of the old list, no more than the effective limit or the old     *)
(* length allow.                                                            *)
LEMMA RoomIsShort ==
    ASSUME NEW h \in Past!Histories, Past!Bounded(h)
    PROVE  /\ Past!Room(h) \in Seq(Past!Locations)
           /\ Len(Past!Room(h)) <= HistoryMax - 1
           /\ \A i \in 1 .. Len(Past!Room(h)) :
                  \E j \in 1 .. Len(h.locations) : Past!Room(h)[i] = h.locations[j]
<1> DEFINE n == Len(h.locations)
           k == Past!Kept(h)
           m == h.current + 1
<1>1. /\ h.locations \in Seq(Past!Locations) /\ n \in Nat /\ m \in Nat
      /\ m <= n /\ n <= HistoryMax /\ HistoryMax \in Nat \ {0}
      /\ h.limit \in 0 .. HistoryMax
  BY HistoryMaxIs DEF Past!Histories, Past!Bounded
<1>2. /\ k \in Seq(Past!Locations) /\ Len(k) = m
      /\ \A i \in 1 .. m : k[i] = h.locations[i]
  BY <1>1 DEF Past!Kept
<1>3. Past!EffectiveLimit(h) \in 1 .. HistoryMax
  BY <1>1 DEF Past!EffectiveLimit
<1>4. CASE m >= Past!EffectiveLimit(h)
  <2> DEFINE r == Past!DropOldest(k, Past!EffectiveLimit(h))
  <2>1. Past!Room(h) = r
    BY <1>2, <1>4 DEF Past!Room
  <2>2. \A i \in 1 .. m - 1 : r[i] \in {k[i], k[i + 1]}
    BY <1>2 DEF Past!DropOldest
  <2>3. r = [i \in 1 .. m - 1 |-> r[i]]
    BY <1>2 DEF Past!DropOldest
  <2>4. m - 1 \in Nat
    BY <1>3, <1>4, <1>1
  <2>5. \A i \in 1 .. m - 1 : r[i] \in Past!Locations
    BY <1>1, <1>2, <2>2, <2>4
  <2>6. r \in Seq(Past!Locations) /\ Len(r) = m - 1
    <3>1. r \in [1 .. m - 1 -> Past!Locations]
      BY <2>3, <2>5, Zenon
    <3> HIDE DEF r
    <3> QED
      BY <3>1, <2>4
  <2>7. \A i \in 1 .. m - 1 : \E j \in 1 .. n : r[i] = h.locations[j]
    <3> SUFFICES ASSUME NEW i \in 1 .. m - 1
                 PROVE  \E j \in 1 .. n : r[i] = h.locations[j]
      OBVIOUS
    <3>1. i \in 1 .. n /\ i + 1 \in 1 .. n /\ i \in 1 .. m /\ i + 1 \in 1 .. m
      BY <1>1
    <3>2. k[i] = h.locations[i] /\ k[i + 1] = h.locations[i + 1]
      BY <3>1, <1>2
    <3>3. r[i] = h.locations[i] \/ r[i] = h.locations[i + 1]
      BY <2>2, <3>2
    <3> QED
      BY <3>1, <3>3, Zenon
  <2> QED
    BY <1>1, <2>1, <2>6, <2>7
<1>5. CASE ~(m >= Past!EffectiveLimit(h))
  BY <1>1, <1>2, <1>3, <1>5 DEF Past!Room
<1> QED
  BY <1>4, <1>5

(* A push keeps the history well formed, leaves the cursor on the pushed    *)
(* location and brings in no other entry.                                   *)
LEMMA PushIsSafe ==
    ASSUME NEW h \in Past!Histories, Past!Bounded(h), NEW l \in Past!Locations
    PROVE  /\ Past!Push(h, l) \in Past!Histories
           /\ Past!Bounded(Past!Push(h, l))
           /\ Past!HasCurrent(Past!Push(h, l))
           /\ Past!Current(Past!Push(h, l)) = l
           /\ \A p : /\ Past!AllBelongTo(h, p)
                     /\ l.provider = p
                     => Past!AllBelongTo(Past!Push(h, l), p)
<1>1. CASE Past!HasCurrent(h) /\ Past!Current(h) = l
  BY <1>1 DEF Past!Push
<1>2. CASE ~(Past!HasCurrent(h) /\ Past!Current(h) = l)
  <2> DEFINE r == Past!Room(h)
             g == [locations |-> Append(r, l), current |-> Len(r), limit |-> h.limit]
  <2>1. Past!Push(h, l) = g
    BY <1>2 DEF Past!Push
  <2>2. /\ r \in Seq(Past!Locations)
        /\ Len(r) \in 0 .. HistoryMax - 1
        /\ \A i \in 1 .. Len(r) :
               \E j \in 1 .. Len(h.locations) : r[i] = h.locations[j]
    BY RoomIsShort, HistoryMaxIs
  <2> HIDE DEF r
  <2>3. /\ g.locations = Append(r, l)
        /\ g.current = Len(r)
        /\ g.limit = h.limit
        /\ g \in Past!Histories
    <3>1. /\ Append(r, l) \in Seq(Past!Locations)
          /\ Len(r) \in -1 .. HistoryMax - 1
      BY <2>2, HistoryMaxIs
    <3>2. h.limit \in 0 .. HistoryMax
      BY DEF Past!Histories
    <3> QED
      BY <3>1, <3>2 DEF Past!Histories
  <2>4. /\ Len(g.locations) = Len(r) + 1
        /\ g.locations[Len(r) + 1] = l
        /\ \A i \in 1 .. Len(r) : g.locations[i] = r[i]
    BY <2>2, <2>3
  <2> HIDE DEF g
  <2>5. Past!Bounded(g) /\ Past!HasCurrent(g) /\ Past!Current(g) = l
    BY <2>2, <2>3, <2>4, HistoryMaxIs DEF Past!Bounded, Past!HasCurrent, Past!Current
  <2>6. ASSUME NEW p, Past!AllBelongTo(h, p), l.provider = p
        PROVE  Past!AllBelongTo(g, p)
    <3> SUFFICES ASSUME NEW i \in 1 .. Len(g.locations)
                 PROVE  g.locations[i].provider = p
      BY DEF Past!AllBelongTo
    <3>1. CASE i = Len(r) + 1
      BY <2>4, <2>6, <3>1
    <3>2. CASE i \in 1 .. Len(r)
      BY <2>2, <2>4, <2>6, <3>2 DEF Past!AllBelongTo
    <3> QED
      BY <2>2, <2>4, <3>1, <3>2
  <2> QED
    BY <2>1, <2>3, <2>5, <2>6
<1> QED
  BY <1>1, <1>2

(* Within its limit the list keeps what it had up to the cursor, all of it  *)
(* or all but the oldest entry.                                             *)
LEMMA RoomWithinLimit ==
    ASSUME NEW h \in Past!Histories, Past!Bounded(h),
           h.current + 1 <= Past!EffectiveLimit(h)
    PROVE  LET r == Past!Room(h)
               m == h.current + 1
           IN /\ r \in Seq(Past!Locations)
              /\ \/ /\ m < Past!EffectiveLimit(h)
                    /\ Len(r) = m
                    /\ \A i \in 1 .. m : r[i] = h.locations[i]
                 \/ /\ m = Past!EffectiveLimit(h)
                    /\ Len(r) = m - 1
                    /\ \A i \in 1 .. m - 1 : r[i] = h.locations[i + 1]
<1> DEFINE r == Past!Room(h)
           m == h.current + 1
           k == Past!Kept(h)
           lim == Past!EffectiveLimit(h)
           s == h.locations
<1>1. /\ s \in Seq(Past!Locations) /\ m \in Nat /\ m <= Len(s)
      /\ k \in Seq(Past!Locations) /\ Len(k) = m
      /\ \A i \in 1 .. m : k[i] = s[i]
      /\ lim \in Nat \ {0} /\ m <= lim
  BY HistoryMaxIs DEF Past!Histories, Past!Bounded, Past!Kept, Past!EffectiveLimit
<1>2. CASE m = lim
  <2>1. r = Past!DropOldest(k, lim)
    BY <1>1, <1>2 DEF Past!Room
  <2>2. r = [i \in 1 .. m - 1 |-> k[i + 1]]
    BY <1>1, <1>2, <2>1 DEF Past!DropOldest
  <2>3. r \in Seq(Past!Locations)
    BY RoomIsShort
  <2> HIDE DEF r, k
  <2>4. \A i \in 1 .. m - 1 : r[i] = s[i + 1]
    BY <1>1, <2>2
  <2>5. m - 1 \in Nat /\ DOMAIN r = 1 .. m - 1
    BY <1>1, <1>2, <2>2
  <2>6. Len(r) = m - 1
    BY <2>3, <2>5
  <2> QED
    BY <1>2, <2>3, <2>4, <2>6 DEF r
<1>3. CASE m < lim
  <2>1. r = k
    BY <1>1, <1>3 DEF Past!Room
  <2> QED
    BY <1>1, <1>3, <2>1
<1> QED
  BY <1>1, <1>2, <1>3

(* If the list was not over its limit, a push never records a location next *)
(* to itself.                                                               *)
LEMMA PushKeepsNoRepeats ==
    ASSUME NEW h \in Past!Histories, Past!Bounded(h), NEW l \in Past!Locations,
           Past!NoRepeats(h), ~Past!OverLimit(h, l)
    PROVE  Past!NoRepeats(Past!Push(h, l))
<1>1. CASE Past!HasCurrent(h) /\ Past!Current(h) = l
  BY <1>1 DEF Past!Push
<1>2. CASE ~(Past!HasCurrent(h) /\ Past!Current(h) = l)
  <2> DEFINE r == Past!Room(h)
             m == h.current + 1
             s == h.locations
  <2>1. /\ s \in Seq(Past!Locations) /\ m \in Nat /\ m <= Len(s)
        /\ m <= Past!EffectiveLimit(h)
    BY <1>2, HistoryMaxIs
    DEF Past!Histories, Past!Bounded, Past!Kept, Past!OverLimit, Past!EffectiveLimit
  <2>2. /\ r \in Seq(Past!Locations)
        /\ \/ Len(r) = m /\ \A i \in 1 .. m : r[i] = s[i]
           \/ Len(r) = m - 1 /\ \A i \in 1 .. m - 1 : r[i] = s[i + 1]
    BY <2>1, RoomWithinLimit
  <2>3. Past!Push(h, l).locations = Append(r, l)
    BY <1>2 DEF Past!Push
  <2>4. \A i \in 1 .. Len(s) - 1 : s[i] # s[i + 1]
    BY DEF Past!NoRepeats
  <2>5. m > 0 => s[m] # l
    BY <1>2, <2>1 DEF Past!HasCurrent, Past!Current, Past!Histories
  <2> HIDE DEF r, s, m
  <2>6. SUFFICES ASSUME NEW i \in 1 .. Len(r)
                 PROVE  Append(r, l)[i] # Append(r, l)[i + 1]
    <3>1. Len(Append(r, l)) - 1 = Len(r)
      BY <2>2
    <3> QED BY <2>3, <3>1 DEF Past!NoRepeats
  <2>7. Len(r) \in Nat /\ Append(r, l)[i] = r[i]
    BY <2>2
  <2>8. CASE i = Len(r)
    <3>1. Append(r, l)[i + 1] = l
      BY <2>2, <2>8
    <3>2. r[i] = s[m]
      BY <2>1, <2>2, <2>7, <2>8
    <3> QED
      BY <2>1, <2>2, <2>5, <2>7, <2>8, <3>1, <3>2
  <2>9. CASE i \in 1 .. Len(r) - 1
    <3>1. Append(r, l)[i + 1] = r[i + 1]
      BY <2>2, <2>7, <2>9
    <3>2. r[i] # r[i + 1]
      <4>1. CASE Len(r) = m
        BY <2>1, <2>2, <2>4, <2>9, <4>1
      <4>2. CASE Len(r) = m - 1
        <5>1. r[i] = s[i + 1] /\ r[i + 1] = s[i + 1 + 1]
          BY <2>1, <2>2, <2>9, <4>2
        <5>2. i + 1 \in 1 .. Len(s) - 1
          BY <2>1, <2>9, <4>2
        <5> QED
          BY <2>4, <5>1, <5>2
      <4> QED
        BY <2>2, <4>1, <4>2
    <3> QED
      BY <2>7, <3>1, <3>2
  <2> QED
    BY <2>7, <2>8, <2>9
<1> QED
  BY <1>1, <1>2

(* A push of another location than the current one, with room for both,     *)
(* leaves the current one right behind the cursor and nothing ahead.        *)
LEMMA PushKeepsWayBack ==
    ASSUME NEW h \in Past!Histories, Past!Bounded(h), NEW l \in Past!Locations,
           Past!HasCurrent(h), Past!Current(h) # l,
           Past!EffectiveLimit(h) >= Len(h.locations),
           Past!EffectiveLimit(h) >= 2
    PROVE  /\ ~Past!CanGoForward(Past!Push(h, l))
           /\ Past!CanGoBack(Past!Push(h, l))
           /\ Past!Push(h, l).locations[Past!Push(h, l).current] = Past!Current(h)
<1> DEFINE r == Past!Room(h)
           m == h.current + 1
           s == h.locations
<1>1. /\ s \in Seq(Past!Locations) /\ m \in Nat \ {0} /\ m <= Len(s)
      /\ m <= Past!EffectiveLimit(h) /\ Past!EffectiveLimit(h) \in Nat
      /\ s[m] = Past!Current(h)
  BY HistoryMaxIs
  DEF Past!Histories, Past!HasCurrent, Past!Current, Past!EffectiveLimit
<1>2. /\ r \in Seq(Past!Locations)
      /\ \/ m < Past!EffectiveLimit(h) /\ Len(r) = m /\ \A i \in 1 .. m : r[i] = s[i]
         \/ /\ m = Past!EffectiveLimit(h) /\ Len(r) = m - 1
            /\ \A i \in 1 .. m - 1 : r[i] = s[i + 1]
  BY <1>1, RoomWithinLimit
<1>3. Past!Push(h, l).locations = Append(r, l) /\ Past!Push(h, l).current = Len(r)
  BY DEF Past!Push
<1> HIDE DEF r, s, m
<1>4. Len(r) >= 1 /\ Len(r) \in Nat /\ r[Len(r)] = s[m]
  BY <1>1, <1>2
<1>5. Len(Append(r, l)) = Len(r) + 1 /\ Append(r, l)[Len(r)] = r[Len(r)]
  BY <1>2, <1>4
<1> QED
  BY <1>1, <1>3, <1>4, <1>5 DEF Past!CanGoForward, Past!CanGoBack

-----------------------------------------------------------------------------
(* The inductive invariant: the five invariants need each other, the bounds *)
(* for the cursor and the repeats, the cursor for what a failed Back leaves. *)
PastInv == /\ Past!TypeOK
           /\ Past!HistoryBounded
           /\ Past!EntriesBelongToProvider
           /\ Past!CursorNamesLocation
           /\ Past!NoAdjacentRepeats

LEMMA EmptyHistoryIsSafe ==
    ASSUME NEW limit \in 0 .. HistoryMax
    PROVE  /\ Past!EmptyHistory(limit) \in Past!Histories
           /\ Past!Bounded(Past!EmptyHistory(limit))
           /\ Past!NoRepeats(Past!EmptyHistory(limit))
           /\ \A p : Past!AllBelongTo(Past!EmptyHistory(limit), p)
           /\ \A l : ~Past!OverLimit(Past!EmptyHistory(limit), l)
<1>1. /\ Past!EmptyHistory(limit).locations = <<>>
      /\ Past!EmptyHistory(limit).current = -1
      /\ Past!EmptyHistory(limit) \in Past!Histories
  BY HistoryMaxIs DEF Past!EmptyHistory, Past!Histories
<1>2. Past!EffectiveLimit(Past!EmptyHistory(limit)) \in Nat
  BY HistoryMaxIs DEF Past!EffectiveLimit, Past!EmptyHistory
<1>3. Past!Kept(Past!EmptyHistory(limit)) = <<>>
  BY <1>1 DEF Past!Kept
<1> QED
  BY <1>1, <1>2, <1>3, HistoryMaxIs
  DEF Past!Bounded, Past!NoRepeats, Past!AllBelongTo, Past!OverLimit

LEMMA PastInitHolds == Past!Init => PastInv
<1> SUFFICES ASSUME Past!Init PROVE PastInv
  OBVIOUS
<1>1. PICK p \in Attachable, id \in ResourceIds, limit \in Limits, e \in BOOLEAN :
          /\ attached = p
          /\ location = [provider |-> p, resource_id |-> id]
          /\ history = Past!Push(Past!EmptyHistory(limit), location)
          /\ history_enabled = e
          /\ max_entries = limit
          /\ drifted = FALSE
          /\ squeezed = FALSE
  BY Zenon DEF Past!Init
<1>2. limit \in 0 .. HistoryMax
  BY LimitsAre, HistoryMaxIs
<1>3. location \in Past!Locations /\ location.provider = p
  BY <1>1 DEF Past!Locations
<1>4. /\ history \in Past!Histories /\ Past!Bounded(history)
      /\ Past!HasCurrent(history) /\ Past!Current(history) = location
      /\ Past!AllBelongTo(history, p)
      /\ Past!NoRepeats(history)
  BY <1>1, <1>2, <1>3, EmptyHistoryIsSafe, PushIsSafe, PushKeepsNoRepeats
<1> QED
  BY <1>1, <1>3, <1>4
  DEF PastInv, Past!TypeOK, Past!HistoryBounded, Past!EntriesBelongToProvider, Past!CursorNamesLocation,
      Past!NoAdjacentRepeats

(* Recording a visit, or not, when history is enabled or disabled.          *)
LEMMA LoadHolds ==
    ASSUME PastInv, NEW l \in Past!Locations, Past!Load(l)
    PROVE  PastInv'
<1> DEFINE h == history
<1>1. /\ h \in Past!Histories /\ Past!Bounded(h) /\ Past!AllBelongTo(h, attached)
      /\ l.provider = attached /\ history_enabled \in BOOLEAN
      /\ squeezed \in BOOLEAN
  BY DEF PastInv, Past!TypeOK, Past!HistoryBounded, Past!EntriesBelongToProvider, Past!Load
<1>2. CASE history_enabled
  <2>1. /\ history' = Past!Push(h, l) /\ location' = l /\ drifted' = FALSE
        /\ squeezed' = (squeezed \/ Past!OverLimit(h, l))
        /\ UNCHANGED <<attached, Past!config>>
    BY <1>2, Zenon DEF Past!Load
  <2>2. ~squeezed' => Past!NoRepeats(history')
    BY <1>1, <2>1, PushKeepsNoRepeats DEF PastInv, Past!NoAdjacentRepeats
  <2>3. squeezed' \in BOOLEAN
    BY <1>1, <2>1 DEF Past!OverLimit
  <2>4. /\ history' \in Past!Histories /\ Past!Bounded(history') /\ Past!HasCurrent(history')
        /\ Past!Current(history') = l /\ Past!AllBelongTo(history', attached)
    BY <1>1, <2>1, PushIsSafe
  <2> QED
    BY <1>1, <2>1, <2>2, <2>3, <2>4
    DEF PastInv, Past!TypeOK, Past!HistoryBounded, Past!EntriesBelongToProvider,
        Past!CursorNamesLocation, Past!NoAdjacentRepeats, Past!config
<1>3. CASE ~history_enabled
  <2>1. /\ history' = h /\ location' = l
        /\ drifted' = ~(Past!HasCurrent(h) /\ Past!Current(h) = l)
        /\ squeezed' = squeezed
        /\ UNCHANGED <<attached, Past!config>>
    BY <1>1, <1>3, Zenon DEF Past!Load
  <2> QED
    BY <1>1, <2>1
    DEF PastInv, Past!TypeOK, Past!HistoryBounded, Past!EntriesBelongToProvider,
        Past!CursorNamesLocation, Past!NoAdjacentRepeats, Past!config
<1> QED
  BY <1>1, <1>2, <1>3

(* Back and Forward keep the entries, and the cursor among them.            *)
LEMMA PastStepHolds ==
    ASSUME PastInv, NEW loaded \in BOOLEAN,
           Past!HistoryBack(loaded) \/ Past!HistoryForward(loaded)
    PROVE  PastInv'
<1>1. PICK by \in {-1, 1} :
          /\ Past!Step(by, loaded)
          /\ history.current + by \in 0 .. Len(history.locations) - 1
  <2>1. /\ history.current \in -1 .. HistoryMax - 1
        /\ history.current < Len(history.locations)
        /\ Len(history.locations) \in Nat
    BY DEF PastInv, Past!TypeOK, Past!HistoryBounded, Past!Bounded, Past!Histories
  <2> QED
    BY <2>1, HistoryMaxIs
    DEF Past!HistoryBack, Past!HistoryForward, Past!CanGoBack, Past!CanGoForward
<1>2. /\ history' = Past!Moved(history, by)
      /\ location' = IF loaded THEN Past!Current(history') ELSE location
      /\ drifted' = IF loaded THEN FALSE ELSE Past!Current(history') # location
      /\ UNCHANGED <<attached, Past!config, squeezed>>
  BY <1>1, Zenon DEF Past!Step
<1>3. /\ history \in Past!Histories /\ Past!Bounded(history)
      /\ Past!AllBelongTo(history, attached)
      /\ location \in Past!Locations /\ location.provider = attached
  BY DEF PastInv, Past!TypeOK, Past!HistoryBounded, Past!EntriesBelongToProvider
<1>4. /\ history'.locations = history.locations
      /\ history'.current = history.current + by
      /\ history'.limit = history.limit
      /\ history' = [locations |-> history.locations,
                     current   |-> history.current + by,
                     limit     |-> history.limit]
  BY <1>2, <1>3 DEF Past!Moved, Past!Histories
<1>5. Len(history.locations) \in Nat /\ Len(history.locations) <= HistoryMax
  BY <1>3 DEF Past!Histories, Past!Bounded
<1>6. history.current + by \in -1 .. HistoryMax - 1
  BY <1>1, <1>5, HistoryMaxIs
<1>7. history' \in Past!Histories /\ Past!Bounded(history') /\ Past!HasCurrent(history')
  BY <1>1, <1>3, <1>4, <1>5, <1>6, HistoryMaxIs
  DEF Past!Histories, Past!Bounded, Past!HasCurrent
<1>8. /\ Past!AllBelongTo(history', attached)
      /\ Past!Current(history') \in Past!Locations
      /\ Past!Current(history').provider = attached
      /\ Past!NoRepeats(history) => Past!NoRepeats(history')
  BY <1>1, <1>3, <1>4, <1>5 DEF Past!AllBelongTo, Past!Current, Past!NoRepeats, Past!Histories
<1> QED
  BY <1>2, <1>3, <1>7, <1>8
  DEF PastInv, Past!TypeOK, Past!HistoryBounded, Past!EntriesBelongToProvider,
      Past!CursorNamesLocation, Past!NoAdjacentRepeats, Past!config

(* The history of a replacement pane starts empty.                          *)
LEMMA OpenReplacementHolds ==
    ASSUME PastInv, NEW l \in Past!Locations, Past!OpenReplacement(l)
    PROVE  PastInv'
<1>1. /\ attached' = l.provider /\ location' = l
      /\ history' = Past!Recorded(Past!EmptyHistory(0), l)
      /\ drifted' = ~history_enabled /\ squeezed' = FALSE
      /\ UNCHANGED Past!config
  BY Zenon DEF Past!OpenReplacement, Past!NewPaneHistory
<1>2. 0 \in 0 .. HistoryMax /\ l.provider \in Attachable
  BY HistoryMaxIs DEF Past!Locations
<1>3. CASE history_enabled
  <2>1. history' = Past!Push(Past!EmptyHistory(0), l)
    BY <1>1, <1>3 DEF Past!Recorded
  <2>2. /\ history' \in Past!Histories /\ Past!Bounded(history') /\ Past!HasCurrent(history')
        /\ Past!Current(history') = l /\ Past!AllBelongTo(history', l.provider)
        /\ Past!NoRepeats(history')
    BY <1>2, <2>1, EmptyHistoryIsSafe, PushIsSafe, PushKeepsNoRepeats
  <2> QED
    BY <1>1, <1>2, <1>3, <2>2
    DEF PastInv, Past!TypeOK, Past!HistoryBounded, Past!EntriesBelongToProvider,
        Past!CursorNamesLocation, Past!NoAdjacentRepeats, Past!config
<1>4. CASE ~history_enabled
  <2>1. history' = Past!EmptyHistory(0)
    BY <1>1, <1>4 DEF Past!Recorded
  <2>2. /\ history' \in Past!Histories /\ Past!Bounded(history')
        /\ Past!AllBelongTo(history', l.provider) /\ Past!NoRepeats(history')
    BY <1>2, <2>1, EmptyHistoryIsSafe
  <2> QED
    BY <1>1, <1>2, <1>4, <2>2
    DEF PastInv, Past!TypeOK, Past!HistoryBounded, Past!EntriesBelongToProvider,
        Past!CursorNamesLocation, Past!NoAdjacentRepeats, Past!config
<1> QED
  BY <1>3, <1>4

LEMMA ReloadConfigHolds ==
    ASSUME PastInv, NEW limit \in Limits, NEW enabled \in BOOLEAN,
           Past!ReloadConfig(limit, enabled)
    PROVE  PastInv'
<1>1. /\ history_enabled' = enabled /\ max_entries' = limit
      /\ history' = [history EXCEPT !.limit = limit]
      /\ UNCHANGED <<attached, location, drifted, squeezed>>
  BY DEF Past!ReloadConfig, Past!Relimited, Past!ghosts
<1>2. /\ history'.locations = history.locations
      /\ history'.current = history.current
      /\ history' \in Past!Histories
  BY <1>1, LimitsAre, HistoryMaxIs DEF PastInv, Past!TypeOK, Past!Histories
<1> QED
  BY <1>1, <1>2
  DEF PastInv, Past!TypeOK, Past!HistoryBounded, Past!Bounded, Past!EntriesBelongToProvider, Past!AllBelongTo,
      Past!CursorNamesLocation, Past!HasCurrent, Past!Current, Past!NoAdjacentRepeats, Past!NoRepeats

LEMMA PastStutterHolds ==
    ASSUME PastInv, NEW enabled \in BOOLEAN,
           Past!SetHistoryEnabled(enabled) \/ UNCHANGED Past!vars
    PROVE  PastInv'
<1>1. /\ UNCHANGED <<attached, location, history, max_entries, drifted, squeezed>>
      /\ history_enabled' \in BOOLEAN
  BY DEF Past!SetHistoryEnabled, Past!vars, Past!config, Past!ghosts, PastInv, Past!TypeOK
<1> QED
  BY <1>1
  DEF PastInv, Past!TypeOK, Past!HistoryBounded, Past!EntriesBelongToProvider,
      Past!CursorNamesLocation, Past!NoAdjacentRepeats

LEMMA PastNextHolds == PastInv /\ [Past!Next]_(Past!vars) => PastInv'
<1> SUFFICES ASSUME PastInv, [Past!Next]_(Past!vars) PROVE PastInv'
  OBVIOUS
<1>1. CASE \E l \in Past!Locations : Past!Load(l)
  BY <1>1, LoadHolds
<1>2. CASE \E l \in Past!Locations : Past!OpenReplacement(l)
  BY <1>2, OpenReplacementHolds
<1>3. CASE \E loaded \in BOOLEAN : Past!HistoryBack(loaded) \/ Past!HistoryForward(loaded)
  BY <1>3, PastStepHolds
<1>4. CASE \E limit \in Limits, enabled \in BOOLEAN : Past!ReloadConfig(limit, enabled)
  BY <1>4, ReloadConfigHolds
<1>5. CASE \E enabled \in BOOLEAN : Past!SetHistoryEnabled(enabled)
  BY <1>5, PastStutterHolds
<1>6. CASE UNCHANGED Past!vars
  BY <1>6, PastStutterHolds
<1> QED
  BY <1>1, <1>2, <1>3, <1>4, <1>5, <1>6, Zenon DEF Past!Next

(* Every reachable state of a pane satisfies the inductive invariant.       *)
THEOREM PastInvHolds == Past!Spec => []PastInv
  BY PastInitHolds, PastNextHolds, PTL DEF Past!Spec

(* The variables keep their types.                                          *)
THEOREM PastTypeCorrect == Past!Spec => []Past!TypeOK
<1>1. PastInv => Past!TypeOK
  BY DEF PastInv
<1> QED
  BY <1>1, PastInvHolds, PTL

(* The history array is never overrun and the cursor stays inside it.       *)
THEOREM HistoryStaysBounded == Past!Spec => []Past!HistoryBounded
<1>1. PastInv => Past!HistoryBounded
  BY DEF PastInv
<1> QED
  BY <1>1, PastInvHolds, PTL

(* No entry outlives the provider it belongs to.                            *)
THEOREM NoForeignEntries == Past!Spec => []EntriesBelongToProvider
<1>1. PastInv => Past!EntriesBelongToProvider
  BY DEF PastInv
<1> QED
  BY <1>1, PastInvHolds, PTL DEF EntriesBelongToProvider

(* The cursor names what the pane lists, unless a listing failed or went    *)
(* unrecorded.                                                              *)
THEOREM CursorIsAccurate == Past!Spec => []CursorNamesLocation
<1>1. PastInv => Past!CursorNamesLocation
  BY DEF PastInv
<1> QED
  BY <1>1, PastInvHolds, PTL DEF CursorNamesLocation

(* Within its limit, the history never repeats a location in a row.         *)
THEOREM NoRepeatsInARow == Past!Spec => []Past!NoAdjacentRepeats
<1>1. PastInv => Past!NoAdjacentRepeats
  BY DEF PastInv
<1> QED
  BY <1>1, PastInvHolds, PTL

(* A recorded visit keeps the way back to where it came from.               *)
THEOREM WayBackIsKept == Past!Spec => VisitKeepsWayBack
<1> DEFINE Kept1(l) ==
           /\ Past!Load(l) /\ history_enabled /\ l # location
           /\ ~drifted
           /\ Past!EffectiveLimit(history) >= Len(history.locations)
           /\ Past!EffectiveLimit(history) >= 2
           => /\ ~Past!CanGoForward(history')
              /\ Past!CanGoBack(history')
              /\ history'.locations[history'.current] = location
<1>1. ASSUME PastInv, NEW l \in Past!Locations PROVE Kept1(l)
  <2> SUFFICES ASSUME Past!Load(l), history_enabled, l # location, ~drifted,
                      Past!EffectiveLimit(history) >= Len(history.locations),
                      Past!EffectiveLimit(history) >= 2
               PROVE  /\ ~Past!CanGoForward(history')
                      /\ Past!CanGoBack(history')
                      /\ history'.locations[history'.current] = location
    OBVIOUS
  <2>1. /\ history \in Past!Histories /\ Past!Bounded(history)
        /\ Past!HasCurrent(history) /\ Past!Current(history) = location
    BY <1>1 DEF PastInv, Past!TypeOK, Past!HistoryBounded, Past!CursorNamesLocation
  <2>2. history' = Past!Push(history, l)
    BY DEF Past!Load
  <2> QED
    BY <2>1, <2>2, PushKeepsWayBack
<1>2. PastInv => [\A l \in Past!Locations : Kept1(l)]_(Past!vars)
  BY <1>1
<1> QED
  BY <1>2, PastInvHolds, PTL DEF VisitKeepsWayBack, Past!VisitKeepsWayBack

----------------------------------------------------------------------------
(* The list: sets in the order of a rank *)

\* The module of the list counts as this one does.
LEMMA SortedDef ==
    \A S, rank : List!Sorted(S, rank) =
        [i \in 1 .. Cardinality(S) |->
           CHOOSE e \in S : Cardinality({x \in S : rank[x] <= rank[e]}) = i]
  BY DEF List!Sorted, List!Cardinality, Cardinality

LEMMA CountDef == \A p : List!Count(p) = Cardinality(List!Matching(p))
  BY DEF List!Count, List!Cardinality, Cardinality

LEMMA FiniteEntries == List!ConstantsAssumption => IsFiniteSet(Entries)
  BY DEF List!ConstantsAssumption, List!IsFiniteSet, IsFiniteSet

\* The members of a finite set by their rank: each of them once, upwards.
LEMMA SortedIs ==
    ASSUME NEW S, IsFiniteSet(S), NEW rank,
           \A a \in S : rank[a] \in Int,
           \A a, b \in S : rank[a] = rank[b] => a = b
    PROVE  /\ Cardinality(S) \in Nat
           /\ List!Sorted(S, rank) \in [1 .. Cardinality(S) -> S]
           /\ \A e \in S : \E i \in 1 .. Cardinality(S) : List!Sorted(S, rank)[i] = e
           /\ \A i, j \in 1 .. Cardinality(S) :
                i < j => rank[List!Sorted(S, rank)[i]] < rank[List!Sorted(S, rank)[j]]
<1> DEFINE n == Cardinality(S)
           Below(e) == {x \in S : rank[x] <= rank[e]}
           place == [e \in S |-> Cardinality(Below(e))]
<1>1. n \in Nat
  BY FS_CardinalityType
<1>2. \A e \in S : IsFiniteSet(Below(e)) /\ Cardinality(Below(e)) \in 1 .. n
  <2> TAKE e \in S
  <2>1. IsFiniteSet(Below(e)) /\ Cardinality(Below(e)) <= n
    BY FS_Subset
  <2>2. Below(e) # {}
    OBVIOUS
  <2> HIDE DEF Below
  <2>3. Cardinality(Below(e)) \in Nat /\ Cardinality(Below(e)) # 0
    BY <2>1, <2>2, FS_CardinalityType, FS_EmptySet
  <2> QED BY <2>1, <2>3, <1>1
<1>3. \A a, b \in S : rank[a] < rank[b] => Cardinality(Below(a)) < Cardinality(Below(b))
  <2> SUFFICES ASSUME NEW a \in S, NEW b \in S, rank[a] < rank[b]
               PROVE  Cardinality(Below(a)) < Cardinality(Below(b))
    OBVIOUS
  <2>1. Below(a) \in SUBSET Below(b) /\ b \in Below(b) /\ b \notin Below(a)
    OBVIOUS
  <2>2. /\ Cardinality(Below(a)) <= Cardinality(Below(b))
        /\ Cardinality(Below(b)) = Cardinality(Below(a)) => Below(b) = Below(a)
    BY <1>2, <2>1, FS_Subset
  <2> HIDE DEF Below
  <2> QED BY <1>1, <1>2, <2>1, <2>2
<1>4. /\ place \in [S -> 1 .. n]
      /\ \A a, b \in S : rank[a] < rank[b] => place[a] < place[b]
      /\ \A e \in S : place[e] = Cardinality(Below(e))
  BY <1>2, <1>3
<1> HIDE DEF place
<1>5. \A a, b \in S : place[a] = place[b] => a = b
  <2> SUFFICES ASSUME NEW a \in S, NEW b \in S, a # b
               PROVE  place[a] # place[b]
    OBVIOUS
  <2>1. rank[a] < rank[b] \/ rank[b] < rank[a]
    OBVIOUS
  <2>2. place[a] \in Int /\ place[b] \in Int
    BY <1>1, <1>4
  <2> QED BY <2>1, <2>2, <1>4
<1>6. \A i \in 1 .. n : \E e \in S : place[e] = i
  <2>1. place \in Injection(S, 1 .. n)
    BY <1>4, <1>5 DEF Injection, IsInjective
  <2>2. IsFiniteSet(1 .. n) /\ Cardinality(1 .. n) = n
    BY <1>1, FS_Interval
  <2>3. place \in Surjection(S, 1 .. n)
    BY <2>1, <2>2, FS_Injection
  <2> QED BY <2>3 DEF Surjection
<1>7. \A i \in 1 .. n : List!Sorted(S, rank)[i] \in S /\ place[List!Sorted(S, rank)[i]] = i
  <2>1. \A i \in 1 .. n : List!Sorted(S, rank)[i] = CHOOSE e \in S : Cardinality(Below(e)) = i
    BY SortedDef, Zenon
  <2> HIDE DEF Below, n
  <2>2. \A i \in 1 .. n : \E e \in S : Cardinality(Below(e)) = i
    BY <1>4, <1>6, Zenon
  <2> QED BY <2>1, <2>2, <1>4, Zenon
<1>8. List!Sorted(S, rank) \in [1 .. n -> S]
  BY <1>7, SortedDef
<1>9. \A e \in S : \E i \in 1 .. n : List!Sorted(S, rank)[i] = e
  <2> TAKE e \in S
  <2>1. place[e] \in 1 .. n
    BY <1>4
  <2>2. List!Sorted(S, rank)[place[e]] = e
    BY <2>1, <1>5, <1>7
  <2> QED BY <2>1, <2>2
<1>10. \A i, j \in 1 .. n : i < j => rank[List!Sorted(S, rank)[i]] < rank[List!Sorted(S, rank)[j]]
  <2> SUFFICES ASSUME NEW i \in 1 .. n, NEW j \in 1 .. n, i < j
               PROVE  rank[List!Sorted(S, rank)[i]] < rank[List!Sorted(S, rank)[j]]
    OBVIOUS
  <2> DEFINE a == List!Sorted(S, rank)[i]
             b == List!Sorted(S, rank)[j]
  <2>1. a \in S /\ b \in S /\ place[a] = i /\ place[b] = j
    BY <1>7
  <2> HIDE DEF a, b
  <2>2. ~(rank[b] < rank[a]) /\ a # b
    BY <2>1, <1>4, <1>1
  <2>3. rank[a] < rank[b]
    BY <2>1, <2>2
  <2> QED BY <2>3 DEF a, b
<1> QED BY <1>1, <1>8, <1>9, <1>10

----------------------------------------------------------------------------
(* A pane and its list *)

PaneType ==
    [items : Seq(Entries), selected : Int, offset : Int, filter : DOMAIN Filters,
     order : DOMAIN Orders, view : List!Views, rows : Nat \ {0}, columns : Nat \ {0}]

\* What is shown depends on the items and the filter.
LEMMA ShownOf ==
    ASSUME NEW p, NEW q, q.items = p.items, q.filter = p.filter
    PROVE  List!Shown(q) = List!Shown(p) /\ List!Count(q) = List!Count(p) /\ List!Matching(q) = List!Matching(p)
  BY DEF List!Shown, List!Count, List!Matching

\* What is shown are the items that match.
LEMMA ShownIs ==
    ASSUME NEW p \in PaneType
    PROVE  /\ List!Count(p) \in Nat
           /\ List!Shown(p) \in [1 .. List!Count(p) -> Entries]
           /\ List!Range(List!Shown(p)) = List!Range(p.items) \cap Filters[p.filter]
<1> DEFINE match == List!Matching(p)
           at == List!Sorted(match, [i \in match |-> i])
<1>1. p.items \in Seq(Entries)
  BY DEF PaneType
<1>2. match \subseteq 1 .. Len(p.items) /\ Len(p.items) \in Nat
  BY <1>1 DEF List!Matching
<1>3. IsFiniteSet(match)
  <2>1. IsFiniteSet(1 .. Len(p.items))
    BY <1>2, FS_Interval
  <2> QED BY <2>1, <1>2, FS_Subset
<1>4. \A i \in match : [j \in match |-> j][i] = i /\ i \in Int
  BY <1>2
<1>5. /\ Cardinality(match) \in Nat
      /\ at \in [1 .. Cardinality(match) -> match]
      /\ \A i \in match : \E n \in 1 .. Cardinality(match) : at[n] = i
  <2> DEFINE id == [j \in match |-> j]
  <2>1. /\ \A a \in match : id[a] \in Int
        /\ \A a, b \in match : id[a] = id[b] => a = b
    BY <1>4
  <2> HIDE DEF id
  <2>2. /\ Cardinality(match) \in Nat
        /\ List!Sorted(match, id) \in [1 .. Cardinality(match) -> match]
        /\ \A i \in match : \E n \in 1 .. Cardinality(match) : List!Sorted(match, id)[n] = i
    BY <2>1, <1>3, SortedIs
  <2> QED BY <2>2 DEF id
<1>6. List!Shown(p) = [n \in 1 .. List!Count(p) |-> p.items[at[n]]] /\ List!Count(p) = Cardinality(match)
  BY CountDef DEF List!Shown
<1>7. \A i \in match : p.items[i] \in Entries /\ p.items[i] \in List!Range(p.items) \cap Filters[p.filter]
  BY <1>1, <1>2 DEF List!Matching, List!Range
<1>8. \A e \in List!Range(p.items) \cap Filters[p.filter] : \E i \in match : p.items[i] = e
  BY DEF List!Matching, List!Range
<1> HIDE DEF at, match
<1>9. List!Shown(p) \in [1 .. List!Count(p) -> Entries]
  BY <1>5, <1>6, <1>7
<1>10. List!Range(List!Shown(p)) \subseteq List!Range(p.items) \cap Filters[p.filter]
  BY <1>5, <1>6, <1>7, <1>9 DEF List!Range
<1>11. \A e \in List!Range(p.items) \cap Filters[p.filter] : e \in List!Range(List!Shown(p))
  <2> TAKE e \in List!Range(p.items) \cap Filters[p.filter]
  <2>1. PICK i \in match : p.items[i] = e
    BY <1>8
  <2>2. PICK n \in 1 .. List!Count(p) : at[n] = i
    BY <1>5, <1>6
  <2>3. List!Shown(p)[n] = e
    BY <2>1, <2>2, <1>6
  <2> QED BY <2>2, <2>3, <1>9 DEF List!Range
<1> QED BY <1>5, <1>6, <1>9, <1>10, <1>11

\* The entry under the cursor, if there is one, is shown.
LEMMA SelectedIs ==
    ASSUME List!ConstantsAssumption, NEW p \in PaneType
    PROVE  /\ List!SelectedIn(p) # None <=> p.selected \in 0 .. List!Count(p) - 1
           /\ List!SelectedIn(p) # None => List!SelectedIn(p) \in List!Range(List!Shown(p))
           /\ None \notin List!Range(List!Shown(p))
<1>1. List!Count(p) \in Nat /\ List!Shown(p) \in [1 .. List!Count(p) -> Entries] /\ p.selected \in Int
  BY ShownIs DEF PaneType
<1>2. None \notin Entries
  BY DEF List!ConstantsAssumption
<1>3. None \notin List!Range(List!Shown(p))
  BY <1>1, <1>2 DEF List!Range
<1>4. CASE p.selected \in 0 .. List!Count(p) - 1
  <2>1. p.selected + 1 \in 1 .. List!Count(p) /\ List!SelectedIn(p) = List!Shown(p)[p.selected + 1]
    BY <1>1, <1>4 DEF List!SelectedIn
  <2>2. List!Shown(p)[p.selected + 1] \in List!Range(List!Shown(p))
    BY <2>1, <1>1 DEF List!Range
  <2> QED BY <2>1, <2>2, <1>3, <1>4
<1>5. CASE p.selected \notin 0 .. List!Count(p) - 1
  BY <1>3, <1>5 DEF List!SelectedIn
<1> QED BY <1>4, <1>5

----------------------------------------------------------------------------
(* The cursor and the first row *)

\* What moves the cursor and the first row leaves the rest of the pane.
SameButCursor(p, q) ==
    /\ q.items = p.items /\ q.filter = p.filter /\ q.order = p.order
    /\ q.view = p.view /\ q.rows = p.rows /\ q.columns = p.columns

\* A cursor on an entry stays on it.
Stays(p, q) == p.selected \in 0 .. List!Count(p) - 1 => q.selected = p.selected

OnScreen(p) ==
    List!Count(p) > 0 => /\ p.selected \in 0 .. List!Count(p) - 1
                         /\ p.selected \in p.offset .. p.offset + List!Capacity(p) - 1

LEMMA CursorSet ==
    ASSUME NEW p \in PaneType, NEW s \in Int, NEW o \in Int
    PROVE  LET q == [p EXCEPT !.selected = s, !.offset = o]
           IN q \in PaneType /\ SameButCursor(p, q) /\ q.selected = s /\ q.offset = o
  BY DEF PaneType, SameButCursor

LEMMA ClampIs ==
    ASSUME NEW p \in PaneType
    PROVE  /\ List!Clamp(p) \in PaneType
           /\ SameButCursor(p, List!Clamp(p)) /\ Stays(p, List!Clamp(p))
           /\ List!Count(p) > 0 => /\ List!Clamp(p).selected \in 0 .. List!Count(p) - 1
                                   /\ List!Clamp(p).offset \in 0 .. List!Count(p) - 1
<1>1. List!Count(p) \in Nat
  BY ShownIs
<1>2. CASE List!Count(p) = 0
  <2>1. List!Clamp(p) = [p EXCEPT !.selected = 0, !.offset = 0]
    BY <1>2 DEF List!Clamp
  <2> DEFINE q == [p EXCEPT !.selected = 0, !.offset = 0]
  <2>2. q \in PaneType /\ SameButCursor(p, q)
    <3>1. 0 \in Int
      OBVIOUS
    <3> QED BY <3>1, CursorSet
  <2>3. List!Clamp(p) = q
    BY <2>1
  <2> HIDE DEF q
  <2> QED BY <2>2, <2>3, <1>2 DEF Stays
<1>3. CASE List!Count(p) > 0
  <2> DEFINE s == List!Within(p.selected, 0, List!Count(p) - 1)
             o == List!Within(p.offset, 0, List!Count(p) - 1)
  <2>1. List!Clamp(p) = [p EXCEPT !.selected = s, !.offset = o]
    BY <1>3 DEF List!Clamp
  <2>2. s \in 0 .. List!Count(p) - 1 /\ o \in 0 .. List!Count(p) - 1
    BY <1>1, <1>3 DEF List!Within, PaneType
  <2>3. p.selected \in 0 .. List!Count(p) - 1 => s = p.selected
    BY <1>1, <1>3 DEF List!Within, PaneType
  <2> HIDE DEF s, o
  <2> DEFINE q == [p EXCEPT !.selected = s, !.offset = o]
  <2>4. s \in Int /\ o \in Int
    BY <2>2, <1>1
  <2>5. q \in PaneType /\ SameButCursor(p, q) /\ q.selected = s /\ q.offset = o
    BY <2>4 DEF PaneType, SameButCursor
  <2>6. List!Clamp(p) = q
    BY <2>1
  <2> HIDE DEF q
  <2> QED BY <2>2, <2>3, <2>5, <2>6 DEF Stays
<1> QED BY <1>1, <1>2, <1>3

LEMMA Division ==
    ASSUME NEW a \in Nat, NEW b \in Nat \ {0}
    PROVE  /\ a \div b \in Nat
           /\ (a \div b) * b <= a
           /\ a < (a \div b) * b + b
  OBVIOUS

LEMMA Distribution ==
    ASSUME NEW a \in Nat, NEW b \in Nat, NEW r \in Nat
    PROVE  (a + b) * r = a * r + r * b
  OBVIOUS

\* The column of the cursor is one of those shown, for every number of
\* entries, rows and columns.
LEMMA CursorColumn ==
    ASSUME NEW p \in PaneType, NEW n \in Nat \ {0}, List!Count(p) = n,
           p.selected \in 0 .. n - 1, p.offset \in 0 .. n - 1
    PROVE  /\ List!FirstColumn(p) \in Nat
           /\ List!FirstColumn(p) <= p.selected \div p.rows
           /\ p.selected \div p.rows < List!FirstColumn(p) + p.columns
<1> DEFINE r == p.rows
           c == p.columns
           total == (n + r - 1) \div r
           most == IF total > c THEN total - c ELSE 0
           first == p.offset \div r
           cursor == p.selected \div r
           wanted == IF cursor < first THEN cursor
                     ELSE IF cursor >= first + c THEN cursor - c + 1 ELSE first
<1>1. r \in Nat \ {0} /\ c \in Nat \ {0} /\ p.selected \in Nat /\ p.offset \in Nat
  BY DEF PaneType
<1>2. List!FirstColumn(p) = List!Within(wanted, 0, most)
  BY DEF List!FirstColumn
<1>3. /\ first \in Nat
      /\ cursor \in Nat /\ cursor * r <= p.selected
  BY <1>1, Division
<1>4. total \in Nat /\ n + r - 1 < total * r + r
  <2>1. n + r - 1 \in Nat
    BY <1>1
  <2> QED BY <2>1, <1>1, Division
<1> HIDE DEF total, first, cursor, r, c
<1>5. cursor < total
  <2>1. cursor * r < total * r
    BY <1>1, <1>3, <1>4 DEF r
  <2>2. total <= cursor => total * r <= cursor * r
    BY <1>1, <1>3, <1>4
  <2>3. cursor * r \in Int /\ total * r \in Int
    BY <1>1, <1>3, <1>4
  <2> QED BY <2>1, <2>2, <2>3, <1>3, <1>4
<1>6. /\ wanted \in Nat /\ wanted <= cursor /\ cursor < wanted + c
      /\ most \in Nat /\ total <= most + c
  BY <1>1, <1>3, <1>4
<1> HIDE DEF wanted, most
<1>7. /\ List!Within(wanted, 0, most) \in Nat
      /\ List!Within(wanted, 0, most) <= cursor
      /\ cursor < List!Within(wanted, 0, most) + c
  BY <1>1, <1>3, <1>4, <1>5, <1>6 DEF List!Within
<1> QED BY <1>2, <1>7 DEF cursor, r, c

\* nav_pane_ensure_visible brings the cursor on the screen, and leaves it where
\* it is if it is on an entry.
LEMMA EnsureVisibleIs ==
    ASSUME NEW p \in PaneType
    PROVE  /\ List!EnsureVisible(p) \in PaneType
           /\ SameButCursor(p, List!EnsureVisible(p)) /\ Stays(p, List!EnsureVisible(p))
           /\ OnScreen(List!EnsureVisible(p))
<1> DEFINE q == List!Clamp(p)
           e == List!EnsureVisible(p)
<1>1. /\ q \in PaneType /\ SameButCursor(p, q) /\ Stays(p, q)
      /\ List!Count(p) > 0 => q.selected \in 0 .. List!Count(p) - 1 /\ q.offset \in 0 .. List!Count(p) - 1
  BY ClampIs
<1>2. List!Count(p) \in Nat /\ List!Count(q) = List!Count(p)
  BY <1>1, ShownIs, ShownOf DEF SameButCursor
<1> DEFINE offset == IF q.view = "brief" THEN List!FirstColumn(q) * q.rows
                     ELSE IF q.selected < q.offset THEN q.selected
                     ELSE IF q.selected >= q.offset + List!Capacity(q) THEN q.selected - List!Capacity(q) + 1
                     ELSE q.offset
<1>3. CASE List!Count(p) = 0
  <2>1. e = q
    BY <1>2, <1>3 DEF List!EnsureVisible
  <2> QED BY <2>1, <1>1, <1>2, <1>3 DEF OnScreen
<1>4. CASE List!Count(p) > 0
  <2>1. e = [q EXCEPT !.offset = offset]
    BY <1>2, <1>4 DEF List!EnsureVisible
  <2>2. q.rows \in Nat \ {0} /\ q.columns \in Nat \ {0} /\ q.selected \in 0 .. List!Count(p) - 1
        /\ q.offset \in 0 .. List!Count(p) - 1
    BY <1>1, <1>4 DEF PaneType
  <2>3. offset \in Int /\ q.selected \in offset .. offset + List!Capacity(q) - 1
    <3>1. CASE q.view = "brief"
      <4> DEFINE f == List!FirstColumn(q)
                 c == q.selected \div q.rows
      <4>1. f \in Nat /\ f <= c /\ c < f + q.columns
        BY <1>1, <1>2, <1>4, <2>2, CursorColumn
      <4>2. c \in Nat /\ c * q.rows <= q.selected /\ q.selected < c * q.rows + q.rows
        <5>1. q.selected \in Nat /\ q.rows \in Nat \ {0}
          BY <1>2, <2>2
        <5> QED BY <5>1, Division
      <4>3. offset = f * q.rows /\ List!Capacity(q) = q.rows * q.columns
        BY <3>1 DEF List!Capacity
      <4> HIDE DEF f, c, offset
      <4>4. f * q.rows <= c * q.rows
        BY <4>1, <4>2, <2>2
      <4>5. (c + 1) * q.rows <= (f + q.columns) * q.rows
        BY <4>1, <4>2, <2>2
      <4>6. /\ (c + 1) * q.rows = c * q.rows + q.rows
            /\ (f + q.columns) * q.rows = f * q.rows + q.rows * q.columns
        <5>1. q.rows \in Nat /\ q.columns \in Nat /\ 1 \in Nat /\ q.rows * 1 = q.rows
          BY <2>2
        <5> QED BY <5>1, <4>1, <4>2, Distribution
      <4>7. f * q.rows \in Int /\ c * q.rows \in Int /\ q.rows * q.columns \in Int /\ q.selected \in Int
        BY <4>1, <4>2, <2>2, <1>2
      <4> QED BY <4>2, <4>3, <4>4, <4>5, <4>6, <4>7, <2>2
    <3>2. CASE q.view # "brief"
      <4>1. List!Capacity(q) = q.rows
        BY <3>2, <2>2 DEF List!Capacity
      <4> QED BY <3>2, <4>1, <2>2, <1>2
    <3> QED BY <3>1, <3>2
  <2> HIDE DEF offset
  <2>4. /\ e \in PaneType /\ SameButCursor(q, e) /\ e.selected = q.selected /\ e.offset = offset
    BY <2>1, <2>3, <1>1 DEF PaneType, SameButCursor
  <2>5. List!Capacity(e) = List!Capacity(q)
    BY <2>4 DEF List!Capacity, SameButCursor
  <2>6. List!Count(e) = List!Count(p)
    BY <2>4, <1>2, ShownOf DEF SameButCursor
  <2>7. OnScreen(e)
    BY <2>2, <2>3, <2>4, <2>5, <2>6 DEF OnScreen
  <2> QED BY <2>4, <2>7, <1>1 DEF SameButCursor, Stays
<1> QED BY <1>2, <1>3, <1>4

----------------------------------------------------------------------------
(* The entry of the cursor *)

\* The cursor is on the same entry as before if that is still shown.
Keeps(p, q) == List!SelectedIn(p) \in List!Range(List!Shown(q)) => List!SelectedIn(q) = List!SelectedIn(p)

\* The same entries, in whatever order.
SameEntries(p, q) == List!Range(q.items) = List!Range(p.items) /\ q.filter = p.filter

LEMMA SameShown ==
    ASSUME NEW p \in PaneType, NEW q \in PaneType, SameEntries(p, q)
    PROVE  List!Range(List!Shown(q)) = List!Range(List!Shown(p))
  BY ShownIs DEF SameEntries

LEMMA SameMeansSameEntries ==
    ASSUME NEW p, NEW q, SameButCursor(p, q)
    PROVE  SameEntries(p, q)
  BY DEF SameButCursor, SameEntries

\* Two steps keep the entry if one of them shows the same entries.
LEMMA KeepsOn ==
    ASSUME List!ConstantsAssumption, NEW p \in PaneType, NEW q \in PaneType, NEW r \in PaneType,
           Keeps(p, q), Keeps(q, r), SameEntries(p, q) \/ SameEntries(q, r)
    PROVE  Keeps(p, r)
<1> SUFFICES ASSUME List!SelectedIn(p) \in List!Range(List!Shown(r))
             PROVE  List!SelectedIn(r) = List!SelectedIn(p)
  BY DEF Keeps
<1>1. List!SelectedIn(p) \in List!Range(List!Shown(p))
  BY SelectedIs
<1>2. List!SelectedIn(p) \in List!Range(List!Shown(q))
  BY <1>1, SameShown
<1> QED BY <1>2 DEF Keeps

LEMMA StaysKeeps ==
    ASSUME List!ConstantsAssumption, NEW p \in PaneType, NEW q \in PaneType,
           q.items = p.items, q.filter = p.filter, Stays(p, q)
    PROVE  Keeps(p, q)
<1> SUFFICES ASSUME List!SelectedIn(p) \in List!Range(List!Shown(q))
             PROVE  List!SelectedIn(q) = List!SelectedIn(p)
  BY DEF Keeps
<1>1. List!Shown(q) = List!Shown(p) /\ List!Count(q) = List!Count(p)
  BY ShownOf
<1>2. p.selected \in 0 .. List!Count(p) - 1
  BY SelectedIs
<1> QED BY <1>1, <1>2 DEF Stays, List!SelectedIn

LEMMA VisibleKeeps ==
    ASSUME List!ConstantsAssumption, NEW p \in PaneType
    PROVE  /\ Keeps(p, List!EnsureVisible(p))
           /\ Keeps(p, List!Clamp(p))
<1>1. Keeps(p, List!EnsureVisible(p))
  BY EnsureVisibleIs, StaysKeeps DEF SameButCursor
<1>2. Keeps(p, List!Clamp(p))
  BY ClampIs, StaysKeeps DEF SameButCursor
<1> QED BY <1>1, <1>2

LEMMA SelectIs ==
    ASSUME List!ConstantsAssumption, NEW p \in PaneType, NEW e
    PROVE  /\ List!Select(p, e) \in PaneType
           /\ SameButCursor(p, List!Select(p, e))
           /\ e \in List!Range(List!Shown(p)) => List!SelectedIn(List!Select(p, e)) = e
           /\ e \notin List!Range(List!Shown(p)) => List!Select(p, e) = p
<1> DEFINE at == {i \in 1 .. List!Count(p) : List!Shown(p)[i] = e}
<1>1. List!Count(p) \in Nat /\ List!Shown(p) \in [1 .. List!Count(p) -> Entries]
  BY ShownIs
<1>2. at # {} <=> e \in List!Range(List!Shown(p))
  BY <1>1 DEF List!Range
<1>3. CASE at = {}
  <2>1. List!Select(p, e) = p
    BY <1>3 DEF List!Select
  <2> QED BY <2>1, <1>2, <1>3 DEF SameButCursor
<1>4. CASE at # {}
  <2> DEFINE i == CHOOSE i \in at : TRUE
             q == [p EXCEPT !.selected = i - 1]
  <2>1. List!Select(p, e) = q
    BY <1>4 DEF List!Select
  <2>2. i \in 1 .. List!Count(p) /\ List!Shown(p)[i] = e
    BY <1>4
  <2> HIDE DEF i
  <2>3. q \in PaneType /\ SameButCursor(p, q) /\ q.selected = i - 1
    <3>1. i - 1 \in Int
      BY <2>2, <1>1
    <3> QED BY <3>1 DEF PaneType, SameButCursor
  <2> HIDE DEF q
  <2>4. List!Shown(q) = List!Shown(p) /\ List!Count(q) = List!Count(p)
    BY <2>3, ShownOf DEF SameButCursor
  <2>5. q.selected \in 0 .. List!Count(q) - 1 /\ q.selected + 1 = i
    BY <2>2, <2>3, <2>4, <1>1
  <2>6. List!SelectedIn(q) = e
    BY <2>2, <2>4, <2>5 DEF List!SelectedIn
  <2> QED BY <2>1, <2>3, <2>6, <1>2, <1>4
<1> QED BY <1>3, <1>4

----------------------------------------------------------------------------
(* Sorting and listing *)

\* The list is in the order of the pane.
InOrder(p) ==
    \A i \in 1 .. Len(p.items) - 1 :
      Orders[p.order][p.items[i]] < Orders[p.order][p.items[i + 1]]

LEMMA EntriesSorted ==
    ASSUME List!ConstantsAssumption, NEW S \in SUBSET Entries, NEW rank \in List!Range(Orders) \cup Given
    PROVE  /\ List!Sorted(S, rank) \in Seq(Entries)
           /\ List!Range(List!Sorted(S, rank)) = S
           /\ \A i \in 1 .. Len(List!Sorted(S, rank)) - 1 :
                rank[List!Sorted(S, rank)[i]] < rank[List!Sorted(S, rank)[i + 1]]
<1>1. IsFiniteSet(S)
  BY FS_Subset, FiniteEntries
<1>2. /\ \A a \in S : rank[a] \in Int
      /\ \A a, b \in S : rank[a] = rank[b] => a = b
  BY DEF List!ConstantsAssumption
<1> DEFINE n == Cardinality(S)
           s == List!Sorted(S, rank)
<1>3. /\ n \in Nat /\ s \in [1 .. n -> S]
      /\ \A e \in S : \E i \in 1 .. n : s[i] = e
      /\ \A i, j \in 1 .. n : i < j => rank[s[i]] < rank[s[j]]
  BY <1>1, <1>2, SortedIs
<1> HIDE DEF n, s
<1>4. s \in Seq(Entries) /\ Len(s) = n
  BY <1>3
<1>5. List!Range(s) = S
  BY <1>3 DEF List!Range
<1>6. \A i \in 1 .. Len(s) - 1 : rank[s[i]] < rank[s[i + 1]]
  <2> TAKE i \in 1 .. Len(s) - 1
  <2>1. i \in 1 .. n /\ i + 1 \in 1 .. n /\ i < i + 1
    BY <1>3, <1>4
  <2> QED BY <2>1, <1>3
<1> QED BY <1>4, <1>5, <1>6 DEF s

LEMMA SortIs ==
    ASSUME List!ConstantsAssumption, NEW p \in PaneType, NEW order \in DOMAIN Orders
    PROVE  /\ List!Sort(p, order) \in PaneType
           /\ List!Sort(p, order).items = List!Sorted(List!Range(p.items), Orders[order])
           /\ List!Sort(p, order).order = order
           /\ List!Sort(p, order).view = p.view
           /\ List!Sort(p, order).rows = p.rows
           /\ List!Sort(p, order).columns = p.columns
           /\ InOrder(List!Sort(p, order))
           /\ SameEntries(p, List!Sort(p, order))
           /\ Keeps(p, List!Sort(p, order))
<1> DEFINE items == List!Sorted(List!Range(p.items), Orders[order])
           q == [p EXCEPT !.order = order, !.selected = 0, !.items = items]
           r == List!Select(q, List!SelectedIn(p))
           s == List!Clamp(r)
<1>1. List!Range(p.items) \in SUBSET Entries
  BY DEF PaneType, List!Range
<1>2. Orders[order] \in List!Range(Orders)
  BY DEF List!Range
<1>3. /\ items \in Seq(Entries) /\ List!Range(items) = List!Range(p.items)
      /\ \A i \in 1 .. Len(items) - 1 : Orders[order][items[i]] < Orders[order][items[i + 1]]
  BY <1>1, <1>2, EntriesSorted
<1> HIDE DEF items
<1>4. /\ q \in PaneType /\ q.items = items /\ q.order = order /\ q.filter = p.filter
      /\ q.view = p.view /\ q.rows = p.rows /\ q.columns = p.columns
  <2>1. 0 \in Int /\ items \in Seq(Entries) /\ order \in DOMAIN Orders
    BY <1>3
  <2> QED BY <2>1 DEF PaneType
<1> HIDE DEF q
<1>5. /\ r \in PaneType /\ SameButCursor(q, r)
      /\ List!SelectedIn(p) \in List!Range(List!Shown(q)) => List!SelectedIn(r) = List!SelectedIn(p)
  BY <1>4, SelectIs
<1> HIDE DEF r
<1>6. s \in PaneType /\ SameButCursor(r, s) /\ Keeps(r, s)
  BY <1>5, ClampIs, VisibleKeeps
<1>7. List!Sort(p, order) = s
  BY DEF List!Sort, items, q, r, s
<1> HIDE DEF s
<1>8. SameButCursor(q, s)
  BY <1>5, <1>6 DEF SameButCursor
<1>9. InOrder(s)
  BY <1>3, <1>4, <1>8 DEF InOrder, SameButCursor
<1>10. SameEntries(p, s)
  BY <1>3, <1>4, <1>8 DEF SameButCursor, SameEntries
<1>11. Keeps(p, s)
  <2>1. List!Range(List!Shown(s)) = List!Range(List!Shown(r)) /\ List!Range(List!Shown(r)) = List!Range(List!Shown(q))
    BY <1>4, <1>5, <1>6, SameShown, SameMeansSameEntries
  <2> QED BY <2>1, <1>5, <1>6 DEF Keeps
<1> QED BY <1>4, <1>6, <1>7, <1>8, <1>9, <1>10, <1>11 DEF SameButCursor, items

\* A listing holds what the directory does, hidden files or not.
LEMMA ListedIs ==
    ASSUME List!ConstantsAssumption, NEW d \in SUBSET Entries, NEW hidden, NEW rows \in List!Lists(d, hidden)
    PROVE  rows \in Seq(Entries) /\ List!Range(rows) = {e \in d : hidden \/ e \notin Dotted}
<1>1. PICK rank \in Given : rows = List!Sorted({e \in d : hidden \/ e \notin Dotted}, rank)
  BY DEF List!Lists
<1>2. {e \in d : hidden \/ e \notin Dotted} \in SUBSET Entries
  OBVIOUS
<1> QED BY <1>1, <1>2, EntriesSorted

\* What reading the list leaves of the pane.
SameFields(p, q) ==
    /\ q.filter = p.filter /\ q.order = p.order /\ q.view = p.view
    /\ q.rows = p.rows /\ q.columns = p.columns

LEMMA RefreshedIs ==
    ASSUME List!ConstantsAssumption, NEW p \in PaneType, NEW rows \in Seq(Entries)
    PROVE  /\ List!Refreshed(p, rows) \in PaneType
           /\ SameFields(p, List!Refreshed(p, rows))
           /\ InOrder(List!Refreshed(p, rows))
           /\ List!Range(List!Refreshed(p, rows).items) = List!Range(rows)
           /\ Keeps(p, List!Refreshed(p, rows))
<1> DEFINE l == List!Loaded(p, rows)
           s == List!Select(l, List!SelectedIn(p))
           e == List!EnsureVisible(s)
           q == List!Sort(e, p.order)
           t == List!Select(q, List!SelectedIn(p))
           r == IF List!SelectedIn(p) = None THEN q ELSE List!EnsureVisible(t)
<1>1. l \in PaneType /\ SameFields(p, l) /\ l.items = rows
  <2>1. 0 \in Int
    OBVIOUS
  <2>2. l = [p EXCEPT !.items = rows, !.selected = 0, !.offset = 0]
    BY DEF List!Loaded
  <2> HIDE DEF l
  <2> QED BY <2>1, <2>2 DEF PaneType, SameFields
<1>2. List!Refreshed(p, rows) = r
  BY DEF List!Refreshed, List!Reread
<1> HIDE DEF l
<1>3. s \in PaneType /\ SameButCursor(l, s)
  BY <1>1, SelectIs
<1> HIDE DEF s
<1>4. e \in PaneType /\ SameButCursor(s, e)
  BY <1>3, EnsureVisibleIs
<1> HIDE DEF e
<1>5. p.order \in DOMAIN Orders
  BY DEF PaneType
<1>6. /\ q \in PaneType /\ q.order = p.order /\ q.view = e.view /\ q.rows = e.rows
      /\ q.columns = e.columns /\ InOrder(q) /\ SameEntries(e, q)
  BY <1>4, <1>5, SortIs
<1> HIDE DEF q
<1>7. SameFields(p, q) /\ List!Range(q.items) = List!Range(rows)
  BY <1>1, <1>3, <1>4, <1>6 DEF SameFields, SameButCursor, SameEntries
<1>8. CASE List!SelectedIn(p) = None
  <2>1. Keeps(p, q)
    BY <1>6, <1>8, SelectedIs DEF Keeps
  <2> QED BY <2>1, <1>2, <1>6, <1>7, <1>8
<1>9. CASE List!SelectedIn(p) # None
  <2>1. /\ t \in PaneType /\ SameButCursor(q, t)
        /\ List!SelectedIn(p) \in List!Range(List!Shown(q)) => List!SelectedIn(t) = List!SelectedIn(p)
    BY <1>6, SelectIs
  <2> HIDE DEF t
  <2> DEFINE v == List!EnsureVisible(t)
  <2>2. v \in PaneType /\ SameButCursor(t, v) /\ Keeps(t, v)
    BY <2>1, EnsureVisibleIs, VisibleKeeps
  <2>3. r = v
    BY <1>9
  <2> HIDE DEF v, r
  <2>4. SameButCursor(q, v)
    BY <2>1, <2>2 DEF SameButCursor
  <2>5. SameFields(p, v) /\ List!Range(v.items) = List!Range(rows) /\ InOrder(v)
    BY <2>4, <1>6, <1>7 DEF SameFields, SameButCursor, InOrder
  <2>6. List!Range(List!Shown(v)) = List!Range(List!Shown(t)) /\ List!Range(List!Shown(t)) = List!Range(List!Shown(q))
    BY <1>6, <2>1, <2>2, SameShown, SameMeansSameEntries
  <2>7. Keeps(p, v)
    BY <2>1, <2>2, <2>6 DEF Keeps
  <2> QED BY <1>2, <2>2, <2>3, <2>5, <2>7
<1> QED BY <1>8, <1>9

LEMMA RefreshIs ==
    ASSUME List!ConstantsAssumption, NEW p \in PaneType, NEW d \in SUBSET Entries, NEW hidden,
           NEW q \in List!Refresh(p, d, hidden)
    PROVE  /\ q \in PaneType /\ SameFields(p, q) /\ Keeps(p, q)
           /\ \/ q = p
              \/ InOrder(q) /\ \E rows \in List!Lists(d, hidden) : List!Range(q.items) = List!Range(rows)
<1>1. CASE q = p
  BY <1>1 DEF SameFields, Keeps
<1>2. CASE \E rows \in List!Lists(d, hidden) : q = List!Refreshed(p, rows)
  <2>1. PICK rows \in List!Lists(d, hidden) : q = List!Refreshed(p, rows)
    BY <1>2
  <2>2. rows \in Seq(Entries)
    BY ListedIs
  <2> QED BY <2>1, <2>2, RefreshedIs
<1> QED BY <1>1, <1>2 DEF List!Refresh

\* What draw_app leaves to the next key: the size of the terminal, and the
\* cursor on the screen.
LEMMA DrawnIs ==
    ASSUME List!ConstantsAssumption, height \in Heights, NEW p \in PaneType
    PROVE  /\ List!Drawn(p) \in PaneType
           /\ List!Drawn(p).items = p.items /\ List!Drawn(p).filter = p.filter
           /\ List!Drawn(p).order = p.order /\ List!Drawn(p).view = p.view
           /\ List!Drawn(p).rows = height
           /\ OnScreen(List!Drawn(p)) /\ Keeps(p, List!Drawn(p))
<1> DEFINE columns == IF p.view = "brief" THEN BriefColumns ELSE 1
           q == [p EXCEPT !.rows = height, !.columns = columns]
           r == List!EnsureVisible(q)
<1>1. height \in Nat \ {0} /\ columns \in Nat \ {0}
  BY DEF List!ConstantsAssumption
<1>2. List!Drawn(p) = r
  BY DEF List!Drawn
<1> HIDE DEF columns
<1>3. /\ q \in PaneType /\ q.items = p.items /\ q.filter = p.filter /\ q.order = p.order
      /\ q.view = p.view /\ q.rows = height /\ q.selected = p.selected
  BY <1>1 DEF PaneType
<1> HIDE DEF q
<1>4. Keeps(p, q)
  BY <1>3, StaysKeeps DEF Stays
<1>5. r \in PaneType /\ SameButCursor(q, r) /\ OnScreen(r) /\ Keeps(q, r)
  BY <1>3, EnsureVisibleIs, VisibleKeeps
<1> HIDE DEF r
<1>6. SameEntries(q, r)
  BY <1>5, SameMeansSameEntries
<1>7. Keeps(p, r)
  BY <1>3, <1>4, <1>5, <1>6, KeepsOn
<1> QED BY <1>2, <1>3, <1>5, <1>7 DEF SameButCursor

----------------------------------------------------------------------------
(* The invariant *)

SessionType == [config : Settings, hidden : BOOLEAN, view : List!Views, order : DOMAIN Orders]

ListTypeOK ==
    /\ directory \in SUBSET Entries
    /\ pane \in PaneType /\ pane.rows = height
    /\ show_hidden \in BOOLEAN
    /\ settings \in Settings
    /\ height \in Heights
    /\ session # None => session \in SessionType

ListInv == ListTypeOK /\ InOrder(pane) /\ OnScreen(pane)

\* What of a listing is in the pane: what was there before, or what the
\* directory holds now.
FromHere(p, q) ==
    List!Range(q.items) \in {List!Range(p.items)} \cup
        {List!Range(rows) : rows \in List!Lists(directory, TRUE) \cup List!Lists(directory, FALSE)}

LEMMA RefreshFromHere ==
    ASSUME List!ConstantsAssumption, ListTypeOK, NEW p \in PaneType, NEW hidden \in BOOLEAN,
           NEW q \in List!Refresh(p, directory, hidden)
    PROVE  FromHere(p, q)
<1>1. q = p \/ \E rows \in List!Lists(directory, hidden) : List!Range(q.items) = List!Range(rows)
  BY RefreshIs DEF ListTypeOK
<1> QED BY <1>1 DEF FromHere

\* A step that draws x keeps the entry of the cursor, or changes neither the
\* list nor how it is shown.
Leads(x) ==
    /\ x \in PaneType /\ InOrder(x)
    /\ pane' = List!Drawn(x) \/ pane' = List!Drawn(List!EnsureVisible(x))
    /\ UNCHANGED height
    /\ \/ Keeps(pane, x)
       \/ x.items = pane.items /\ x.order = pane.order /\ x.view = pane.view
       \/ session # None /\ session' # session

\* What the pane is after such a step.
LEMMA LedTo ==
    ASSUME List!ConstantsAssumption, ListInv, NEW x, Leads(x)
    PROVE  /\ pane' \in PaneType /\ pane'.rows = height' /\ InOrder(pane') /\ OnScreen(pane')
           /\ pane'.items = x.items /\ pane'.filter = x.filter
           /\ pane'.order = x.order /\ pane'.view = x.view
           /\ Keeps(x, pane')
<1> DEFINE e == List!EnsureVisible(x)
<1>1. x \in PaneType /\ height \in Heights
  BY DEF Leads, ListInv, ListTypeOK
<1>2. e \in PaneType /\ SameButCursor(x, e) /\ Keeps(x, e)
  BY <1>1, EnsureVisibleIs, VisibleKeeps
<1> HIDE DEF e
<1>3. PICK y \in {x, e} : pane' = List!Drawn(y)
  BY DEF Leads, e
<1>4. /\ y \in PaneType /\ y.items = x.items /\ y.filter = x.filter
      /\ y.order = x.order /\ y.view = x.view /\ Keeps(x, y)
  BY <1>1, <1>2, <1>3 DEF SameButCursor, Keeps
<1> DEFINE d == List!Drawn(y)
<1>5. /\ d \in PaneType /\ d.items = y.items /\ d.filter = y.filter
      /\ d.order = y.order /\ d.view = y.view /\ d.rows = height
      /\ OnScreen(d) /\ Keeps(y, d)
  BY <1>1, <1>4, DrawnIs
<1> HIDE DEF d
<1>6. SameEntries(y, d)
  BY <1>5 DEF SameEntries
<1>7. Keeps(x, d)
  BY <1>1, <1>4, <1>5, <1>6, KeepsOn
<1>8. InOrder(d)
  BY <1>4, <1>5 DEF Leads, InOrder
<1>9. pane' = d /\ height' = height
  BY <1>3 DEF Leads, d
<1> DEFINE q == pane'
<1>10. /\ q \in PaneType /\ q.rows = height' /\ InOrder(q) /\ OnScreen(q)
       /\ q.items = x.items /\ q.filter = x.filter /\ q.order = x.order /\ q.view = x.view
       /\ Keeps(x, q)
  BY <1>4, <1>5, <1>7, <1>8, <1>9
<1> QED BY <1>10 DEF InOrder, OnScreen, Keeps, List!Capacity, List!Count, List!Matching, List!SelectedIn, List!Shown

----------------------------------------------------------------------------
(* Commands of the pane *)

LEMMA RefreshLeads ==
    ASSUME List!ConstantsAssumption, ListInv, NEW d \in SUBSET Entries, NEW hidden,
           NEW x \in List!Refresh(pane, d, hidden),
           pane' = List!Drawn(List!EnsureVisible(x)), UNCHANGED height
    PROVE  Leads(x)
<1>1. pane \in PaneType /\ InOrder(pane)
  BY DEF ListInv, ListTypeOK
<1>2. x \in PaneType /\ Keeps(pane, x) /\ (x = pane \/ InOrder(x))
  BY <1>1, RefreshIs
<1> QED BY <1>1, <1>2 DEF Leads

LEMMA MoveLeads ==
    ASSUME List!ConstantsAssumption, ListInv, List!Move
    PROVE  \E x : Leads(x)
<1>1. PICK n \in {-1, 1, -pane.rows, pane.rows, -List!Capacity(pane), List!Capacity(pane),
                  -pane.selected, List!Count(pane) - 1 - pane.selected} :
        pane' = List!Drawn(List!EnsureVisible([pane EXCEPT !.selected = @ + n]))
  BY DEF List!Move
<1> DEFINE x == [pane EXCEPT !.selected = @ + n]
<1>2. pane \in PaneType /\ InOrder(pane) /\ List!Count(pane) \in Nat
  BY ShownIs DEF ListInv, ListTypeOK
<1>3. pane.selected \in Int /\ pane.rows \in Int /\ List!Capacity(pane) \in Int
  <2>1. pane.selected \in Int /\ pane.rows \in Int /\ pane.columns \in Int
    BY <1>2 DEF PaneType
  <2> QED BY <2>1 DEF List!Capacity
<1>4. n \in Int
  BY <1>1, <1>2, <1>3
<1>5. x \in PaneType /\ x.items = pane.items /\ x.order = pane.order /\ x.view = pane.view
  BY <1>2, <1>3, <1>4 DEF PaneType
<1>6. InOrder(x)
  BY <1>2, <1>5 DEF InOrder
<1>7. UNCHANGED height
  BY DEF List!Move, List!Fixed
<1> QED BY <1>1, <1>5, <1>6, <1>7 DEF Leads

LEMMA SortByLeads ==
    ASSUME List!ConstantsAssumption, ListInv, NEW order \in DOMAIN Orders, List!SortBy(order)
    PROVE  \E x : Leads(x)
<1>1. pane' = List!Drawn(List!EnsureVisible(List!Sort(pane, order))) /\ UNCHANGED height
  BY DEF List!SortBy, List!Fixed
<1>2. pane \in PaneType
  BY DEF ListInv, ListTypeOK
<1>3. List!Sort(pane, order) \in PaneType /\ InOrder(List!Sort(pane, order)) /\ Keeps(pane, List!Sort(pane, order))
  BY <1>2, SortIs
<1> QED BY <1>1, <1>3 DEF Leads

LEMMA ViewLeads ==
    ASSUME List!ConstantsAssumption, ListInv, NEW view \in List!Views, List!View(view)
    PROVE  \E x : Leads(x)
<1> DEFINE x == [pane EXCEPT !.view = view]
<1>1. pane' = List!Drawn(List!EnsureVisible(x)) /\ UNCHANGED height
  BY DEF List!View, List!Fixed
<1>2. pane \in PaneType /\ InOrder(pane)
  BY DEF ListInv, ListTypeOK
<1>3. /\ x \in PaneType /\ x.items = pane.items /\ x.filter = pane.filter
      /\ x.order = pane.order /\ x.selected = pane.selected
  BY <1>2 DEF PaneType
<1>4. Keeps(pane, x)
  BY <1>2, <1>3, StaysKeeps DEF Stays
<1>5. InOrder(x)
  BY <1>2, <1>3 DEF InOrder
<1> QED BY <1>1, <1>3, <1>4, <1>5 DEF Leads

LEMMA FilterLeads ==
    ASSUME List!ConstantsAssumption, ListInv, NEW text \in DOMAIN Filters, List!Filter(text)
    PROVE  \E x : Leads(x)
<1> DEFINE x == [pane EXCEPT !.filter = text]
<1>1. pane' = List!Drawn(List!EnsureVisible(x)) /\ UNCHANGED height
  BY DEF List!Filter, List!Fixed
<1>2. pane \in PaneType /\ InOrder(pane)
  BY DEF ListInv, ListTypeOK
<1>3. x \in PaneType /\ x.items = pane.items /\ x.order = pane.order /\ x.view = pane.view
  BY <1>2 DEF PaneType
<1>4. InOrder(x)
  BY <1>2, <1>3 DEF InOrder
<1> QED BY <1>1, <1>3, <1>4 DEF Leads

LEMMA RefreshCommandLeads ==
    ASSUME List!ConstantsAssumption, ListInv, List!RefreshCommand \/ List!Delete \/ List!ToggleHidden
    PROVE  \E x : Leads(x)
<1>1. PICK d \in SUBSET Entries, hidden \in BOOLEAN : \E x \in List!Refresh(pane, d, hidden) :
        pane' = List!Drawn(List!EnsureVisible(x)) /\ UNCHANGED height
  <2>1. directory \in SUBSET Entries /\ show_hidden \in BOOLEAN
    BY DEF ListInv, ListTypeOK
  <2>2. CASE List!RefreshCommand
    <3>1. PICK d \in {directory} \cup {directory \cup {e} : e \in Entries} :
            \E p \in List!Refresh(pane, d, show_hidden) : pane' = List!Drawn(List!EnsureVisible(p))
      BY <2>2 DEF List!RefreshCommand
    <3>2. d \in SUBSET Entries
      BY <2>1
    <3> QED BY <2>1, <3>1, <3>2, <2>2 DEF List!RefreshCommand
  <2>3. CASE List!Delete
    BY <2>1, <2>3 DEF List!Delete
  <2>4. CASE List!ToggleHidden
    BY <2>1, <2>4 DEF List!ToggleHidden
  <2> QED BY <2>2, <2>3, <2>4
<1> QED BY <1>1, RefreshLeads

\* A renamed entry is not in the list that is read again, so nothing is kept
\* that should not be; if the directory cannot be listed the list stays.
LEMMA RenameLeads ==
    ASSUME List!ConstantsAssumption, ListInv, NEW new \in Entries, List!Rename(new)
    PROVE  \E x : Leads(x) /\ (new \in List!Range(x.items) => List!SelectedIn(x) = new)
<1> DEFINE p == [pane EXCEPT !.filter = List!FilterAfter(new)]
           d == (directory \ {List!SelectedIn(pane)}) \cup {new}
<1>1. PICK q \in List!Refresh(p, directory', show_hidden) : pane' = List!Drawn(List!EnsureVisible(List!Select(q, new)))
  BY DEF List!Rename
<1>2. directory' = d /\ UNCHANGED height /\ new # List!SelectedIn(pane)
  BY DEF List!Rename
<1>3. pane \in PaneType /\ InOrder(pane) /\ d \in SUBSET Entries
  BY DEF ListInv, ListTypeOK
<1>4. List!FilterAfter(new) \in DOMAIN Filters
  BY <1>3 DEF List!FilterAfter, PaneType, List!ConstantsAssumption
<1>5. p \in PaneType /\ p.items = pane.items /\ p.order = pane.order /\ p.view = pane.view
  BY <1>3, <1>4 DEF PaneType
<1> HIDE DEF p
<1>6. q \in PaneType /\ SameFields(p, q)
      /\ \/ q = p
         \/ InOrder(q) /\ \E rows \in List!Lists(d, show_hidden) : List!Range(q.items) = List!Range(rows)
  <2>1. q \in List!Refresh(p, d, show_hidden)
    BY <1>1, <1>2
  <2> HIDE DEF d
  <2> QED BY <2>1, <1>3, <1>5, RefreshIs
<1> DEFINE x == List!Select(q, new)
<1>7. x \in PaneType /\ SameButCursor(q, x)
  BY <1>6, SelectIs
<1>8. new \in List!Range(x.items) => List!SelectedIn(x) = new
  <2>1. new \in Filters[List!FilterAfter(new)]
    BY DEF List!FilterAfter, List!ConstantsAssumption
  <2>2. q.filter = List!FilterAfter(new)
    BY <1>3, <1>6 DEF SameFields, p, PaneType
  <2>3. new \in List!Range(x.items) => new \in List!Range(List!Shown(q))
    BY <1>6, <1>7, <2>1, <2>2, ShownIs DEF SameButCursor
  <2> QED BY <1>6, <2>3, SelectIs
<1>9. CASE q = p
  <2>1. x.items = pane.items /\ x.order = pane.order /\ x.view = pane.view
    BY <1>5, <1>7, <1>9 DEF SameButCursor
  <2>2. InOrder(x)
    BY <2>1, <1>3 DEF InOrder
  <2> QED BY <2>1, <2>2, <1>1, <1>2, <1>7, <1>8 DEF Leads
<1>10. CASE InOrder(q) /\ \E rows \in List!Lists(d, show_hidden) : List!Range(q.items) = List!Range(rows)
  <2>1. PICK rows \in List!Lists(d, show_hidden) : List!Range(q.items) = List!Range(rows)
    BY <1>10
  <2>2. List!Range(rows) \subseteq d
    <3> HIDE DEF d
    <3> QED BY <1>3, ListedIs
  <2>3. List!Range(List!Shown(x)) \subseteq List!Range(q.items)
    BY <1>7, ShownIs DEF SameButCursor
  <2>4. Keeps(pane, x)
    BY <2>1, <2>2, <2>3, <1>2 DEF Keeps
  <2>5. InOrder(x)
    BY <1>7, <1>10 DEF InOrder, SameButCursor
  <2> QED BY <2>4, <2>5, <1>1, <1>2, <1>7, <1>8 DEF Leads
<1> QED BY <1>6, <1>9, <1>10

----------------------------------------------------------------------------
(* Preferences and reload *)

LEMMA FromHereTrans ==
    ASSUME NEW p, NEW q, NEW r, FromHere(p, q), FromHere(q, r)
    PROVE  FromHere(p, r)
  BY DEF FromHere

LEMMA SameFromHere ==
    ASSUME NEW p, NEW q, SameEntries(p, q)
    PROVE  FromHere(p, q)
  BY DEF FromHere, SameEntries

\* Settings that are applied keep the entry of the cursor.
LEMMA AppliesIs ==
    ASSUME List!ConstantsAssumption, ListInv, NEW c \in Settings, NEW all \in BOOLEAN,
           NEW a \in List!Applies(c, all)
    PROVE  /\ a.pane \in PaneType /\ InOrder(a.pane)
           /\ Keeps(pane, a.pane) /\ FromHere(pane, a.pane)
           /\ all => SameEntries(pane, a.pane)
           /\ a.hidden \in BOOLEAN
<1> DEFINE p == [pane EXCEPT !.view = IF all \/ settings.view # c.view THEN c.view ELSE @]
           hidden_changed == all \/ settings.hidden # c.hidden
           hidden == IF hidden_changed THEN c.hidden ELSE show_hidden
           read == IF hidden_changed /\ ~all THEN List!Refresh(p, directory, hidden) ELSE {p}
<1>1. PICK q \in read :
        /\ a.pane = List!EnsureVisible(IF all \/ settings.order # c.order THEN List!Sort(q, c.order) ELSE q)
        /\ a.hidden = hidden
  BY DEF List!Applies
<1>2. /\ pane \in PaneType /\ InOrder(pane) /\ directory \in SUBSET Entries
      /\ c.view \in List!Views /\ c.order \in DOMAIN Orders /\ c.hidden \in BOOLEAN /\ show_hidden \in BOOLEAN
  BY DEF ListInv, ListTypeOK, List!ConstantsAssumption
<1>3. /\ p \in PaneType /\ p.items = pane.items /\ p.filter = pane.filter
      /\ p.order = pane.order /\ p.selected = pane.selected
  BY <1>2 DEF PaneType
<1>4. hidden \in BOOLEAN
  BY <1>2
<1> HIDE DEF p, hidden
<1>5. Keeps(pane, p) /\ SameEntries(pane, p) /\ InOrder(p)
  BY <1>2, <1>3, StaysKeeps DEF Stays, SameEntries, InOrder
<1>6. q \in PaneType /\ Keeps(p, q) /\ InOrder(q) /\ FromHere(p, q) /\ (all => q = p)
  <2>1. CASE q \in List!Refresh(p, directory, hidden) /\ ~all
    <3>1. q \in PaneType /\ Keeps(p, q) /\ (q = p \/ InOrder(q))
      BY <1>2, <1>3, <2>1, RefreshIs
    <3>2. FromHere(p, q)
      BY <1>3, <1>4, <2>1, RefreshFromHere DEF ListInv
    <3> QED BY <3>1, <3>2, <1>5, <2>1
  <2>2. CASE q = p
    BY <2>2, <1>3, <1>5 DEF Keeps, FromHere
  <2> QED BY <1>1, <2>1, <2>2
<1>7. Keeps(pane, q)
  BY <1>2, <1>3, <1>5, <1>6, KeepsOn
<1> DEFINE s == IF all \/ settings.order # c.order THEN List!Sort(q, c.order) ELSE q
<1>8. s \in PaneType /\ Keeps(q, s) /\ SameEntries(q, s) /\ InOrder(s)
  <2>1. CASE s = List!Sort(q, c.order)
    BY <2>1, <1>2, <1>6, SortIs
  <2>2. CASE s = q
    BY <2>2, <1>6 DEF Keeps, SameEntries
  <2> QED BY <2>1, <2>2
<1>9. a.pane = List!EnsureVisible(s)
  BY <1>1
<1> HIDE DEF s
<1>10. Keeps(pane, s)
  BY <1>2, <1>6, <1>7, <1>8, KeepsOn
<1> DEFINE e == List!EnsureVisible(s)
<1>11. e \in PaneType /\ SameButCursor(s, e) /\ Keeps(s, e)
  BY <1>8, EnsureVisibleIs, VisibleKeeps
<1> HIDE DEF e
<1>12. SameEntries(s, e) /\ InOrder(e)
  BY <1>8, <1>11 DEF SameButCursor, SameEntries, InOrder
<1>13. Keeps(pane, e)
  BY <1>2, <1>8, <1>10, <1>11, <1>12, KeepsOn
<1>14. FromHere(pane, e)
  BY <1>5, <1>6, <1>8, <1>12, SameFromHere, FromHereTrans
<1>15. all => SameEntries(pane, e)
  BY <1>5, <1>6, <1>8, <1>12 DEF SameEntries
<1> QED BY <1>1, <1>4, <1>9, <1>11, <1>12, <1>13, <1>14, <1>15 DEF e

LEMMA PreviewLeads ==
    ASSUME List!ConstantsAssumption, ListInv, List!Preview
    PROVE  (\E x : Leads(x)) /\ show_hidden' \in BOOLEAN /\ settings' \in Settings
<1>0. PICK c \in Settings : \E a \in List!Applies(c, FALSE) :
        List!Apply(a, c) /\ pane' = List!Drawn(a.pane) /\ UNCHANGED height
  BY DEF List!Preview
<1>1. PICK a \in List!Applies(c, FALSE) :
        List!Apply(a, c) /\ pane' = List!Drawn(a.pane) /\ UNCHANGED height
  BY <1>0
<1>2. a.pane \in PaneType /\ InOrder(a.pane) /\ Keeps(pane, a.pane) /\ a.hidden \in BOOLEAN
  BY AppliesIs
<1>3. Leads(a.pane)
  BY <1>1, <1>2 DEF Leads
<1> QED BY <1>1, <1>2, <1>3 DEF List!Apply

LEMMA ReloadLeads ==
    ASSUME List!ConstantsAssumption, ListInv, List!Reload
    PROVE  (\E x : Leads(x)) /\ show_hidden' \in BOOLEAN /\ settings' \in Settings
<1>0. PICK c \in Settings : \E a \in List!Applies(c, TRUE) :
        \E p \in List!Refresh([a.pane EXCEPT !.view = c.view], directory, c.hidden) :
           List!Apply(a, c) /\ pane' = List!Drawn(List!EnsureVisible(p)) /\ UNCHANGED height
  BY DEF List!Reload
<1>1. PICK a \in List!Applies(c, TRUE) :
        \E p \in List!Refresh([a.pane EXCEPT !.view = c.view], directory, c.hidden) :
           List!Apply(a, c) /\ pane' = List!Drawn(List!EnsureVisible(p)) /\ UNCHANGED height
  BY <1>0
<1> DEFINE q == [a.pane EXCEPT !.view = c.view]
<1>2. PICK p \in List!Refresh(q, directory, c.hidden) :
        List!Apply(a, c) /\ pane' = List!Drawn(List!EnsureVisible(p)) /\ UNCHANGED height
  BY <1>1
<1>3. pane \in PaneType /\ c.view \in List!Views /\ directory \in SUBSET Entries
  BY DEF ListInv, ListTypeOK, List!ConstantsAssumption
<1>4. /\ a.pane \in PaneType /\ InOrder(a.pane) /\ Keeps(pane, a.pane)
      /\ SameEntries(pane, a.pane) /\ a.hidden \in BOOLEAN
  BY AppliesIs
<1> DEFINE r == a.pane
<1>5. /\ q \in PaneType /\ q.items = r.items /\ q.filter = r.filter
      /\ q.order = r.order /\ q.selected = r.selected
  BY <1>3, <1>4 DEF PaneType
<1>6. Keeps(r, q) /\ SameEntries(r, q) /\ InOrder(q)
  BY <1>4, <1>5, StaysKeeps DEF Stays, SameEntries, InOrder
<1> HIDE DEF q, r
<1>7. p \in PaneType /\ Keeps(q, p) /\ (p = q \/ InOrder(p))
  BY <1>2, <1>3, <1>5, RefreshIs
<1>8. r \in PaneType /\ Keeps(pane, r) /\ SameEntries(pane, r)
  BY <1>4 DEF r
<1>9. Keeps(r, p)
  BY <1>5, <1>6, <1>7, <1>8, KeepsOn
<1>10. Keeps(pane, p)
  BY <1>3, <1>7, <1>8, <1>9, KeepsOn
<1>11. Leads(p)
  BY <1>2, <1>6, <1>7, <1>10 DEF Leads
<1> QED BY <1>2, <1>4, <1>11 DEF List!Apply

\* What the Preferences began with comes back, in a list that is what the
\* pane or the directory holds.
LEMMA RestoresIs ==
    ASSUME List!ConstantsAssumption, ListInv, session # None, NEW a, a.pane \in PaneType,
           NEW b \in List!Restores(a)
    PROVE  /\ b.pane \in PaneType /\ InOrder(b.pane) /\ b.hidden = session.hidden
           /\ b.pane.view = session.view /\ b.pane.order = session.order
           /\ b.pane.items = List!Sorted(List!Range(b.pane.items), Orders[session.order])
           /\ FromHere(a.pane, b.pane)
<1> DEFINE o == a.pane
           p == [o EXCEPT !.view = session.view]
           read == IF a.hidden = session.hidden THEN {o} ELSE List!Refresh(p, directory, session.hidden)
<1>0. PICK q \in read :
        b = [pane |-> List!EnsureVisible(List!Sort([q EXCEPT !.view = session.view], session.order)),
             hidden |-> session.hidden]
  BY Zenon DEF List!Restores
<1>1. /\ b.pane = List!EnsureVisible(List!Sort([q EXCEPT !.view = session.view], session.order))
      /\ b.hidden = session.hidden
  BY <1>0
<1>2. /\ session.view \in List!Views /\ session.order \in DOMAIN Orders /\ session.hidden \in BOOLEAN
  BY DEF ListInv, ListTypeOK, SessionType
<1>3. o \in PaneType /\ p \in PaneType /\ p.items = o.items
  BY <1>2 DEF PaneType
<1> HIDE DEF o, p
<1>4. q \in PaneType /\ FromHere(o, q)
  <2>1. CASE q = o
    BY <2>1, <1>3 DEF FromHere
  <2>2. CASE q \in List!Refresh(p, directory, session.hidden)
    <3>1. q \in PaneType /\ FromHere(p, q)
      BY <2>2, <1>2, <1>3, RefreshIs, RefreshFromHere DEF ListInv, ListTypeOK
    <3> QED BY <3>1, <1>3 DEF FromHere
  <2> QED BY <1>1, <2>1, <2>2
<1> DEFINE r == [q EXCEPT !.view = session.view]
           s == List!Sort(r, session.order)
           e == List!EnsureVisible(s)
<1>5. r \in PaneType /\ r.items = q.items /\ r.view = session.view
  BY <1>2, <1>4 DEF PaneType
<1>6. b.pane = e
  BY <1>1
<1> HIDE DEF r
<1>7. /\ s \in PaneType /\ s.items = List!Sorted(List!Range(r.items), Orders[session.order])
      /\ s.order = session.order /\ s.view = session.view /\ InOrder(s)
      /\ List!Range(s.items) = List!Range(r.items)
  BY <1>2, <1>5, SortIs DEF SameEntries
<1> HIDE DEF s
<1>8. e \in PaneType /\ SameButCursor(s, e)
  BY <1>7, EnsureVisibleIs
<1> HIDE DEF e
<1>9. /\ InOrder(e) /\ e.view = session.view /\ e.order = session.order
      /\ e.items = List!Sorted(List!Range(e.items), Orders[session.order])
      /\ List!Range(e.items) = List!Range(q.items)
  BY <1>5, <1>7, <1>8 DEF SameButCursor, InOrder
<1>10. FromHere(o, e)
  BY <1>4, <1>9 DEF FromHere
<1> QED BY <1>1, <1>6, <1>8, <1>9, <1>10 DEF o

LEMMA CancelLeads ==
    ASSUME List!ConstantsAssumption, ListInv, List!Cancel
    PROVE  \E x : /\ Leads(x)
                  /\ x.view = session.view /\ x.order = session.order
                  /\ x.items = List!Sorted(List!Range(x.items), Orders[session.order])
                  /\ FromHere(pane, x)
                  /\ show_hidden' = session.hidden /\ settings' = session.config
                  /\ session' = None /\ session # None /\ UNCHANGED directory
<1>0. PICK a \in List!Applies(session.config, FALSE) : \E b \in List!Restores(a) :
        /\ show_hidden' = b.hidden /\ pane' = List!Drawn(b.pane)
        /\ settings' = session.config
  BY DEF List!Cancel
<1>1. PICK b \in List!Restores(a) :
        /\ show_hidden' = b.hidden /\ pane' = List!Drawn(b.pane)
        /\ settings' = session.config
  BY <1>0
<1>2. session # None /\ session' = None /\ UNCHANGED <<directory, height>>
  BY DEF List!Cancel, List!Idle
<1>3. session.config \in Settings
  BY <1>2 DEF ListInv, ListTypeOK, SessionType
<1>4. a.pane \in PaneType /\ FromHere(pane, a.pane)
  BY <1>3, AppliesIs
<1>5. /\ b.pane \in PaneType /\ InOrder(b.pane) /\ b.hidden = session.hidden
      /\ b.pane.view = session.view /\ b.pane.order = session.order
      /\ b.pane.items = List!Sorted(List!Range(b.pane.items), Orders[session.order])
      /\ FromHere(a.pane, b.pane)
  BY <1>2, <1>4, RestoresIs
<1>6. FromHere(pane, b.pane)
  BY <1>4, <1>5, FromHereTrans
<1>7. Leads(b.pane)
  BY <1>1, <1>2, <1>5 DEF Leads
<1> QED BY <1>1, <1>2, <1>5, <1>6, <1>7

----------------------------------------------------------------------------
(* Steps *)

\* The rows change under the cursor.
LEMMA ResizeIs ==
    ASSUME List!ConstantsAssumption, ListInv, NEW h \in Heights, List!Resize(h)
    PROVE  /\ pane' \in PaneType /\ pane'.rows = height' /\ height' \in Heights
           /\ InOrder(pane') /\ OnScreen(pane')
           /\ Keeps(pane, pane')
<1> DEFINE e == List!EnsureVisible(pane)
           r == [e EXCEPT !.rows = h]
           v == List!EnsureVisible(r)
<1>1. pane' = v /\ height' = h
  BY DEF List!Resize
<1>2. pane \in PaneType /\ InOrder(pane) /\ h \in Nat \ {0}
  BY DEF ListInv, ListTypeOK, List!ConstantsAssumption
<1>3. e \in PaneType /\ SameButCursor(pane, e) /\ Keeps(pane, e)
  BY <1>2, EnsureVisibleIs, VisibleKeeps
<1> HIDE DEF e
<1>4. /\ r \in PaneType /\ r.items = e.items /\ r.filter = e.filter /\ r.order = e.order
      /\ r.selected = e.selected /\ r.rows = h
  BY <1>2, <1>3 DEF PaneType
<1> HIDE DEF r
<1>5. Keeps(e, r) /\ SameEntries(e, r)
  BY <1>3, <1>4, StaysKeeps DEF Stays, SameEntries
<1>6. v \in PaneType /\ SameButCursor(r, v) /\ Keeps(r, v) /\ OnScreen(v) /\ SameEntries(r, v)
  BY <1>4, EnsureVisibleIs, VisibleKeeps, SameMeansSameEntries
<1> HIDE DEF v
<1>7. Keeps(pane, r)
  BY <1>2, <1>3, <1>4, <1>5, KeepsOn
<1>8. Keeps(pane, v)
  BY <1>2, <1>4, <1>6, <1>7, KeepsOn
<1>9. InOrder(v) /\ v.rows = h
  BY <1>2, <1>3, <1>4, <1>6 DEF InOrder, SameButCursor
<1> DEFINE q == pane'
<1>10. /\ q \in PaneType /\ q.rows = height' /\ height' \in Heights
       /\ InOrder(q) /\ OnScreen(q) /\ Keeps(pane, q)
  BY <1>1, <1>6, <1>8, <1>9
<1> QED BY <1>10 DEF InOrder, OnScreen, Keeps, List!Capacity, List!Count, List!Matching, List!SelectedIn, List!Shown

\* Every step leads to a drawing, resizes, or leaves the pane.
LEMMA StepLeads ==
    ASSUME List!ConstantsAssumption, ListInv, [List!Next]_(List!vars)
    PROVE  /\ \/ \E x : Leads(x)
              \/ \E h \in Heights : List!Resize(h)
              \/ UNCHANGED <<pane, height>>
           /\ directory' \in SUBSET Entries
           /\ show_hidden' \in BOOLEAN /\ settings' \in Settings
           /\ session' # None => session' \in SessionType
<1>1. /\ directory \in SUBSET Entries /\ show_hidden \in BOOLEAN /\ settings \in Settings
      /\ session # None => session \in SessionType
      /\ pane.view \in List!Views /\ pane.order \in DOMAIN Orders
  BY DEF ListInv, ListTypeOK, PaneType
<1>2. CASE List!Move
  BY <1>1, <1>2, MoveLeads DEF List!Move, List!Fixed
<1>3. CASE List!RefreshCommand
  BY <1>1, <1>3, RefreshCommandLeads DEF List!RefreshCommand
<1>4. CASE List!Delete
  BY <1>1, <1>4, RefreshCommandLeads DEF List!Delete
<1>5. CASE List!ToggleHidden
  BY <1>1, <1>5, RefreshCommandLeads DEF List!ToggleHidden
<1>6. CASE List!OthersChange
  BY <1>1, <1>6 DEF List!OthersChange
<1>7. CASE List!Preferences
  BY <1>1, <1>7 DEF List!Preferences, SessionType
<1>8. CASE List!Preview
  BY <1>1, <1>8, PreviewLeads DEF List!Preview
<1>9. CASE List!Accept
  BY <1>1, <1>9 DEF List!Accept
<1>10. CASE List!Cancel
  <2>1. PICK x : /\ Leads(x) /\ show_hidden' = session.hidden /\ settings' = session.config
                 /\ session' = None /\ session # None /\ UNCHANGED directory
    BY <1>10, CancelLeads
  <2>2. session.hidden \in BOOLEAN /\ session.config \in Settings
    BY <1>1, <2>1 DEF SessionType
  <2> QED BY <1>1, <2>1, <2>2
<1>11. CASE List!Reload
  BY <1>1, <1>11, ReloadLeads DEF List!Reload
<1>12. ASSUME NEW order \in DOMAIN Orders, List!SortBy(order)
       PROVE  (\E x : Leads(x)) /\ UNCHANGED <<directory, show_hidden, settings, session>>
  BY <1>12, SortByLeads DEF List!SortBy, List!Fixed
<1>13. ASSUME NEW view \in List!Views, List!View(view)
       PROVE  (\E x : Leads(x)) /\ UNCHANGED <<directory, show_hidden, settings, session>>
  BY <1>13, ViewLeads DEF List!View, List!Fixed
<1>14. ASSUME NEW text \in DOMAIN Filters, List!Filter(text)
       PROVE  (\E x : Leads(x)) /\ UNCHANGED <<directory, show_hidden, settings, session>>
  BY <1>14, FilterLeads DEF List!Filter, List!Fixed
<1>15. ASSUME NEW new \in Entries, List!Rename(new)
       PROVE  /\ \E x : Leads(x)
              /\ directory' \in SUBSET Entries /\ UNCHANGED <<show_hidden, settings, session>>
  <2>1. directory' \in SUBSET Entries /\ UNCHANGED <<show_hidden, settings, session>>
    BY <1>1, <1>15 DEF List!Rename
  <2> QED BY <1>15, <2>1, RenameLeads
<1>16. ASSUME NEW h \in Heights, List!Resize(h)
       PROVE  UNCHANGED <<directory, show_hidden, settings, session>>
  BY <1>16 DEF List!Resize
<1>17. CASE UNCHANGED List!vars
  BY <1>1, <1>17 DEF List!vars
<1> QED
  BY <1>1, <1>2, <1>3, <1>4, <1>5, <1>6, <1>7, <1>8, <1>9, <1>10, <1>11, <1>12, <1>13,
     <1>14, <1>15, <1>16, <1>17 DEF List!Next

LEMMA ListInitHolds == List!ConstantsAssumption /\ List!Init => ListInv
<1> SUFFICES ASSUME List!ConstantsAssumption, List!Init
             PROVE  ListInv
  OBVIOUS
<1>1. /\ directory = Entries /\ settings \in Settings /\ show_hidden = settings.hidden
      /\ height \in Heights /\ session = None
  BY DEF List!Init
<1> DEFINE First(rows) ==
             [items |-> rows, selected |-> 0, offset |-> 0, filter |-> NoFilter,
              order |-> settings.order, view |-> settings.view, rows |-> 1, columns |-> 1]
<1>2. PICK rows \in List!Lists(directory, show_hidden) : pane = List!Drawn(List!Sort(First(rows), settings.order))
  BY DEF List!Init
<1>3. /\ settings.view \in List!Views /\ settings.order \in DOMAIN Orders /\ settings.hidden \in BOOLEAN
  BY <1>1 DEF List!ConstantsAssumption
<1>4. rows \in Seq(Entries)
  BY <1>1, ListedIs
<1>5. First(rows) \in PaneType
  <2>1. 0 \in Int /\ 1 \in Nat \ {0} /\ NoFilter \in DOMAIN Filters
    BY DEF List!ConstantsAssumption
  <2> QED BY <2>1, <1>3, <1>4 DEF PaneType
<1> DEFINE f == First(rows)
           s == List!Sort(f, settings.order)
           d == List!Drawn(s)
<1> HIDE DEF f
<1>6. f \in PaneType
  BY <1>5 DEF f
<1>7. s \in PaneType /\ InOrder(s)
  BY <1>3, <1>6, SortIs
<1> HIDE DEF s
<1>8. /\ d \in PaneType /\ d.items = s.items /\ d.order = s.order /\ d.rows = height /\ OnScreen(d)
  BY <1>1, <1>7, DrawnIs
<1>9. pane = d
  BY <1>2 DEF s, f
<1> HIDE DEF d
<1>10. InOrder(d)
  BY <1>7, <1>8 DEF InOrder
<1> QED BY <1>1, <1>3, <1>8, <1>9, <1>10 DEF ListInv, ListTypeOK

LEMMA ListStepHolds ==
    ASSUME List!ConstantsAssumption, ListInv, [List!Next]_(List!vars)
    PROVE  ListInv'
<1>1. /\ directory' \in SUBSET Entries /\ show_hidden' \in BOOLEAN /\ settings' \in Settings
      /\ session' # None => session' \in SessionType
  BY StepLeads
<1>2. pane' \in PaneType /\ pane'.rows = height' /\ height' \in Heights /\ InOrder(pane)' /\ OnScreen(pane)'
  <2>1. CASE \E x : Leads(x)
    <3>1. PICK x : Leads(x)
      BY <2>1
    <3>2. height' = height
      BY <3>1 DEF Leads
    <3>3. pane' \in PaneType /\ pane'.rows = height' /\ InOrder(pane') /\ OnScreen(pane')
      BY <3>1, LedTo
    <3> QED
      BY <3>2, <3>3 DEF ListInv, ListTypeOK, InOrder, OnScreen, List!Capacity, List!Count, List!Matching
  <2>2. CASE \E h \in Heights : List!Resize(h)
    <3>1. /\ pane' \in PaneType /\ pane'.rows = height' /\ height' \in Heights
          /\ InOrder(pane') /\ OnScreen(pane')
      BY <2>2, ResizeIs
    <3> QED BY <3>1 DEF InOrder, OnScreen, List!Capacity, List!Count, List!Matching
  <2>3. CASE UNCHANGED <<pane, height>>
    BY <2>3 DEF ListInv, ListTypeOK, InOrder, OnScreen, List!Capacity, List!Count, List!Matching
  <2> QED BY <2>1, <2>2, <2>3, StepLeads
<1> QED BY <1>1, <1>2 DEF ListInv, ListTypeOK

\* The invariant of the list holds, for all constants that are what they have
\* to be.
LEMMA ListInvHolds ==
    ASSUME List!ConstantsAssumption
    PROVE  List!Spec => []ListInv
<1>1. List!Init => ListInv
  BY ListInitHolds
<1>2. ListInv /\ [List!Next]_(List!vars) => ListInv'
  BY ListStepHolds
<1> QED BY <1>1, <1>2, PTL DEF List!Spec

----------------------------------------------------------------------------
\* The pane, the settings and what the Preferences remember keep their types,
\* and the pane has as many rows as the terminal.
THEOREM ListTypeCorrect == List!Spec => []ListTypeOK
<1>0. List!ConstantsAssumption
  BY PartsAssumption
<1> QED BY <1>0, ListInvHolds, PTL DEF ListInv

\* When a key is read the list is sorted and the cursor is on the screen, for
\* any directory, any orders and filters and any number of rows and columns.
THEOREM CursorStaysOnScreen == List!Spec => []CursorIsOnScreen
<1>0. List!ConstantsAssumption
  BY PartsAssumption
<1>1. ListInv => List!CursorIsOnScreen
  <2> SUFFICES ASSUME ListInv
               PROVE  List!CursorIsOnScreen
    OBVIOUS
  <2>1. pane \in PaneType
    BY DEF ListInv, ListTypeOK
  <2> QED BY <1>0, <2>1, SelectedIs DEF ListInv, InOrder, OnScreen, List!CursorIsOnScreen
<1> QED BY <1>1, <1>0, ListInvHolds, PTL DEF CursorIsOnScreen

\* What CursorKeepsItsEntry says of a step: of any, and of a rename.
KeptByStep ==
    /\ session' = session \/ session = None
    /\ \/ pane'.items # pane.items
       \/ \E field \in {"order", "view", "rows"} : pane'[field] # pane[field]
    /\ List!SelectedIn(pane) \in List!Range(List!Shown(pane'))
    => List!SelectedIn(pane') = List!SelectedIn(pane)

OnNewName ==
    directory' # directory /\ pane' # pane =>
      \A new \in List!Range(pane'.items) : List!Rename(new) => List!SelectedIn(pane') = new

LEMMA StepKeepsEntry ==
    ASSUME List!ConstantsAssumption, ListInv, [List!Next]_(List!vars)
    PROVE  KeptByStep
<1>1. pane \in PaneType /\ pane.rows = height
  BY DEF ListInv, ListTypeOK
<1>2. CASE \E x : Leads(x)
  <2>1. PICK x : Leads(x)
    BY <1>2
  <2> DEFINE q == pane'
  <2>2. /\ q \in PaneType /\ q.rows = height' /\ q.items = x.items /\ q.filter = x.filter
        /\ q.order = x.order /\ q.view = x.view /\ Keeps(x, q)
    BY <2>1, LedTo
  <2>3. x \in PaneType /\ height' = height
    BY <2>1 DEF Leads
  <2>4. CASE Keeps(pane, x)
    <3>1. SameEntries(x, q)
      BY <2>2 DEF SameEntries
    <3> HIDE DEF q
    <3>2. Keeps(pane, q)
      BY <1>1, <2>2, <2>3, <2>4, <3>1, KeepsOn
    <3> QED BY <3>2 DEF Keeps, KeptByStep, q
  <2>5. CASE x.items = pane.items /\ x.order = pane.order /\ x.view = pane.view
    <3>1. /\ pane'.items = pane.items
          /\ pane'["order"] = pane["order"] /\ pane'["view"] = pane["view"] /\ pane'["rows"] = pane["rows"]
      BY <1>1, <2>2, <2>3, <2>5
    <3> QED BY <3>1 DEF KeptByStep
  <2>6. CASE session # None /\ session' # session
    BY <2>6 DEF KeptByStep
  <2> QED BY <2>1, <2>4, <2>5, <2>6 DEF Leads
<1>3. CASE \E h \in Heights : List!Resize(h)
  BY <1>3, ResizeIs DEF Keeps, KeptByStep
<1>4. CASE UNCHANGED <<pane, height>>
  BY <1>4 DEF KeptByStep
<1> QED BY <1>2, <1>3, <1>4, StepLeads

LEMMA RenameSelects ==
    ASSUME List!ConstantsAssumption, ListInv, [List!Next]_(List!vars)
    PROVE  OnNewName
<1> SUFFICES ASSUME NEW new \in List!Range(pane'.items), List!Rename(new)
             PROVE  List!SelectedIn(pane') = new
  BY DEF OnNewName
<1>1. pane' \in PaneType
  BY ListStepHolds DEF ListInv, ListTypeOK
<1>2. new \in Entries
  BY <1>1 DEF PaneType, List!Range
<1>3. PICK x : Leads(x) /\ (new \in List!Range(x.items) => List!SelectedIn(x) = new)
  BY <1>2, RenameLeads
<1> DEFINE q == pane'
<1>4. q \in PaneType /\ q.items = x.items /\ q.filter = x.filter /\ Keeps(x, q)
  BY <1>3, LedTo
<1>5. x \in PaneType /\ new \in List!Range(q.items)
  BY <1>3 DEF Leads
<1> HIDE DEF q
<1>6. List!SelectedIn(x) = new
  BY <1>3, <1>4, <1>5
<1>7. new \in List!Range(List!Shown(x))
  BY <1>2, <1>5, <1>6, SelectedIs DEF List!ConstantsAssumption
<1>8. List!Shown(q) = List!Shown(x)
  BY <1>4, ShownOf
<1>9. List!SelectedIn(q) = new
  BY <1>4, <1>6, <1>7, <1>8 DEF Keeps
<1> QED BY <1>9 DEF q

\* The cursor keeps its entry, and is on the new name after a rename: for any
\* directory, orders, filters, sizes and settings.
THEOREM CursorFollowsEntry == List!Spec => CursorKeepsItsEntry
<1>0. List!ConstantsAssumption
  BY PartsAssumption
<1>1. ListInv /\ [List!Next]_(List!vars) => [KeptByStep /\ OnNewName]_(List!vars)
  BY <1>0, StepKeepsEntry, RenameSelects
<1> QED BY <1>1, <1>0, ListInvHolds, PTL DEF CursorKeepsItsEntry, List!Spec, List!CursorKeepsItsEntry, KeptByStep, OnNewName

\* What CancelRollsBack says of a step.
RolledBack ==
    session # None /\ session' = None /\ <<pane, show_hidden, settings>>' # <<pane, show_hidden, settings>> =>
      /\ settings' = session.config /\ show_hidden' = session.hidden
      /\ pane'.view = session.view /\ pane'.order = session.order
      /\ pane'.items = List!Sorted(List!Range(pane'.items), Orders[session.order])
      /\ List!Range(pane'.items) \in {List!Range(pane.items)} \cup
           {List!Range(rows) : rows \in List!Lists(directory, TRUE) \cup List!Lists(directory, FALSE)}

\* Only Accept and Cancel end the Preferences, and Accept changes nothing.
LEMMA StepRollsBack ==
    ASSUME List!ConstantsAssumption, ListInv, [List!Next]_(List!vars)
    PROVE  RolledBack
<1>1. CASE List!Cancel
  <2>1. PICK x : /\ Leads(x)
                 /\ x.view = session.view /\ x.order = session.order
                 /\ x.items = List!Sorted(List!Range(x.items), Orders[session.order])
                 /\ FromHere(pane, x)
                 /\ show_hidden' = session.hidden /\ settings' = session.config
    BY <1>1, CancelLeads
  <2>2. pane'.items = x.items /\ pane'.order = x.order /\ pane'.view = x.view
    BY <2>1, LedTo
  <2> QED BY <2>1, <2>2 DEF RolledBack, FromHere
<1>2. CASE List!Accept
  BY <1>2 DEF List!Accept, RolledBack
<1>3. CASE session = None \/ session' = session
  BY <1>3 DEF RolledBack
<1>4. List!Cancel \/ List!Accept \/ session = None \/ session' = session
  BY DEF List!Next, List!vars, List!Move, List!RefreshCommand, List!Delete, List!ToggleHidden, List!OthersChange, List!Preferences, List!Preview,
         List!Reload, List!SortBy, List!View, List!Filter, List!Rename, List!Resize, List!Fixed, List!Idle
<1> QED BY <1>1, <1>2, <1>3, <1>4

\* Cancel of the Preferences brings back what was there before them, however
\* many previews there were and whatever became of the directory meanwhile.
THEOREM CancelBringsBack == List!Spec => CancelRollsBack
<1>0. List!ConstantsAssumption
  BY PartsAssumption
<1>1. ListInv /\ [List!Next]_(List!vars) => [RolledBack]_(List!vars)
  BY <1>0, StepRollsBack
<1> QED BY <1>1, <1>0, ListInvHolds, PTL DEF CancelRollsBack, List!Spec, List!CancelRollsBack, RolledBack

----------------------------------------------------------------------------
(* The keys *)

KeysTypeOK ==
    /\ map \in Keymaps
    /\ screen \in Modal \cup Workspaces
    /\ shell \in Input!NavInput
    /\ own # None => own \in Input!NavInput /\ back \in Modal \cup Workspaces
    /\ pasting \in BOOLEAN /\ cut \in BOOLEAN

PendingWasTyped ==
    Input!Input.pending # None =>
      Input!Typed(last[2].event, Input!Input.pending) /\ last[2].context = Input!Input.context

NothingWaits ==
    /\ shell.pasting => shell.pending = None
    /\ own # None => shell.pending = None /\ (own.pasting => own.pending = None)
    /\ ran # None => Input!Input.pending = None

Pastes ==
    /\ shell.pasting => pasting /\ ~cut
    /\ pasting /\ ~cut => own = None /\ shell.pasting /\ ran = None

KeysInv == KeysTypeOK /\ PendingWasTyped /\ NothingWaits /\ Pastes /\ Input!RunsWhatWasTyped

----------------------------------------------------------------------------
(* What nav_input_resolve looks up *)

LEMMA LeastOfFew ==
    ASSUME NEW S \in SUBSET (1 .. 4), S # {}
    PROVE  Input!Min(S) \in S
<1>1. \E x \in S : \A y \in S : x =< y
  <2>1. CASE 1 \in S
    BY <2>1
  <2>2. CASE 1 \notin S /\ 2 \in S
    BY <2>2
  <2>3. CASE 1 \notin S /\ 2 \notin S /\ 3 \in S
    BY <2>3
  <2>4. CASE 1 \notin S /\ 2 \notin S /\ 3 \notin S
    <3>1. \A y \in S : y = 4
      BY <2>4
    <3>2. 4 \in S
      <4>1. PICK y : y \in S
        OBVIOUS
      <4> QED BY <4>1, <3>1
    <3> QED BY <3>1, <3>2
  <2> QED BY <2>1, <2>2, <2>3, <2>4
<1> QED BY <1>1 DEF Input!Min

\* What is found is the keys typed so far with a variant of the stroke, in a
\* scope of the screen.
LEMMA FoundIsTyped ==
    ASSUME Input!ConstantsAssumption, NEW c, NEW prefix, NEW k \in Strokes,
           Input!Found(c, prefix, k) # None
    PROVE  \E x \in {c, Global}, v \in Input!AnyStroke :
             /\ x = Global => c = Global \/ c \notin Modal
             /\ Input!Typed(k, v)
             /\ Input!Found(c, prefix, k) = [scope |-> x, keys |-> Append(prefix, v)]
<1> DEFINE s == Input!Scopes(c)
           w == Input!Variants(k)
           at == [n \in 1 .. Len(s) * Len(w) |->
                    [scope |-> s[((n - 1) \div Len(w)) + 1],
                     keys  |-> Append(prefix, w[((n - 1) % Len(w)) + 1])]]
           hit == {n \in DOMAIN at : Input!Matches(at[n].scope, at[n].keys) # {}}
<1>1. /\ Len(s) \in {1, 2}
      /\ \A i \in 1 .. Len(s) : s[i] \in {c, Global} /\ (s[i] = Global => c = Global \/ c \notin Modal)
  BY DEF Input!Scopes
<1>2. /\ Len(w) \in {1, 2}
      /\ \A i \in 1 .. Len(w) : w[i] \in Input!AnyStroke /\ Input!Typed(k, w[i])
  BY DEF Input!Variants, Input!AnyStroke, Input!Typed, Input!Range
<1>3. Input!Found(c, prefix, k) = at[Input!Min(hit)] /\ hit # {}
  BY DEF Input!Found
<1> HIDE DEF s, w
<1>4. Input!Min(hit) \in 1 .. Len(s) * Len(w)
  <2>1. 1 .. Len(s) * Len(w) \subseteq 1 .. 4
    BY <1>1, <1>2
  <2>2. hit \in SUBSET (1 .. 4) /\ hit \subseteq 1 .. Len(s) * Len(w)
    BY <2>1
  <2> HIDE DEF hit
  <2> QED BY <2>2, <1>3, LeastOfFew
<1>5. \A n \in 1 .. Len(s) * Len(w) :
        /\ ((n - 1) \div Len(w)) + 1 \in 1 .. Len(s)
        /\ ((n - 1) % Len(w)) + 1 \in 1 .. Len(w)
  BY <1>1, <1>2
<1> DEFINE m == Input!Min(hit)
<1>6. at[m] = [scope |-> s[((m - 1) \div Len(w)) + 1],
               keys  |-> Append(prefix, w[((m - 1) % Len(w)) + 1])]
  BY <1>4
<1> HIDE DEF m
<1> QED BY <1>1, <1>2, <1>3, <1>4, <1>5, <1>6 DEF m

----------------------------------------------------------------------------
(* The input that an event meets *)

\* The input an event meets is one, and what it makes of it takes its place;
\* the other stays.
LEMMA InputTaken ==
    ASSUME Input!ConstantsAssumption, KeysTypeOK, NothingWaits, NEW i,
           Input!NextInput(i), i \in Input!NavInput
    PROVE  /\ Input!Input \in Input!NavInput /\ Input!Input' = i
           /\ Input!Input.pasting => Input!Input.pending = None
           /\ own = None => own' = None /\ shell' = i
           /\ own # None => own' = i /\ own' # None /\ shell' = shell
<1>1. i # None
  BY DEF Input!ConstantsAssumption
<1>2. own = None => own' = None /\ shell' = i
  BY DEF Input!NextInput
<1>3. own # None => own' = i /\ own' # None /\ shell' = shell
  BY <1>1 DEF Input!NextInput
<1>4. Input!Input \in Input!NavInput /\ (Input!Input.pasting => Input!Input.pending = None)
  BY DEF Input!Input, KeysTypeOK, NothingWaits
<1>5. Input!Input' = i
  BY <1>2, <1>3 DEF Input!Input
<1> QED BY <1>2, <1>3, <1>4, <1>5

\* An event that runs nothing and leaves nothing waiting keeps what is said
\* of strokes, whatever is noted of it.
LEMMA NothingLeft ==
    ASSUME Input!ConstantsAssumption, KeysTypeOK, NothingWaits, NEW i,
           Input!NextInput(i), i \in Input!NavInput,
           i.pending = None, ran' = None
    PROVE  NothingWaits' /\ PendingWasTyped' /\ Input!RunsWhatWasTyped'
<1>1. /\ Input!Input' = i
      /\ own = None => own' = None /\ shell' = i
      /\ own # None => own' = i /\ own' # None /\ shell' = shell
  BY InputTaken
<1>2. NothingWaits'
  BY <1>1 DEF NothingWaits
<1>3. PendingWasTyped'
  BY <1>1 DEF PendingWasTyped
<1>4. Input!RunsWhatWasTyped'
  BY DEF Input!RunsWhatWasTyped
<1> QED BY <1>2, <1>3, <1>4

\* The type of what an event leaves.
LEMMA InputTyped ==
    ASSUME Input!ConstantsAssumption, KeysTypeOK, NothingWaits, NEW i,
           Input!NextInput(i), i \in Input!NavInput,
           UNCHANGED <<map, screen, back>>, pasting' \in BOOLEAN, cut' \in BOOLEAN
    PROVE  KeysTypeOK'
<1>1. /\ own = None => own' = None /\ shell' = i
      /\ own # None => own' = i /\ own' # None /\ shell' = shell
  BY InputTaken
<1> QED BY <1>1 DEF KeysTypeOK

----------------------------------------------------------------------------
(* Events *)

\* A key in a paste: it is noted, and changes nothing.
LEMMA KeyInPaste ==
    ASSUME Input!ConstantsAssumption, KeysInv, NEW k \in Strokes, Input!Key(k), Input!Input.pasting
    PROVE  KeysInv'
<1>1. ran' = None /\ UNCHANGED <<map, screen, shell, own, back, pasting, cut>>
  BY DEF Input!Key, Input!InPaste, Input!inputs
<1>2. Input!Input' = Input!Input
  BY <1>1 DEF Input!Input
<1>3. Input!Input.pending = None
  BY DEF KeysInv, NothingWaits, Input!Input
<1>4. KeysTypeOK' /\ Pastes'
  BY <1>1 DEF KeysInv, KeysTypeOK, Pastes
<1>5. PendingWasTyped'
  BY <1>2, <1>3 DEF PendingWasTyped
<1>6. NothingWaits'
  BY <1>1 DEF KeysInv, NothingWaits
<1>7. Input!RunsWhatWasTyped'
  BY <1>1 DEF Input!RunsWhatWasTyped
<1> QED BY <1>4, <1>5, <1>6, <1>7 DEF KeysInv

\* A key that is looked up: what it runs, or leaves waiting, was typed.
LEMMA KeyLookedUp ==
    ASSUME Input!ConstantsAssumption, KeysInv, NEW k \in Strokes, Input!Key(k), ~Input!Input.pasting
    PROVE  KeysInv'
<1> DEFINE pending == Input!Pending(Input!Input)
           prefix == IF pending = None THEN <<>> ELSE <<pending>>
           found == Input!Found(screen, prefix, k)
           bound == IF found = None THEN {} ELSE Input!Matches(found.scope, found.keys)
           whole == {b \in bound : b.keys = found.keys}
           cancels == pending # None /\ k = Escape
           waits == IF bound # {} /\ whole = {} /\ ~cancels THEN Input!Last(found.keys) ELSE None
           i == [Input!Input EXCEPT !.context = screen, !.pending = waits]
<1>1. /\ Input!NextInput(i)
      /\ ran' = IF whole = {} \/ cancels THEN None ELSE (CHOOSE b \in whole : TRUE).command
  BY DEF Input!Key, Input!InPaste
<1>2. /\ last' = <<last[2], [event |-> k, context |-> screen]>>
      /\ UNCHANGED <<map, screen, back, pasting, cut>>
  BY DEF Input!Key, Input!Seen
<1>3. last'[1] = last[2] /\ last'[2].event = k /\ last'[2].context = screen
  BY <1>2
<1>4. Input!Input \in Input!NavInput
  BY DEF KeysInv, KeysTypeOK, Input!Input
<1>5. bound # {} =>
        \E x \in {screen, Global}, v \in Input!AnyStroke :
          /\ x = Global => screen = Global \/ screen \notin Modal
          /\ Input!Typed(k, v)
          /\ found = [scope |-> x, keys |-> Append(prefix, v)]
  BY FoundIsTyped
<1>6. waits \in Input!AnyStroke \cup {None} /\ (waits # None => Input!Typed(k, waits))
  <2>1. CASE waits = None
    BY <2>1
  <2>2. CASE waits # None
    <3>0. bound # {} /\ waits = Input!Last(found.keys)
      BY <2>2
    <3>1. PICK v \in Input!AnyStroke : Input!Typed(k, v) /\ found.keys = Append(prefix, v)
      <4> HIDE DEF found, prefix, bound
      <4> QED BY <3>0, <1>5
    <3>2. Input!Last(Append(prefix, v)) = v
      BY DEF Input!Last
    <3> QED BY <3>0, <3>1, <3>2
  <2> QED BY <2>1, <2>2
<1>7. /\ i \in Input!NavInput /\ i.pending = waits /\ i.context = screen
      /\ i.pasting = Input!Input.pasting
  BY <1>4, <1>6 DEF Input!NavInput, KeysInv, KeysTypeOK
<1> HIDE DEF waits, i
<1>8. /\ Input!Input' = i
      /\ own = None => own' = None /\ shell' = i
      /\ own # None => own' = i /\ own' # None /\ shell' = shell
  BY <1>1, <1>7, InputTaken DEF KeysInv
<1>9. KeysTypeOK'
  BY <1>1, <1>2, <1>7, InputTyped DEF KeysInv, KeysTypeOK
<1>10. PendingWasTyped'
  BY <1>3, <1>6, <1>7, <1>8 DEF PendingWasTyped, Input!Typed
<1>11. NothingWaits'
  <2>1. ran' # None => waits = None
    BY <1>1 DEF waits
  <2> QED BY <2>1, <1>7, <1>8 DEF KeysInv, NothingWaits
<1>12. Input!RunsWhatWasTyped'
  <2> SUFFICES ASSUME ran' # None
               PROVE  Input!RunsWhatWasTyped'
    BY DEF Input!RunsWhatWasTyped
  <2>1. PICK b \in whole : ran' = b.command
    BY <1>1
  <2>2. PICK x \in {screen, Global}, v \in Input!AnyStroke :
          /\ x = Global => screen = Global \/ screen \notin Modal
          /\ Input!Typed(k, v)
          /\ found = [scope |-> x, keys |-> Append(prefix, v)]
    BY <2>1, <1>5
  <2>3. b \in Input!Matches(found.scope, found.keys) /\ b.keys = found.keys
    BY <2>1
  <2> HIDE DEF found, prefix
  <2>4. b \in map /\ b.context = x /\ b.keys = Append(prefix, v)
    BY <2>2, <2>3 DEF Input!Matches
  <2>5. CASE pending = None
    <3>1. Len(b.keys) = 1 /\ b.keys[1] = v
      BY <2>4, <2>5 DEF prefix
    <3>2. Input!TypedAre(b.keys)'
      BY <3>1, <2>2, <1>3 DEF Input!TypedAre, Input!Typed
    <3> QED BY <3>2, <2>1, <2>2, <2>4, <1>2, <1>3 DEF Input!RunsWhatWasTyped
  <2>6. CASE pending # None
    <3>1. Len(b.keys) = 2 /\ b.keys[1] = pending /\ b.keys[2] = v
      BY <2>4, <2>6 DEF prefix
    <3>2. Input!Input.pending = pending /\ Input!Input.context = screen
      BY <2>6 DEF Input!Pending
    <3>3. Input!Typed(last[2].event, pending) /\ last[2].context = screen
      BY <3>2, <2>6 DEF KeysInv, PendingWasTyped
    <3>4. Input!TypedAre(b.keys)'
      BY <3>1, <3>3, <2>2, <1>3 DEF Input!TypedAre, Input!Typed
    <3> QED BY <3>4, <2>1, <2>2, <2>4, <1>2, <1>3 DEF Input!RunsWhatWasTyped
  <2> QED BY <2>5, <2>6
<1>13. Pastes'
  <2>1. ~(pasting /\ ~cut)
    BY DEF KeysInv, Pastes, Input!Input
  <2> QED BY <2>1, <1>2, <1>7, <1>8 DEF KeysInv, Pastes, Input!Input
<1> QED BY <1>9, <1>10, <1>11, <1>12, <1>13 DEF KeysInv

LEMMA ResizeKeeps ==
    ASSUME Input!ConstantsAssumption, KeysInv, Input!Resize, ran = None
    PROVE  KeysInv'
<1> DEFINE i == [Input!Input EXCEPT !.pending = None, !.context = screen]
<1>1. Input!NextInput(i) /\ ran' = None /\ UNCHANGED <<map, screen, back, pasting, cut>>
  BY DEF Input!Resize
<1>2. i \in Input!NavInput /\ i.pending = None /\ i.pasting = Input!Input.pasting
  BY DEF KeysInv, KeysTypeOK, Input!Input, Input!NavInput
<1> HIDE DEF i
<1>3. NothingWaits' /\ PendingWasTyped' /\ Input!RunsWhatWasTyped' /\ KeysTypeOK'
  BY <1>1, <1>2, NothingLeft, InputTyped DEF KeysInv, KeysTypeOK
<1>4. /\ own = None => own' = None /\ shell' = i
      /\ own # None => own' = i /\ own' # None /\ shell' = shell
  BY <1>1, <1>2, InputTaken DEF KeysInv
<1>5. Pastes'
  BY <1>1, <1>2, <1>4 DEF KeysInv, Pastes, Input!Input
<1> QED BY <1>3, <1>5 DEF KeysInv

LEMMA PasteStartKeeps ==
    ASSUME Input!ConstantsAssumption, KeysInv, Input!PasteStart
    PROVE  KeysInv'
<1> DEFINE i == [Input!Input EXCEPT !.pasting = TRUE, !.pending = None]
<1>1. /\ Input!NextInput(i) /\ ran' = None /\ UNCHANGED <<map, screen, back>>
      /\ ~pasting /\ pasting' = TRUE /\ cut' = (own # None)
  BY DEF Input!PasteStart
<1>2. i \in Input!NavInput /\ i.pending = None /\ i.pasting = TRUE
  BY DEF KeysInv, KeysTypeOK, Input!Input, Input!NavInput
<1> HIDE DEF i
<1>3. NothingWaits' /\ PendingWasTyped' /\ Input!RunsWhatWasTyped' /\ KeysTypeOK'
  BY <1>1, <1>2, NothingLeft, InputTyped DEF KeysInv, KeysTypeOK
<1>4. /\ own = None => own' = None /\ shell' = i
      /\ own # None => own' = i /\ own' # None /\ shell' = shell
  BY <1>1, <1>2, InputTaken DEF KeysInv
<1>5. Pastes'
  BY <1>1, <1>2, <1>4 DEF KeysInv, Pastes
<1> QED BY <1>3, <1>5 DEF KeysInv

\* At the end of a paste what waits goes on to wait: it is nothing, unless a
\* progress screen took the beginning of the paste, and then it was typed.
LEMMA PasteEndKeeps ==
    ASSUME Input!ConstantsAssumption, KeysInv, Input!PasteEnd
    PROVE  KeysInv'
<1> DEFINE i == [Input!Input EXCEPT !.pasting = FALSE]
<1>1. /\ Input!NextInput(i) /\ ran' = None /\ UNCHANGED <<map, screen, back>>
      /\ pasting /\ pasting' = FALSE /\ cut' = FALSE /\ (cut => last' = last)
  BY DEF Input!PasteEnd
<1>2. i \in Input!NavInput /\ i.pending = Input!Input.pending
      /\ i.pasting = FALSE /\ i.context = Input!Input.context
  BY DEF KeysInv, KeysTypeOK, Input!Input, Input!NavInput
<1> HIDE DEF i
<1>3. KeysTypeOK'
  BY <1>1, <1>2, InputTyped DEF KeysInv, KeysTypeOK
<1>4. /\ Input!Input' = i
      /\ own = None => own' = None /\ shell' = i
      /\ own # None => own' = i /\ own' # None /\ shell' = shell
  BY <1>1, <1>2, InputTaken DEF KeysInv
<1>5. ~cut => Input!Input.pending = None
  BY <1>1 DEF KeysInv, Pastes, NothingWaits, Input!Input
<1>6. PendingWasTyped'
  BY <1>1, <1>2, <1>4, <1>5 DEF KeysInv, PendingWasTyped, Input!Typed
<1>7. NothingWaits'
  BY <1>1, <1>2, <1>4 DEF KeysInv, NothingWaits, Pastes
<1>8. Pastes' /\ Input!RunsWhatWasTyped'
  BY <1>1, <1>2, <1>4 DEF KeysInv, Pastes, Input!RunsWhatWasTyped
<1> QED BY <1>3, <1>6, <1>7, <1>8 DEF KeysInv

----------------------------------------------------------------------------
(* Commands *)

LEMMA FreshInput == Input!ConstantsAssumption =>
    Input!Fresh \in Input!NavInput /\ Input!Fresh # None
      /\ Input!Fresh.pending = None /\ Input!Fresh.pasting = FALSE
<1>1. Input!Fresh \in Input!NavInput /\ Input!Fresh.pending = None /\ Input!Fresh.pasting = FALSE
  BY DEF Input!Fresh, Input!NavInput
<1> QED BY <1>1 DEF Input!ConstantsAssumption

\* A command finds nothing that waits, and no paste the shell saw begin: it
\* may bring any screen to the front, and begin an input.
LEMMA CommandKeeps ==
    ASSUME Input!ConstantsAssumption, KeysInv, ran # None, ran' = None,
           UNCHANGED <<map, pasting, cut, last>>,
           screen' \in Modal \cup Workspaces,
           \/ own = None /\ own' = None /\ shell' \in {shell, Input!Fresh}
           \/ own = None /\ own' = Input!Fresh /\ shell' = shell /\ back' = screen
           \/ UNCHANGED <<own, shell, back>>
    PROVE  KeysInv'
<1>1. ~(pasting /\ ~cut) /\ ~shell.pasting
  BY DEF KeysInv, Pastes
<1>2. shell'.pending = None /\ shell'.pasting \in {FALSE, shell.pasting} /\ shell' \in Input!NavInput
  BY FreshInput DEF KeysInv, KeysTypeOK, NothingWaits, Input!Input
<1>3. own' # None => own'.pending = None /\ own' \in Input!NavInput /\ back' \in Modal \cup Workspaces
  BY FreshInput DEF KeysInv, KeysTypeOK, NothingWaits, Input!Input
<1>4. Input!Input'.pending = None
  BY <1>2, <1>3 DEF Input!Input
<1>5. KeysTypeOK'
  BY <1>2, <1>3 DEF KeysInv, KeysTypeOK
<1>6. NothingWaits' /\ PendingWasTyped' /\ Input!RunsWhatWasTyped'
  BY <1>2, <1>3, <1>4 DEF NothingWaits, PendingWasTyped, Input!RunsWhatWasTyped
<1>7. Pastes'
  BY <1>1, <1>2 DEF Pastes, KeysInv, KeysTypeOK, Input!NavInput
<1> QED BY <1>5, <1>6, <1>7 DEF KeysInv

\* The end of a progress screen: the shell has nothing that waits.
LEMMA FinishKeeps ==
    ASSUME Input!ConstantsAssumption, KeysInv, Input!Finish
    PROVE  KeysInv'
<1>1. /\ own # None /\ own' = None /\ screen' = back /\ ran' = None
      /\ UNCHANGED <<map, shell, pasting, cut, last>>
  BY DEF Input!Finish, Input!ghosts
<1>2. KeysTypeOK'
  BY <1>1 DEF KeysInv, KeysTypeOK
<1>3. NothingWaits' /\ PendingWasTyped' /\ Input!RunsWhatWasTyped'
  BY <1>1 DEF KeysInv, NothingWaits, PendingWasTyped, Input!RunsWhatWasTyped, Input!Input
<1>4. Pastes'
  BY <1>1 DEF KeysInv, Pastes
<1> QED BY <1>2, <1>3, <1>4 DEF KeysInv

----------------------------------------------------------------------------
LEMMA KeysInitHolds == Input!ConstantsAssumption /\ Input!Init => KeysInv
<1> SUFFICES ASSUME Input!ConstantsAssumption, Input!Init
             PROVE  KeysInv
  OBVIOUS
<1>1. /\ map \in Keymaps /\ screen \in Workspaces /\ shell = Input!Fresh /\ own = None /\ ran = None
      /\ pasting = FALSE /\ cut = FALSE
  BY DEF Input!Init
<1> QED BY <1>1, FreshInput DEF KeysInv, KeysTypeOK, PendingWasTyped, NothingWaits, Pastes,
                              Input!RunsWhatWasTyped, Input!Input

LEMMA KeysStepHolds ==
    ASSUME Input!ConstantsAssumption, KeysInv, [Input!Next]_(Input!vars)
    PROVE  KeysInv'
<1>1. CASE Input!Event
  <2>1. ran = None
    BY <1>1 DEF Input!Event
  <2>2. ASSUME NEW k \in Strokes, Input!Key(k)
        PROVE  KeysInv'
    BY <2>2, KeyInPaste, KeyLookedUp
  <2> QED BY <1>1, <2>1, <2>2, ResizeKeeps, PasteStartKeeps, PasteEndKeeps DEF Input!Event
<1>2. CASE Input!Handle
  <2>1. ran # None /\ ran' = None /\ UNCHANGED <<map, screen, shell, own, back, pasting, cut, last>>
    BY <1>2 DEF Input!Handle, Input!inputs, Input!ghosts
  <2>2. screen' \in Modal \cup Workspaces
    BY <2>1 DEF KeysInv, KeysTypeOK
  <2> QED BY <2>1, <2>2, CommandKeeps
<1>3. CASE Input!Start
  <2>1. /\ ran # None /\ ran' = None /\ own = None /\ own' = Input!Fresh /\ back' = screen
        /\ UNCHANGED <<map, shell, pasting, cut, last>>
    BY <1>3 DEF Input!Start, Input!ghosts
  <2>2. screen' \in Modal \cup Workspaces
    BY <1>3 DEF Input!Start, Input!ConstantsAssumption
  <2> QED BY <2>1, <2>2, CommandKeeps
<1>4. CASE Input!Finish
  BY <1>4, FinishKeeps
<1>5. ASSUME NEW c \in Modal \cup Workspaces, Input!Show(c)
      PROVE  KeysInv'
  <2>1. /\ ran # None /\ ran' = None /\ own = None /\ own' = None /\ screen' = c
        /\ UNCHANGED <<map, shell, pasting, cut, last>>
    BY <1>5 DEF Input!Show, Input!ghosts
  <2> QED BY <2>1, CommandKeeps
<1>6. ASSUME NEW c \in Workspaces, Input!Enter(c)
      PROVE  KeysInv'
  <2>1. /\ ran # None /\ ran' = None /\ own = None /\ own' = None /\ screen' = c /\ shell' = Input!Fresh
        /\ UNCHANGED <<map, pasting, cut, last>>
    BY <1>6 DEF Input!Enter, Input!ghosts
  <2> QED BY <2>1, CommandKeeps
<1>7. CASE UNCHANGED Input!vars
  BY <1>7 DEF Input!vars, Input!inputs, Input!ghosts, KeysInv, KeysTypeOK, PendingWasTyped, NothingWaits, Pastes,
              Input!RunsWhatWasTyped, Input!TypedAre, Input!Typed, Input!Input
<1> QED BY <1>1, <1>2, <1>3, <1>4, <1>5, <1>6, <1>7 DEF Input!Next

\* The invariant holds for all constants that are what they have to be.
LEMMA KeysInvHolds ==
    ASSUME Input!ConstantsAssumption
    PROVE  Input!Spec => []KeysInv
<1>1. Input!Init => KeysInv
  BY KeysInitHolds
<1>2. KeysInv /\ [Input!Next]_(Input!vars) => KeysInv'
  BY KeysStepHolds
<1> QED BY <1>1, <1>2, PTL DEF Input!Spec

----------------------------------------------------------------------------
\* The inputs of the shell and of a progress screen keep their types, and a
\* progress screen hides a screen to come back to.
THEOREM KeysTypeCorrect == Input!Spec => []KeysTypeOK
<1>0. Input!ConstantsAssumption
  BY PartsAssumption
<1> QED BY <1>0, KeysInvHolds, PTL DEF KeysInv

\* A command that runs is bound to the one or two strokes that were typed, in
\* the context they were typed in: whatever the keymap, and whatever resizes,
\* pastes, screens and progress screens come in between.
THEOREM CommandsWereTyped == Input!Spec => []RunsWhatWasTyped
<1>0. Input!ConstantsAssumption
  BY PartsAssumption
<1> QED BY <1>0, KeysInvHolds, PTL DEF RunsWhatWasTyped, KeysInv

\* A paste the shell saw begin runs no command, and the shell is in a paste
\* only while the terminal is.
THEOREM PastesRunNothing == Input!Spec => []PasteIsText
<1>0. Input!ConstantsAssumption
  BY PartsAssumption
<1>1. KeysInv => Input!PasteIsText
  BY DEF KeysInv, Pastes, Input!PasteIsText
<1> QED BY <1>1, <1>0, KeysInvHolds, PTL DEF PasteIsText

\* Nothing waits in an input while it is in a paste, nor in that of the shell
\* under a progress screen, nor after a command: no stroke from before can
\* become the first of two.
THEOREM NothingIsLeftWaiting == Input!Spec => []NothingWaits
<1>0. Input!ConstantsAssumption
  BY PartsAssumption
<1> QED BY <1>0, KeysInvHolds, PTL DEF KeysInv
=============================================================================
