------------------------------ MODULE Workspace ------------------------------
(***************************************************************************)
(* Who owns the connections: the providers created for repositories, URLs  *)
(* and retries after authentication, over the two panes, their Viewers and *)
(* the operation in progress (src/ui/ui.c, src/ui/viewer.c,                *)
(* src/ui/http_auth.c, src/ui/location.c).                                 *)
(*                                                                         *)
(* Every remote provider is an object somebody must destroy once, after    *)
(* its last use.  The C code passes it on with a flag "owned"; a handler   *)
(* that waits for dialogs and the network keeps its own in local           *)
(* variables, which are the frames here: the handler's below, those of the *)
(* viewer and of the download it calls above it.                           *)
(***************************************************************************)
EXTENDS Integers, Sequences, SequencesExt

CONSTANTS Providers, \* the objects remote providers are
          Local,     \* the provider of the file system, which is static
          MaxBack,   \* size of ViewerScreen.history
          None       \* no Viewer

Panes == {0, 1}
AnyProvider == Providers \cup {Local}

\* A resource on display, or to come back to, in a Viewer.
Views == [provider : AnyProvider, owned : BOOLEAN]

\* A Viewer: the resources gone back to, oldest first, and the one shown last.
Viewers == [views : Seq(Views) \ {<<>>}, fullscreen : BOOLEAN]

\* What the constants have to be.
ConstantsAssumption ==
    /\ Local \notin Providers
    /\ MaxBack \in Nat \ {0}
    /\ None \notin Viewers

\* What a handler's frame is for.
Handlers == {"repository", "location", "file", "follow", "link"}
Called == {"view", "download"}
Frames == [job : Handlers \cup Called, provider : AnyProvider, owned : BOOLEAN]

VARIABLES
    live,     \* the providers that were created and not destroyed
    provider, \* provider[i]: the provider of pane i
    viewer,   \* viewer[i]: the Viewer in pane i, None if it lists files
    active,   \* the pane that has the focus
    frames,   \* what the handler in progress holds, its callees' last
    running

panes == <<provider, viewer>>
vars == <<live, panes, active, frames, running>>

----------------------------------------------------------------------------
Idle == running /\ frames = <<>>
InFiles == viewer[active] = None
InViewer == ~ InFiles

Other(i) == 1 - i
Shown(i) == Last(viewer[i].views)

Frame(job, p, owned) == [job |-> job, provider |-> p, owned |-> owned]
View(p, owned) == [provider |-> p, owned |-> owned]

Top == Last(frames)
Base == Head(frames)

\* The providers of those that own them, among views or frames.
OwnedIn(s) == {s[k].provider : k \in {j \in DOMAIN s : s[j].owned}}

\* What closing the Viewer of pane i destroys.
OwnedByViewer(i) == IF viewer[i] = None THEN {} ELSE OwnedIn(viewer[i].views)

\* Destroying Local does nothing, as it is not among the live.
Destroyed(S) == live \ S

Created(p) == p \in Providers \ live

\* Both panes start in the file system: a URL on the command line is refused.
Init ==
    /\ live = {}
    /\ provider = [i \in Panes |-> Local]
    /\ viewer = [i \in Panes |-> None]
    /\ active = 0
    /\ frames = <<>>
    /\ running = TRUE

----------------------------------------------------------------------------
(* Operations that ask for a provider and keep it while they go on *)

\* A handler starts, with a provider of its own or one it borrows.
StartWithNew(job, p) ==
    /\ Created(p)
    /\ live' = live \cup {p}
    /\ frames' = <<Frame(job, p, TRUE)>>

StartBorrowing(job, p) ==
    /\ frames' = <<Frame(job, p, FALSE)>>
    /\ UNCHANGED live

\* Open Repository has created the provider and lists the root.
OpenRepository(p) ==
    /\ Idle /\ InFiles
    /\ StartWithNew("repository", p)
    /\ UNCHANGED <<panes, active, running>>

\* A location resolves to a URL, for which there is always a new provider, or
\* to a path, for which it is the provider of the pane or the file system.
OpenLocation ==
    /\ Idle /\ InFiles
    /\ \/ \E p \in Providers : StartWithNew("location", p)
       \/ \E p \in {provider[active], Local} : StartBorrowing("location", p)
    /\ UNCHANGED <<panes, active, running>>

\* View (F3) on a file of the pane.
ViewFile ==
    /\ Idle /\ InFiles
    /\ frames' = <<Frame("file", provider[active], FALSE),
                   Frame("view", provider[active], FALSE)>>
    /\ UNCHANGED <<live, panes, active, running>>

\* Download of a file of the pane or of what its Viewer shows.
DownloadFile ==
    LET p == IF InFiles THEN provider[active] ELSE Shown(active).provider
    IN /\ Idle
       /\ frames' = <<Frame("file", p, FALSE), Frame("download", p, FALSE)>>
       /\ UNCHANGED <<live, panes, active, running>>

\* View or Download of a link: links are URLs, so the provider is new.
FollowLink(p) ==
    /\ Idle /\ InViewer
    /\ StartWithNew("follow", p)
    /\ UNCHANGED <<panes, active, running>>

DownloadLink(p) ==
    /\ Idle /\ InViewer
    /\ Created(p)
    /\ live' = live \cup {p}
    /\ frames' = <<Frame("link", p, TRUE), Frame("download", p, FALSE)>>
    /\ UNCHANGED <<panes, active, running>>

\* The handler in progress calls the Viewer or the download with the provider
\* of the top frame, which stays with that frame.
Calls(jobs, callee) ==
    /\ running /\ frames # <<>>
    /\ Top.job \in jobs
    /\ frames' = Append(frames, Frame(callee, Top.provider, FALSE))
    /\ UNCHANGED <<live, panes, active, running>>

\* The location is a resource, not a directory.
ViewLocation == Calls({"location"}, "view")
DownloadLocation == Calls({"location"}, "download")

\* What was to be viewed is not text, and a download is offered.
OfferDownload == Calls({"view", "follow"}, "download")

\* Mutant: the provider that is replaced is destroyed by whoever replaces it.
DestroysAlways(f) == {f.provider}

\* The provider a retry replaces is destroyed if the frame owns it.
Replaced(f) == IF f.owned THEN {f.provider} ELSE {}

\* The server asks for credentials, and one is chosen: the frame gets a
\* provider with that credential.  It is created before the other goes.
AuthRetry(p) ==
    /\ running /\ frames # <<>>
    /\ Top.job \in {"location", "view", "follow", "download"}
    /\ Top.provider # Local
    /\ Top.job = "location" => Top.owned
    /\ Created(p)
    /\ live' = (live \cup {p}) \ Replaced(Top)
    /\ frames' = [frames EXCEPT ![Len(frames)] = Frame(Top.job, p, TRUE)]
    /\ UNCHANGED <<panes, active, running>>

\* Mutant: only the callee releases what it owns.
TopOnly == IF Top.owned THEN {Top.provider} ELSE {}

Held == OwnedIn(frames)

\* The operation fails, is cancelled, or is a download that ends one way or
\* the other: each frame destroys what it owns on the way out.
Return ==
    /\ running /\ frames # <<>>
    /\ live' = Destroyed(Held)
    /\ frames' = <<>>
    /\ UNCHANGED <<panes, active, running>>

----------------------------------------------------------------------------
(* Operations that hand the provider over *)

\* Mutant: the old provider stays.
KeepsOld(i) == {}

LeftBy(i) == {provider[i]}

\* The listing arrives: the pane takes the provider and gives up its own.  A
\* location in the provider of the pane changes no owner.
Attach ==
    /\ running /\ Len(frames) = 1
    /\ Top.job \in {"repository", "location"}
    /\ IF Top.provider = provider[active]
       THEN UNCHANGED <<live, provider>>
       ELSE /\ provider' = [provider EXCEPT ![active] = Top.provider]
            /\ live' = Destroyed(LeftBy(active))
    /\ frames' = <<>>
    /\ UNCHANGED <<viewer, active, running>>

\* Mutant: the Viewer owns what it asked for itself only.
OwnsRequest == Top.owned

\* The Viewer owns its provider if it was handed over or got by a retry.
Owns == Base.owned \/ Top.owned

\* Mutant: nothing is destroyed when the request was retried.
NothingSuperseded == {}

\* The caller's provider, if a retry put another in its place.
Superseded ==
    IF Top.provider # Base.provider /\ Base.owned THEN {Base.provider} ELSE {}

\* nav_ui_viewer_open succeeds.
ViewerOpens ==
    /\ running /\ Len(frames) = 2
    /\ Top.job = "view"
    /\ live' = Destroyed(Superseded \cup OwnedByViewer(active))
    /\ viewer' = [viewer EXCEPT ![active] =
                     [views |-> <<View(Top.provider, Owns)>>,
                      fullscreen |-> FALSE]]
    /\ frames' = <<>>
    /\ UNCHANGED <<provider, active, running>>

\* Mutant: the oldest is forgotten without being released.
Forgotten(views) == {}

\* What the Viewer gives up so that there is room for one more.
Oldest(views) ==
    IF Len(views) > MaxBack /\ Head(views).owned
    THEN {Head(views).provider} ELSE {}

\* Mutant: the oldest is released and not removed.
KeepsAll(views) == views

Kept(views) == IF Len(views) > MaxBack THEN Tail(views) ELSE views

\* The link opens; what was shown is kept to come back to.
LinkOpens ==
    LET views == viewer[active].views
    IN /\ running /\ Len(frames) = 1
       /\ Top.job = "follow"
       /\ live' = Destroyed(Oldest(views))
       /\ viewer' = [viewer EXCEPT ![active].views =
                        Append(Kept(views), View(Top.provider, Top.owned))]
       /\ frames' = <<>>
       /\ UNCHANGED <<provider, active, running>>

----------------------------------------------------------------------------
(* Operations that take no time *)

\* Back releases what is shown; with nothing to go back to it does nothing.
ViewerBack ==
    /\ Idle /\ InViewer
    /\ Len(viewer[active].views) > 1
    /\ live' = Destroyed(IF Shown(active).owned THEN {Shown(active).provider}
                                                ELSE {})
    /\ viewer' = [viewer EXCEPT ![active].views = Front(@)]
    /\ UNCHANGED <<provider, active, frames, running>>

ToggleFullscreen ==
    /\ Idle /\ InViewer
    /\ viewer' = [viewer EXCEPT ![active].fullscreen = ~ @]
    /\ UNCHANGED <<live, provider, active, frames, running>>

ViewerClose ==
    /\ Idle /\ InViewer
    /\ live' = Destroyed(OwnedByViewer(active))
    /\ viewer' = [viewer EXCEPT ![active] = None]
    /\ UNCHANGED <<provider, active, frames, running>>

\* Mutant: the focus moves whatever the Viewer covers.
MayLeave(i) == TRUE

Leaves(i) == IF viewer[i] = None THEN TRUE ELSE ~ viewer[i].fullscreen

\* The focus goes to the other pane.
PanelSwitch ==
    /\ Idle
    /\ Leaves(active)
    /\ active' = Other(active)
    /\ UNCHANGED <<live, panes, frames, running>>

\* Mutant: the Viewer stays where it is.
ViewersStay(f) == f

\* The panes change places with all they have, the Viewer included.
Swapped(f) == [i \in Panes |-> f[Other(i)]]

PanelSwap ==
    /\ Idle /\ InFiles
    /\ provider' = [i \in Panes |-> provider[Other(i)]]
    /\ viewer' = Swapped(viewer)
    /\ UNCHANGED <<live, active, frames, running>>

\* nav_ui_run closes both Viewers, then main destroys the panes' providers.
Quit ==
    /\ Idle
    /\ live' = Destroyed((UNION {OwnedByViewer(i) : i \in Panes})
                         \cup {provider[i] : i \in Panes})
    /\ viewer' = [i \in Panes |-> None]
    /\ running' = FALSE
    /\ UNCHANGED <<provider, active, frames>>

Next ==
    \/ \E p \in Providers :
           OpenRepository(p) \/ FollowLink(p) \/ DownloadLink(p) \/ AuthRetry(p)
    \/ OpenLocation \/ ViewFile \/ DownloadFile
    \/ ViewLocation \/ DownloadLocation \/ OfferDownload
    \/ Return \/ Attach \/ ViewerOpens \/ LinkOpens
    \/ ViewerBack \/ ToggleFullscreen \/ ViewerClose
    \/ PanelSwitch \/ PanelSwap \/ Quit

Spec == Init /\ [][Next]_vars

----------------------------------------------------------------------------
(* Properties *)

TypeOK ==
    /\ live \subseteq Providers
    /\ provider \in [Panes -> AnyProvider]
    /\ viewer \in [Panes -> Viewers \cup {None}]
    /\ \A i \in Panes : viewer[i] # None => Len(viewer[i].views) <= MaxBack + 1
    /\ active \in Panes
    /\ frames \in Seq(Frames)
    /\ running \in BOOLEAN

ViewsOf(i) == IF viewer[i] = None THEN <<>> ELSE viewer[i].views

\* Whatever a pane, a Viewer, its way back or the handler in progress refers
\* to has not been destroyed.
NoDangling ==
    running =>
        /\ \A i \in Panes :
               /\ provider[i] \in live \cup {Local}
               /\ \A k \in DOMAIN ViewsOf(i) :
                      ViewsOf(i)[k].provider \in live \cup {Local}
        /\ \A k \in DOMAIN frames : frames[k].provider \in live \cup {Local}

\* Those that will destroy p.
Owners(p) ==
    {<<"pane", i>> : i \in {j \in Panes : provider[j] = p}}
    \cup (UNION {{<<"view", i, k>> : k \in {j \in DOMAIN ViewsOf(i) :
                      ViewsOf(i)[j].owned /\ ViewsOf(i)[j].provider = p}} :
                 i \in Panes})
    \cup {<<"frame", k>> : k \in {j \in DOMAIN frames :
                     frames[j].owned /\ frames[j].provider = p}}

\* Every provider has one owner: none is destroyed twice, whichever way an
\* operation ends, and none is left that nobody will destroy.
OneOwner ==
    running => \A p \in live : \E o \in Owners(p) : Owners(p) = {o}

\* When main returns every provider has been destroyed.
NothingLeaked == ~ running => live = {}

\* "Opening a transient direct URL transfers provider ownership to that session
\* only on success": what a Viewer does not own is the provider of the pane it
\* is in, wherever the pane was moved, so that it lasts as long as the Viewer.
BorrowsFromItsPane ==
    running => \A i \in Panes : \A k \in DOMAIN ViewsOf(i) :
        ~ ViewsOf(i)[k].owned => ViewsOf(i)[k].provider \in {provider[i], Local}

\* All of these: whatever refers to a provider refers to one that is there,
\* which has one owner, who will destroy it.
Ownership == NoDangling /\ OneOwner /\ NothingLeaked /\ BorrowsFromItsPane

\* "Panel Switch is ignored while fullscreen, preventing focus moving to
\* invisible content": a Viewer that covers both panes has the focus.
FocusIsVisible ==
    \A i \in Panes : viewer[i] # None /\ viewer[i].fullscreen => active = i
=============================================================================
