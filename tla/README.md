# A verification project for navi8or

navi8or is a two-pane file manager for the terminal, written in C. It lists
local directories, HTTP repositories and SMB shares, copies, moves and
downloads files, views text (local or remote), and keeps credentials in an
encrypted vault. This directory holds TLA+ modules that model its core, the TLC
configurations that check them on small instances, and theorems about them that
TLAPS proves for every value of the constants.

    tlc -config MCVault.cfg MCVault         # one of the runs listed below
    tlapm Vault_proofs.tla                  # one of the proof modules

## 1. The system

The program has one thread: one main loop reads a key, finds the command of the
active context, and runs its handler to the end; dialogs, progress windows and
prompts are modal loops inside a handler, and libcurl calls back only from
inside `curl_multi_perform`. So inside one instance handlers do not interleave.
What does interleave, fail or go stale:

  * several instances of the program, and other programs, share the file
    system: `vault.bin`, the configuration, the directories one copies into;
  * any system call may fail, the instance may be killed and the machine may
    lose power between two of them;
  * servers answer late, short, not at all, elsewhere, or differently the second
    time, and other clients change what they hold;
  * several copies of one thing are kept and have to agree: the settings in
    force, staged, saved and on disk; the keymap and the profile it came from;
    the list and the cursor into it; the repositories and their file;
  * pointers and copies outlive what they point to or were copied from:
    providers in histories and viewer sessions, the limit of a history, the
    blocks of a cache, the salt of a vault another instance has replaced;
  * two loops read the terminal, each with an input state of its own.

### Inventory

| Component | State it keeps | Operations | Interacts with | Hard behaviour | What makes it correct | Here |
|---|---|---|---|---|---|---|
| Pane history (`commander.c`, `main.c`, `ui/ui.c`) | per pane: provider, location, array of 128 locations, cursor, limit | visit, Back, Forward, open a repository or foreign location, reload, preference | calls the provider to list; the provider is destroyed when a pane changes it | order of calls; a failed listing; the limit changing under a live list | only live providers; cursor and listing agree; the way back is kept | `PaneHistory` |
| Credential vault (`credential/vault.c`, `credential/store.c`, `platform/secure_file_posix.c`) | per instance: locked or unlocked, records, salt, key; shared: `vault.bin` | open, create, unlock, lock, put, delete; write-temporary, sync, rename | the UI, and HTTP/SMB providers through the store | crash, power loss, several instances, rollback of a failed save | the file is an atomic register of whole images that open again; memory equals file between operations | `Vault`, `AtomicStore` |
| File transfer (`transfer/download.c`, `transfer/transfer.c`, `provider/local.c`, `ui/location.c`) | open handles, stdio buffer, sizes, the `.part` file | download, copy, move, retry after authentication, cancel | reads one provider, writes another | partial failure, cancellation, races for one name, late flush errors | partial files private and cleaned up; success means complete; nothing lost unasked | `Transfer`, `HttpCopy` |
| Remote text source (`view/source.c`, `provider/http.c`) | 16 blocks of 64 KiB with stamps, known size | byte at an offset; bounded HTTP read | HTTP provider | failing and short reads, eviction | the byte is the one at the offset | `BlockCache` |
| Viewer cursor (`view/source.c`, `view/viewer.c`) | byte cursor, top of the window, row, line number | Up, Down, Page, Home, End, GoTo, Find, link search | the source above; `ui/viewer.c` dispatches | unreadable blocks in mid-movement, window resize, loops without interruption | cursors at line starts, right line numbers, nearest match, every search ends | `RemoteView` |
| Commander list view (`commander.c`, `ui/ui.c`) | selection, scroll, filter, sort, listing | move, filter, sort, views, refresh, delete, rename, previews of the Preferences | history, provider, Preferences | the cursor is a number into a list that is filtered, sorted and read again | the cursor keeps its entry and is on the screen; Cancel rolls back | `ListView` |
| Panes, sessions, ownership (`ui/ui.c`, `ui/viewer.c`, `ui/location.c`) | provider pointers in panes, viewer stacks (16 resources), dialogs | open, follow a link, Back, close, retry, swap, quit | every component that holds a provider | transfer of ownership on success only | no dangling provider, one owner each, all freed at exit | `Workspace` |
| HTTP provider (`provider/http.c`) | curl handles, window of a paused stream, redirect state; the parser of a listing | list, stat, streamed read, upload, bounded read | libcurl callbacks | pausing, cancellation, redirects out of scope, a page in pieces | bytes in order, once; errors are not ends; a copy ends | `HttpCopy`, `ByteStream`, `HttpListing`; bounded reads in `BlockCache` |
| HTTP authentication (`ui/http_auth.c`, `location.c`) | attempts, remembered scopes, repositories | retry with another credential, remember a scope, add a repository | vault, providers, dialogs | save fails after memory changed; locked and unlocked in between | credentials stay in scope; what was refused is not repeated; a restart finds the same | `Repositories`; providers in `Workspace` |
| Configuration (`config.c`) | nav.toml, profiles, repositories.toml | start, reload | every component reads it | three files, each may be missing or faulty; reload while dirty | what is in memory is what the files say | `Settings`, `Repositories`, `Keymap` |
| Profiles, preferences (`profile.c`, `ui/preferences.c`) | session, candidate, staged and saved settings | open, edit, template, apply, cancel, save (two files) | every component reads them | two files are not one transaction; a save that fails half-way | nothing lost or written unasked | `Settings`, `Keymap`, `ListView` |
| Keymap and input (`input/keymap.c`, `ui/shell.c`) | bindings, pending prefix, paste | bind, replace, resolve | profiles; every screen | prefix of another binding; two input states; a paste that spans screens | every sequence means one command; a paste runs none | `Keymap`, `KeyInput` |
| SMB provider, registry, themes, widgets, terminal, platform layer, vendored code, build scripts | | | | | | not modelled, see section 7 |

## 2. Plan

The most important behaviour first. Done:

 1. `PaneHistory`, `AtomicStore`, `Vault`, `BlockCache` with their proofs;
    `Transfer`, `RemoteView`, `Workspace`.
 2. `Settings` with its proofs, and `Repositories`: what a session keeps, and
    the files it comes from.
 3. `HttpCopy` over the abstract `ByteStream`: streamed reads and uploads under
    the loop of a copy; `HttpListing`: a page parsed as it is received.
 4. `ListView`, `Keymap`, `KeyInput`: from a key typed to the entry it acts on.

 5. Proofs of `HttpCopy` with its refinement of `ByteStream`, `Workspace`,
    `Transfer`, `Repositories`, `ListView` and `KeyInput`.
 6. `Induction`: what loops, folds and recursive functions compute, as lemmas
    about functions on `0 .. n`; with it the proofs of `RemoteView` (cursors,
    Find), of `Keymap` (one meaning, nothing taken unasked), of the loader of
    repositories.toml, and of the index of `HttpListing`.
 7. What `Update` of `Keymap` writes and reads back is what was edited
    (`RefusalHasACause`).

Left: rename and directories over HTTP, directories in `Transfer`, and a proof
of `ListsThePage`, for which the model of a page would have to say more of the
text a row consists of.

Each model is written to be proved about: constants with named assumptions, one
action per operation, no RECURSIVE operator, recursion only as functions and
folds, and a fold over an operator that has a name.

## 3. Modules

Every definition names in `PROJECT.json` ("map") the lines it stands for.
Definitions marked `Mutant` are wrong on purpose: substituted for the
definition after them they make a property fail, which shows the property
depends on the code. They play no part in the specifications.

### PaneHistory

`history` is the `NavHistory` of a pane: the sequence of recorded locations,
the C index of the cursor and the limit. `Push` is `nav_history_push` with its
`memmove`; `Load` is any successful `pane_load`; `HistoryBack/Forward` move the
cursor first and list afterwards, as the code does, so that a failing listing
(`loaded = FALSE`) leaves the two apart; `OpenReplacement` is opening a
repository or a location of another provider, which zeroes the history and its
limit with it; `ReloadConfig` changes the limit of the live list;
`SetHistoryEnabled` is the preference. Two ghosts say when cursor and listing,
or list and limit, have been driven apart by a case the code accepts.

### AtomicStore and Vault

`AtomicStore` is what a file replaced with `nav_platform_secure_write_atomic`
promises: absent or one whole image, replaced in one step, and after a power
loss either the current image or the last one known to be on disk.

`Vault` has, per instance, the store (none, locked, unlocked), the records, the
salt and the key, and what an operation in progress remembers for its rollback.
A save is six steps (`mkstemp`, write, `fsync`, rename, directory sync, or
failure at any of the first four), and anything may come between: another
instance's steps, a crash, a power loss, the system's own write-back. Contents
reach the disk by `fsync`, the directory entry by its sync or at any time.

The refinement maps `disk` and `durable` to the images they hold, and a file
that is not whole or not synced to something that is no image; `Register!Spec`
is then both a property of the runs and a theorem.

Assumptions: encryption is ideal (an image decrypts under the key it was
written with only); the removal of the temporary file after a failure succeeds;
nobody removes `vault.bin` by hand.

### Transfer

The directory maps names to file objects and `.part` names to file objects; a
handle keeps its object whatever happens to the name. `Choose` is the dialog
(overwrite is set if the target existed when one looked), `Begin` the checks,
`OpenRead`, `OpenPartial`, `OpenTarget` the opens, `Stream` one turn of the
copy loop with a stdio buffer that reaches the file now or later, `EndOfSource`
and `Break` its ends, `Close` the `fclose` that may fail to flush,
`RenamePartial` and `CleanUp` what follows. `RestOrRetry` is the retry after
the credentials were asked for. `Move` is `command_move` within the local
provider. `ForeignFile` and `Crash` are the environment: a name, or its `.part`
name, may belong to another program or be left by an instance that was killed.

A path is what one types and what `nav_provider_resources_equal` compares;
`NameOf` says which name it leads to, so that two paths may lead, through a
symbolic link to a directory, to one name.

Left out: directories, names that end in ".part" themselves, power loss
(downloads are not synced and nothing promises it), SMB sources.

### HttpCopy and ByteStream

`HttpCopy` is one copy with an HTTP repository at one end or both: the loop of
`nav_transfer_copy_with_buffer` (`frame`), the `HttpRead` (`read`) and the
`HttpWrite` (`write`), and on the other side what libcurl and the servers do to
them (`get`, `put`, `object`). `pc` is the next call. The program is driven by
`curl_multi_perform` inside its own polls: `Receiving` and `Sending` are the
states in which libcurl may call back, one step per callback. `StreamData` is
the write callback with its pause when the reader's buffer is full, `Performed`
what follows a finished request, redirects included, `Keeping` the rest of a
callback's data kept for the next read. `OtherUploads` is another client.
A body whose length is not announced ends wherever the connection does: that is
HTTP, not the code, and `ReadIsStream` counts it as a shorter resource.

`ByteStream` is what a reader is promised: buffers which, one after another, are
one resource from its beginning, and an end only after all of it.

### HttpListing

`http_list_progress` parses the page as libcurl receives it. `Char` is one
character of the machine (tags with quotes, comments, rows of tables and lines
of `<pre>`), `FinishRow` the size and date of a row, `AddLink` the index that
makes every link one entry (`Slot`, `Rehashed`: open addressing that grows),
`Data` one callback with any piece of the page, `Return` what the caller gets.
The names of tags, a date, a size and a link count as one character each.
`ListsThePage` is about the entries the caller gets, `IndexFindsEach` about the
table that finds them while the page is still coming.

### BlockCache

A slot has the block it claims to hold and the bytes that are in it, two things
that can come apart: `Fetch` reads into the slot of the least recently used
block and relabels it, `FetchFails` has written some of the bytes and relabels
nothing. The byte at an offset is the offset, so a byte out of place shows.
Stamps are kept as the order they define. With `ShortReads` the server may send
less than it was asked for, which the code accepts.

### RemoteView

A text is a sequence of three kinds of character: newline, one that matches
what is searched for, another. `NextLine` and `PreviousLine` are the two scans
for a newline, with the first unreadable block met on the way deciding between
an answer and a failure; `MovedBy` is `remote_cursor_move` with its partial
progress; the commands are those of `viewer_dispatch`. Each takes the set of
blocks that cannot be read while it runs: what is assumed of the cache is that a
read brings the right byte or fails, which `BlockCache` shows to hold only for
slots no failed read has touched. Find and link search go line by line, one
step each, because their hazard is that they do not end.

Left out: the 8 MiB line limit and binary data (both count as a line that
cannot be read), wrapping, columns, URL detection.

### Workspace

`frames` is the C stack of the handler in progress as far as it holds
providers: the handler (`repository`, `location`, `file`, `follow`, `link`) and
what it calls (`view`, the frame of `nav_ui_viewer_open` with its `request`, and
`download`, that of `nav_ui_download`). A frame owns its provider if the C
variable `owned` of that function is set. `AuthRetry` is a successful
`nav_ui_http_auth_retry` on the frame that called it; `Return` is every way out
that keeps nothing; `Attach`, `ViewerOpens` and `LinkOpens` hand the provider
over. A Viewer is the sequence of resources gone back to and the one shown, each
owned or borrowed. `Quit` is the end of `nav_ui_run` and of `main`.

Providers are interchangeable objects that may be created again once destroyed,
as memory is. Their kinds, listings and the text shown are left out; so are
operations that use a provider without passing it on (list, copy, delete).

### Settings

`app` is what is in force, `saved` and `savedUI` the copies that "unsaved" is
judged by, `editor` the Preferences with the state they began with and the
staged proxy, `conf` and `profile` the files. `Start`, `Reload` and `Template`
load; a fault of nav.toml hides what is read after it, and with a profile only
some faults count. `SaveProfile` says where `nav_ui_profile_save` may write and
what the user agreed to; `SavedInEditor` is `save_editor`, the profile first and
the settings after it, either of which may fail. `OthersWrite` is an editor or
another instance. Three ghosts: `how` (the user edits, agrees, or neither),
`known` (each profile as this session last read or wrote it), `fresh` (nobody
changed nav.toml since).

Left out: single values with their clamps and warnings, UI values in nav.toml
itself, legacy full configurations given with `-i`, a change of the display
name alone.

### Repositories

A URL is a sequence of an origin and segments; a root is a prefix. `Resolve` is
`nav_location_resolve`, `Request` the request with the redirects it follows,
`Ask`, `UseOnce`, `Remember` and `AddForRetry` the dialog of
`nav_ui_http_auth_retry`, each with the rollback of a save that fails and with
the dialog that stays when no provider can be made for the retry. `Reload`
may come to repositories.toml or not, since it is read last. The ghosts record
which credential was sent where, what was refused, and how the user agreed to
another attempt (`agreed`): asked in the dialog, which is about the credential
picked there, or by picking another one in the form of a repository
(`repository_pick_credential`), which asks nothing.

### Keymap and KeyInput

`Keymap` makes a keymap of the defaults and the three kinds of entry of a
profile (`Layered`, `Bind`, `Taken`: a binding takes the place of what it
overlaps), edits it (`Replace`, with the question it asks) and saves it as the
least change of the profile (`Update`). The entries of a `[keys.CONTEXT]` table
are a sequence, as the file has them: which comes first matters where two
overlap. Names of keys and the editing of the TOML text are left out:
`profile.c` loads what it wrote and compares, and so does `Save`.

That comparison may fail, and then the save is refused although no system call
failed. `RefusalHasACause` says in which profiles that can be: an entry that
another table of the profile makes void (`Void`), a default taken from a command
nobody edited that nothing takes any more (`Regained`), an entry in the place of
a default of an edited command (`Misplaced`), and more bindings than fit
(`Crowded`). In every other profile what is saved is what was edited.

`KeyInput` is `nav_input_resolve` with the two `NavInput`s there are: the one
all screens share, and the one of a progress screen that polls the terminal by
itself. The ghosts remember the last two events and whether the terminal is in
a paste; `cut` marks a paste that began under a progress screen, whose end the
shared input reads: the code takes the rest of it for typed keys, as it does
when a paste begins while the Preferences capture a key, which is left out.

### ListView

`pane.items` is the order kept, `selected` and `offset` numbers as in C.
`Select` finds the entry of an id again, `EnsureVisible` follows with the first
row, `Refresh` reads the directory, which others may have changed, `Preview`,
`Accept` and `Cancel` are the Preferences at work on the pane. An order stands
for sort mode, directories first and case, and is total. After Rename under a
filter the code keeps the row and not the entry; the property excludes that.

### Ui, Session, Viewer

Parts that one screen or one session holds side by side and that share no
state: `Ui` is `Workspace` with `PaneHistory`, `ListView`, `Keymap` and
`KeyInput`; `Session` is `Settings` with `Repositories`; `Viewer` is
`BlockCache` with `RemoteView`; `Http` is `HttpCopy` with `HttpListing`. They
declare the constants and variables of all, assume of the constants what each
part needs, and name the properties, for the runs and the proofs alike.

### Induction

No model: lemmas that need none of the system. `UpTo` is induction to a bound,
`Iterated`, `Recurs`, `FoldDefined` and `FoldRuns` say that a fold of the
community modules is defined and is the last of a sequence of intermediate
results, `Grown` is induction along a sequence, `Selected` says what `SelectSeq`
keeps, and the last ones divide with remainder.

### Instances

`MCVault`, `MCCopies`, `MCViewer`, `MCHttp`, `MCConfig` and `MCUi` instantiate
the modules. In `MCCopies` a behaviour is one of two instances on one name or of
a third one on two (`alone`). The last four are of the modules above: the
variable `part`, chosen in the initial state, says which of them goes on, and
the others wait in one initial state. That shows of every part what a run of
its own would, as nothing a part reads is written by another.
`MCTransfer`, `MCBlockCache`, `MCRemoteView` and `MCKeymap` are the instances
of the findings; `http_cleanup` and `auth_form` have a .cfg of their own for
`HttpCopy` and `MCConfig`.

## 4. Runs

All runs check for deadlock except `ui`, `http` and `http_cleanup`, where
the program stops after Quit or a copy when it is done. "States" are distinct
states.

| Run | Question | Bounds | States |
|---|---|---|---|
| `ui` | History, providers, list, keymap and keys, each in every order of its operations: does the history agree with the listing and name live providers, has every provider one owner, does the cursor keep its entry, does Cancel roll back, has a key one meaning and runs nothing unasked? | history: 2 providers, 3 resources, array of 4, limits 1 to 4; 4 provider objects, a way back of 2; 4 entries in 2 orders, 2 heights; 3 commands, 2 contexts, 8 profiles, 2 edits; 2 keymaps of one and two strokes | 187 thousand |
| `vault` | Two instances interleaving their operations and saves: atomic file that opens, exact rollback, no stray temporary? | 2 instances, 2 names, 2 passwords, 2 records at most, 2 creations | 380 thousand (up to symmetry) |
| `copies` | Two instances and other programs on one name; one instance on two names with a two-block source: are partial files private, others' files kept, and does success mean complete? | 2 files created | 654 thousand (up to symmetry) |
| `config` | Settings, profiles, repositories and scopes through failures and others' changes: is nothing lost or written unasked, and do credentials stay where they were sent and refusals remembered? | 2 values of each setting, 1 profile and 1 template, 4 faults; 2 roots, 2 resources, 2 credentials, room for 2 repositories and 1 scope; 1 change by others | 800 thousand |
| `viewer` | Are untouched slots right; are cursors exact, is the match the nearest, does every search end? | 3 blocks of 2 bytes, the last short, 2 slots; every text of at most 5 characters that does not begin with a newline, 2 window sizes | 41 thousand |
| `http` | A copy from or to a server that redirects, refuses, delays or breaks off: in the root, in order, whole, and over at some time? A page in any pieces: is each link listed with what its rows say, and found in the index? | 3 blocks, buffers of 1 and 2, 2 a callback, 1 redirect; 3 rows of 10 kinds | 415 thousand |
| `transfer_alias` | violation: does a copy never write the file it reads? | two paths leading to one name | ends at the violation |
| `cache_clobber` | violation: is a byte the one at its offset? | 4 blocks, 3 slots, no short reads | ends at the violation |
| `view_hang` | violation: does every search end? | a text of two lines, the first empty | ends at the violation |
| `http_cleanup` | violation: does the clean-up of a failed upload spare what others stored? | as `http` | ends at the violation |
| `auth_form` | violation: is what was refused sent again only after the question? | as `config`, with one name and no edits by hand | ends at the violation |
| `keymap_save` | violation: can what was edited be saved? | as `ui` | ends at the violation |

Why the bounds are enough to be of use. History: a limit below, at and above
the number of entries, and a list longer than its limit, all occur with four
entries. Vault: two records are needed for a deletion in the middle and an
order to be restored, two instances and two creations for one to replace the
other's vault, two passwords for a wrong one; with one user name and one secret
an edit changes nothing but what a blank secret would, so the rollback of edits
rests on the theorem `MemoryAndDiskAgree`, for all values. Copies: one block is
enough for who writes where, two for what a late flush loses; two file objects
suffice for a loser and a winner of one name. Config: with two values an edit
can be taken back by hand as well as by Cancel; one profile and one template are
a file to write and one not to, and the theorems of section 6 speak of any
number; one change by others falls before, between and after every two steps;
room for one scope makes the second one fail. Viewer: with three blocks and two
slots every read but the last ones evicts; five characters hold up to five
lines, an empty line inside and at the end, and three blocks of which any may be
unreadable. Http: three blocks over buffers of one and two make a callback
bring more than fits, exactly what fits and less; a read of a resource of no
blocks, a resource that ends with a full buffer and one that does not all occur;
one redirect is followed and a second one is one too many. Listing: three rows
make the index grow once and two links share a slot. Workspace: a Viewer can
fill its way back and evict; four objects let a pane, a Viewer with its way
back and a retried request hold remote providers at once.

Symmetry is used for the two instances in `copies` and for instances, names,
secrets and passwords in `vault`: model values that no definition tells apart,
in runs without liveness properties.

Every property of a passing run has a mutant in `PROJECT.json` under which TLC
finds it violated.

### Fairness

`RemoteView` assumes weak fairness of `SearchStep`, because the search is a loop
inside one handler that nothing interrupts. The ghost `turn` changes with every
turn of that loop, also one that goes nowhere; without it a search that stays
where it is would be a stuttering step, and fairness would ask for a read
failure to get it out.

`HttpCopy` assumes weak fairness of the program's own steps, since the loop of a
copy polls until it is done, and strong fairness of a download and of an upload
that is not paused: libcurl goes on with a transfer it was given or gives it
up, after `CURLOPT_CONNECTTIMEOUT` (3 s) or when nothing moves for
`CURLOPT_LOW_SPEED_TIME` (15 s). Strong, because the program's own polls come
between libcurl's steps and may disable them for a moment (a pause). A paused
upload is excepted: only the program continues it, and that it does is what
`CopyEnds` is about.

No fairness is assumed of the user, of other clients or of other programs. The
other specifications have safety only: every operation of theirs ends by its
own control flow.

## 5. Findings

Disagreements between the code and what the repository says of it, each shown
by a run that TLC ends with a counterexample:

 1. `view_hang` - In a remote text whose first line is empty, Find Previous and
    Previous Link from any later line hang the program, and Up stops at the
    second line while the line number goes on down (`view/source.c:166`).
 2. `cache_clobber` - A bounded read that fails after part of its body has
    overwritten the least recently used block, which stays valid: the Viewer
    later shows bytes of the wrong block (`view/source.c:97`).
 3. `transfer_alias` - Copying a file onto itself through a symbolic link to a
    directory truncates it and reports success (`commander.c:39`).
 4. `auth_form` - After a refusal, "Add as Repository" with another credential
    opens a form in which the refused one can be picked, and it is sent again
    without the question the dialog asks and docs/REMOTE.md:84 promises
    (`ui/http_auth.c:140`).
 5. `http_cleanup` - An upload refused because another client stored the name
    first is cleaned up with a DELETE of that client's file, where a comment
    says there is no remote DELETE (`transfer/transfer.c:75`).
 6. `keymap_save` - If a profile gives one command a default key of another,
    giving the first another key makes saving the profile fail until the keys
    are edited back (`profile.c:442`).

Three more cases the models have and no run shows as a violation. Move
(`command_move`, `ui/ui.c:535`) renames onto an existing name without looking,
so it replaces a file although "Confirm Overwrite" (`ui/preferences.c:35`) is
on: `OverwriteConfirmed` of `Transfer` is false of every instance with moves
between two names, and true without them (`OnlyMovesReplace`). Of the other two
nothing in the repository says otherwise plainly enough. A reload with a profile puts
defaults in force for what a faulty nav.toml hides (`config.c:941`;
docs/CONFIGURATION.md:33 says a reload validates first). A start or reload that
did not come to repositories.toml, followed by adding a repository, replaces
that file by one with the new repository alone; the ghost `fresh` of
`Repositories` excepts it.

## 6. Proofs

| Module | Theorems |
|---|---|
| `Vault_proofs` | `InvHolds`; `TypeCorrect`, `NeverTorn`, `AlwaysOpens`, `MemoryAndDiskAgree`, `NoTempLeft`, `ImplementsAtomicStore` |
| `Viewer_proofs` | of `BlockCache`: `InvHolds`; `TypeCorrect`, `BlocksCachedOnce`, `SlotsAreFaithful`, `LastReadsAreCached`; of `RemoteView`: `CursorsStayExact`, `FindStopsAtFirst` |
| `Config_proofs` | of `Settings`: `InvHolds`; `TypeCorrect`, `NetworkIsStaged`, `UnsavedIsJudgedRight`, `OnlyNamedWritten`, `NothingIsLost`; of `Repositories`: `CredentialsAreScoped`, `RefusalIsRemembered`, `RestartsFindTheSame` |
| `Http_proofs` | of `HttpCopy`: `TypeCorrect`, `RequestsStayInRoot`, `SuccessMeansWhole`, `FragmentsAreAnnounced`, `OthersAreKept`, `ReadImplementsStream`; of `HttpListing`: `EachLinkIsFound`, `LinksAreListedOnce` |
| `Transfer_proofs` | `InvHolds`; `TypeCorrect`, `PartialsStayInOrder`, `StrayPartialsKept`, `OthersAreKept`, `SuccessMeansComplete`, `LocalCopiesAreFaithful`, `OnlyMovesReplace`, `DifferentPathsSuffice` |
| `Interface_proofs` | of `Workspace`: `TypeCorrect`, `FocusStaysVisible`, `OwnershipHolds`; of `PaneHistory`: `PastInvHolds`; `PastTypeCorrect`, `HistoryStaysBounded`, `NoForeignEntries`, `CursorIsAccurate`, `NoRepeatsInARow`, `WayBackIsKept`; of `ListView`: `ListTypeCorrect`, `CursorStaysOnScreen`, `CursorFollowsEntry`, `CancelBringsBack`; of `KeyInput`: `KeysTypeCorrect`, `CommandsWereTyped`, `PastesRunNothing`, `NothingIsLeftWaiting` |
| `Keymap_proofs` | `KeysHaveOneMeaning`, `NoKeyIsTaken`, `RefusalsHaveACause` |
| `Induction` | lemmas only |

They hold for every number of providers, resources, instances, names, files,
records, slots, bytes, blocks, profiles, settings, entries, strokes, bindings,
links and rows. They assume of the constants what the modules do, as named
ASSUMEs: a capacity is a positive natural, `None` is none of the values,
defaults are among the values, the ranks of a sort order are injective, a
context of a progress screen is modal. The parts of `Ui`, `Session`, `Viewer`
and `Http` have them as a definition `ConstantsAssumption`, and the composing
module assumes that of its parts (`PartsAssumption`), so that TLC evaluates
every one. Those that are more than types:

  * `FirstLines`, a hypothesis of `CursorsStayExact` and `FindStopsAtFirst`: no
    text begins with a newline. Where one does, both fail, which is the finding
    `view_hang`; `MCViewer` assumes it as well.
  * `Keymap`: the default bindings do not overlap (`nav_keymap_defaults` makes
    them with `nav_keymap_bind`, which would fail), and the number of bindings
    is limited by a natural.
  * `Repositories`: what repositories.toml is edited to is a list of
    repositories and a list of rules; a resource is more than an origin.
  * `HttpListing`: `Hash` gives each link a number, about which nothing is
    assumed, and the first index has at least two slots.

PaneHistory. The properties are one inductive invariant together: bounds,
ownership, agreement of cursor and listing, absence of repetition. What makes
it work are lemmas about the operators, first among them `Push`: that the list
is bounded afterwards follows only from the way `Room` makes room (a list
longer than its limit is shortened by one however long it is), and that no
neighbours are equal only while the list is not over its limit, hence the ghost
`squeezed`. `WayBackIsKept` is an action property that follows from the
invariant in the state before.

Vault. The invariant says more than the properties: in each instance the key
belongs to the salt, a save in progress has exactly the memory its operation
describes and can undo, the temporary file at each stage is the image of that
memory and is whole and synced from the stage on where it must be, and whatever
is on disk is whole, synced, well formed and under its own key. `fresh`, the
instances that saw the latest replacement, is what makes "memory equals file"
inductive with other instances around: a rename by another instance takes one
out of it. The refinement needs of all this only that the files are whole and
synced images at every step.

BlockCache. That the blocks read last are cached is not inductive: it depends
on which slot is given up. The invariant adds `SameAge`: the slots in the order
of their stamps hold the blocks in the order they were last read. A hit moves
the same place of both orders to the end (`UsedTogether`, from the lemma
`Moved` about taking an element out and appending it); a read of a block no
slot holds appends to both and, when the cache is full, drops the first of
both (`FetchOrders`). That "full" is the same for both is a counting argument:
an order without repetition that lists the valid slots is as long as they are
many (`OrderCounted`). `UntouchedIsFaithful` needs only that a read which brings
no byte changes none.

Settings. `NothingLostSilently` is about steps at which the code asks nothing,
and the code decides that by flags; so the proof is about what the flags mean.
`FlagsAgree` says it: while the program runs, `profile_dirty` is clear only if
the profile in force is the one saved, and that one is known from a file of this
session; before anything was saved, the one in force is. A template that is
read again must not make the session forget what it knew of it, which is why
the invariant also has `TemplatesStay`. With it each of the four parts of the
property follows step by step (`StepLosesNothing`). `OnlyNamedFilesWritten`
needs the type of `app.path` and `SavedWhere`, what `nav_ui_profile_save` may
choose. The invariant is independent of how many files others change and when.

HttpCopy. The blocks of one resource are at any moment in four places: handed
out, in the reader's buffer, kept from a callback that brought more than fitted,
and still with the server. That these, one after another, are one resource is
the core of the invariant, with how many of them the announced length allows.
Each step moves blocks over one of the borders (`Halves`, `MinOfThree`: as many
as are there, fit and come). `ReadImplementsStream` maps a reader to `ByteStream`
with what it was given and how it ended, and needs that a read ends well only
when nothing is kept or due. `SuccessMeansWhole` also follows an upload, whose
blocks are those fed to libcurl. `RequestsStayInRoot` and `OthersAreKept` are
about every redirect and every request with a precondition.

Workspace. That every provider has one owner is inductive together with where
the borrowed ones come from (`Borrowed`): what a frame does not own belongs to a
pane, a Viewer or a frame below it, and a callee borrows from its caller. A
provider is alive exactly as long as it has an owner (`Accounted`), so "destroyed
once", "after its last use" and "all destroyed at the end" are the same fact.
`InProgress` says which handler may be on top of which.

Transfer. The argument is about which file is which. Files are numbered as they
are created, so a new one is known to nobody; a partial file has never had a
final name, and no two names lead to one file (`Named`); hence only the download
that staged it can write, rename or remove it, and what it wrote is still what
it read when it renames it (`Streamed`). Two theorems have a hypothesis about
the scheduling. `OthersAreKept` supposes that nobody moves files while another
instance copies: `command_move` looks at nothing, so a name that was looked at
may lead to another file by then. `LocalCopiesAreFaithful` is about the only
instance that runs: the local provider opens the target itself, and two
instances may write one file. The last two theorems say what is behind two
cases of section 5: without Move nothing is replaced unconfirmed
(`OnlyMovesReplace`, of `OverwriteConfirmed`), and where no two paths
lead to one name no copy reads the file it writes (`DifferentPathsSuffice`;
`NeverOntoItself` is what `transfer_alias` refutes).

Repositories. Both theorems are about the operation that goes on. A credential
the user did not choose for it is one that a repository or a rule names, still
there, for a root the resource is in (`Vouched`): nothing but the dialog of the
operation changes the lists meanwhile, and what leads on from the dialog is the
user's choice, for one URL. What the server refused is among
the credentials tried, or will be put there when the dialog comes (`Counted`),
also if the store was locked in between. `RefusalIsRemembered` is what follows
for the dialog: what is in that list is asked about when it is picked there. Of
the form of a repository, which asks nothing, it says nothing; that is the
finding `auth_form`.

`RestartsFindTheSame` is about what the loader computes: it drops names it has
met and entries over a limit, so it gives back all of a list only if the list
could have been loaded (`FileInv`: no name twice, no list over its limit). That
every operation keeps to that, the rollback of a failed save included, is what
the invariant needs; that the loader, entry by entry, then drops nothing is an
induction along the file.

ListView. `Sorted` stands for the sorting routine; that it lists a finite set
once each, upwards, is a counting argument (`SortedIs`), and the rows shown are
an instance of it (`ShownIs`). `EnsureVisibleIs` is the arithmetic of rows and
columns for every size of the window. Every action but a resize ends by drawing
a pane that keeps the cursor's entry, or leaves list and view alone, or ends the
Preferences (`Leads`); the invariant (`ListInv`) and the two action properties
follow from that, and from what Cancel restores (`RestoresIs`).

KeyInput. The code looks at one event and at what its `NavInput` remembers, the
properties at the events themselves; so the invariant says what the memory
means. A stroke that waits is the last event, met in the context that is noted
(`PendingWasTyped`); nothing waits in a paste or under a progress screen
(`NothingWaits`); the shell is in a paste only while there is one it saw begin
(`Pastes`). That a paste clears what waits is needed: without it the end of a
paste would make one prefix of strokes on both sides of it.

Keymap. That no two bindings of a context overlap (`KeymapInv`, with the fact
that the profile in use can be read) is kept by each operator or it fails: one
binding, a list, a table, a profile, each of them a fold over the one before, and
each an induction. `OneMeaning` and `NoKeyTakenUnasked` follow.

`RefusalsHaveACause` is the round trip: what is edited, written as a change of
the file and read again is what was edited, except in four kinds of profile. The
proof first says what reading one context gives (`Reading`): the lists of the
file, then its entries, then the defaults nothing overlaps, and where each
binding comes from (`Sources`). Reading can only fail by overlap or for want of
room (`Readable`, `ReadFits`). The file as written holds bindings of the keymap
only (`Holds`), which do not overlap, so it can be read (`SavedReads`). Then,
command by command: one that was edited has a list, and its keys come back from
it in their order (`ChangedSaved`); one that was not has what it had, because
the entries and defaults its keys come from are kept and are bound alike before
and after (`Tied`, `UnchangedSaved`). The four exceptions are where a step would
fail: each is a place where the least change of the file cannot say what was
edited. In the run the first three occur, each also alone, and the last one
besides another.

RemoteView. A cursor is exact if its offset is the start of a line and its
number the number of newlines before it. `NextLine` and `PreviousLine` are the
nearest newline on either side (`NextLineIs`, `LineBefore`), counting grows by
one from line to line (`NextNumber`), and a movement of many lines is a sequence
of single ones, of which any may fail (`MovedByIs`, by induction along the
lines). For Find the invariant says of the search that goes on which lines it has
passed and that none of them that could be read has a match (`SearchIsRight`),
before and after it went round the end of the text (`FindNextIsRight`,
`FindWrapIsRight`).

HttpListing. The index is a table with open addressing. `Indexes` says that each
entry is at its slot or behind a run of slots that are taken (`Reaches`), so that
looking from the slot on finds it before it finds a free one; `EnterKeeps` that
entering another keeps that. A table that grows is filled entry by entry, an
induction (`RehashIs`), and a search ends because the table is never more than
half full, so that there is a free slot (`FreeSlot`, by counting). The fold over
the characters of a piece carries this to every page in any pieces (`CharsKeep`,
`PageInv`), and with it that no link is listed twice and that only a page that
was received replaces a listing (`LinksAreListedOnce`).

Folds and recursive functions. The library's induction theorems take an operator
as parameter and cannot be used here; `Induction` says the same with sets and
functions, by the least number for which something fails. A fold is then the
last of a sequence of intermediate results, about which one proves a step.

Only model-checked:

  * Liveness under fairness, which is out of the prover's reach with ENABLED:
    `SearchEnds`, `CopyEnds`.
  * `ListsThePage`, that what is listed of each link is what its own rows say.
    It depends on how the text of a row is made, which the model has as data of
    the run (`MCRows`). What does not depend on it is proved: each link is
    found, none is listed twice.

## 7. Not modelled

  * SMB provider, provider registry: wrappers over libsmb2 and a table.
  * Themes, TOML reading and editing, date and size text, URL and path strings:
    conversions of data without state, which the unit tests cover.
  * Widgets, terminal backend: drawing and modal loops; what a dialog returns is
    a nondeterministic choice of the models.
  * The local source of the Viewer (an index of lines over a file that is read
    once), wrapping, columns, URL detection.
  * HTTP rename and mkdir, directories in copies and downloads.
  * The clamps and warnings of single settings, legacy full configurations.
  * Platform layer for Windows: the POSIX counterpart is modelled.
  * Vendored TOML and termbox code, build and release scripts.
  * Cryptography (ideal), memory exhaustion in the middle of an operation where
    the code treats it as any other failure.
