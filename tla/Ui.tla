---------------------------------- MODULE Ui ----------------------------------
(***************************************************************************)
(* What the user sees and types: the panes with the Viewers and providers  *)
(* they hold (Workspace), the history of a pane, the list of a pane, the   *)
(* keymap and the keys.  These parts share no state; the properties of     *)
(* each are named here for the run and the proofs about all of them.       *)
(***************************************************************************)
EXTENDS Workspace

CONSTANTS Attachable, ResourceIds, HistoryMax, Limits,          \* PaneHistory
          Entries, Dotted, Parent, Filters, NoFilter, Orders, Given,
          Settings, Heights, BriefColumns,                      \* ListView
          Contexts, Commands, Owner, Defaults, KeySeqs, Files,
          BindingMax, MaxEdits, Failed,                         \* Keymap
          Keymaps, Global, Workspaces, Modal, Progress,
          Strokes, Escape, Unshifted                            \* KeyInput

VARIABLES
    attached, location, history, history_enabled, max_entries,
    drifted, squeezed,                                            \* PaneHistory
    directory, pane, show_hidden, settings, height, session,      \* ListView
    keymap, file, edits, edited, asked, refused,                  \* Keymap
    map, screen, shell, own, back, ran, pasting, cut, last        \* KeyInput

past == <<attached, location, history, history_enabled, max_entries, drifted, squeezed>>
list == <<directory, pane, show_hidden, settings, height, session>>
keys == <<keymap, file, edits, edited, asked, refused>>
input == <<map, screen, shell, own, back, ran, pasting, cut, last>>

Past == INSTANCE PaneHistory WITH Providers <- Attachable, provider <- attached
List == INSTANCE ListView WITH config <- settings
Keys == INSTANCE Keymap
Input == INSTANCE KeyInput

\* What the constants of the parts have to be.
ASSUME PartsAssumption ==
    /\ ConstantsAssumption /\ Past!ConstantsAssumption /\ List!ConstantsAssumption
    /\ Keys!ConstantsAssumption /\ Input!ConstantsAssumption

----------------------------------------------------------------------------
(* Properties of the parts; Workspace has its own *)

\* A pane's history holds only locations of the provider the pane is attached
\* to, so that Back and Forward never hand a location to another provider.
EntriesBelongToProvider == Past!EntriesBelongToProvider

\* The entry at the cursor of the history is what the pane lists.
CursorNamesLocation == Past!CursorNamesLocation

\* A visit keeps the way back.
VisitKeepsWayBack == Past!VisitKeepsWayBack

\* The cursor is on one of the rows that are shown, in a list that is sorted.
CursorIsOnScreen == List!CursorIsOnScreen

\* The cursor keeps its entry through sorting, refreshes and resizes.
CursorKeepsItsEntry == List!CursorKeepsItsEntry

\* Cancel of the Preferences brings back the pane as it was.
CancelRollsBack == List!CancelRollsBack

\* What is typed in a context has one meaning at most.
OneMeaning == Keys!OneMeaning

\* An edit takes no key from another command unless the user agreed.
NoKeyTakenUnasked == Keys!NoKeyTakenUnasked

\* A profile that cannot be saved is so for one of the reasons known.
RefusalHasACause == Keys!RefusalHasACause

\* A command that runs is bound to what was typed on the screen in front.
RunsWhatWasTyped == Input!RunsWhatWasTyped

\* Pasted text runs no command.
PasteIsText == Input!PasteIsText
=============================================================================
