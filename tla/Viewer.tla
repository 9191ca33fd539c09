------------------------------- MODULE Viewer -------------------------------
(***************************************************************************)
(* What the Viewer reads and shows of a remote resource: the block cache   *)
(* (BlockCache) and the cursor with its searches (RemoteView).  The two    *)
(* share no state but the size of a block; the properties of the cursor    *)
(* are named here for the run and the proofs about both.                   *)
(***************************************************************************)
EXTENDS BlockCache

CONSTANTS Texts, Pages, GotoLines, Newline, Match, Other  \* RemoteView

VARIABLES text, cursor, top, row, search, slipped         \* RemoteView

screen == <<text, cursor, top, row, search, slipped>>

Screen == INSTANCE RemoteView

\* What the constants of the cursor have to be.
ASSUME PartsAssumption == Screen!ConstantsAssumption

\* No resource begins with an empty line: over one that does, the first line
\* is never reached from the second (see MCRemoteView).
FirstLines == \A t \in Texts : Len(t) > 0 => t[1] # Newline

----------------------------------------------------------------------------
(* Properties of the cursor *)

\* The cursor is at the start of a line and its number is right, and it is as
\* far below the top as the row says.
CursorState == Screen!CursorsAreExact /\ Screen!RowIsDistance

\* Find stops at the first match in its direction.
FindIsNearest == Screen!FindIsNearest

\* A search ends, matches or not, however reads fail.
SearchEnds == Screen!SearchEnds
=============================================================================
