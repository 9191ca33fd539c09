----------------------------- MODULE RemoteView -----------------------------
(***************************************************************************)
(* The Viewer over a remote resource: the cursor operations of             *)
(* src/view/source.c, which find lines by reading backwards and forwards   *)
(* for newlines, and the commands of src/view/viewer.c that use them.      *)
(* Search and link search, which read line after line, are steps of their  *)
(* own.                                                                    *)
(*                                                                         *)
(* A read brings the right byte or fails: in every command, and in every   *)
(* step of a search, the blocks in bad can be read neither from the cache  *)
(* (see BlockCache) nor from the server.  The size of the resource is      *)
(* known, as it is from the first block on over HTTP.                      *)
(*                                                                         *)
(* A character is a newline, a match of the search text (or a link), or    *)
(* neither.  A position that is not there is AtEdge, one that could not be *)
(* read for is Failed.                                                     *)
(***************************************************************************)
EXTENDS Integers, Sequences, FiniteSets, FiniteSetsExt

CONSTANTS Texts,      \* the resources one may be viewing
          BlockSize,  \* characters read together
          Pages,      \* rows the window may have
          GotoLines,  \* line numbers typed
          Newline, Match, Other,  \* characters
          None        \* no search

AtEdge == -1
Failed == -2
Unknown == -1

\* NavViewCursor; line is the ordinal, Unknown unless ordinal_known.
Cursors == [offset : Nat, line : {Unknown} \cup Nat]

Searches == [kind  : {"find", "link"},
             back  : BOOLEAN,       \* direction
             at    : Cursors,       \* cursor, the local variable
             stage : {"here", "next", "wrap"},
             pass  : {0, 1},
             wrapped : BOOLEAN,     \* did_wrap
             turn    : BOOLEAN,     \* ghost: changes with every turn of the
                                    \* loop, one that goes nowhere included
             failed  : BOOLEAN]     \* ghost: a read failed

\* What the constants have to be.
ConstantsAssumption ==
    /\ Texts \subseteq Seq({Newline, Match, Other})
    /\ BlockSize \in Nat \ {0}
    /\ Pages \subseteq Nat \ {0}
    /\ GotoLines \subseteq Nat \ {0}
    /\ None \notin Searches

VARIABLES
    text,     \* the resource
    cursor,   \* NavViewer.cursor
    top,      \* NavViewer.top_cursor
    row,      \* NavViewer.cursor_row
    search,   \* the search under way
    slipped   \* ghost: the top did not follow the cursor, as a read failed

view == <<cursor, top, row>>
vars == <<text, view, search, slipped>>

Size == Len(text)

Blocks == IF Size = 0 THEN {} ELSE 0 .. (Size - 1) \div BlockSize

----------------------------------------------------------------------------
(* remote_next, remote_previous, remote_cursor_move *)

IsNewline(o) == text[o + 1] = Newline
Bad(o, bad) == o \div BlockSize \in bad
Stops(S, bad) == {o \in S : Bad(o, bad) \/ IsNewline(o)}

NextLine(from, bad) ==
    LET stops == Stops(from .. Size - 1, bad)
    IN IF stops = {} THEN AtEdge
       ELSE IF Bad(Min(stops), bad) THEN Failed
       ELSE IF Min(stops) + 1 = Size THEN AtEdge
       ELSE Min(stops) + 1

\* Mutant: the newline that ends the line above is taken for its start.
NotOverNewline(from) == from - 1

\* The last character but one of the line above, over its newline, unless
\* that is the first character of the resource.
OverNewline(from) ==
    IF IsNewline(from - 1) /\ from - 1 > 0 THEN from - 2 ELSE from - 1

PreviousLine(from, bad) ==
    IF from = 0 THEN AtEdge
    ELSE IF Bad(from - 1, bad) THEN Failed
    ELSE LET stops == Stops(0 .. OverNewline(from), bad)
         IN IF stops = {} THEN 0
            ELSE IF Bad(Max(stops), bad) THEN Failed
            ELSE Max(stops) + 1

Start == [offset |-> 0, line |-> 0]

Raised(line) == IF line = Unknown THEN Unknown ELSE line + 1

\* Mutant: an ordinal that is not known is counted down.
CountedDown(line) == line - 1

Lowered(line) == IF line \in {Unknown, 0} THEN Unknown ELSE line - 1

\* One line on: the cursor, or AtEdge or Failed in its offset.
Moved(c, back, bad) ==
    IF back
    THEN [offset |-> PreviousLine(c.offset, bad), line |-> Lowered(c.line)]
    ELSE [offset |-> NextLine(c.offset, bad), line |-> Raised(c.line)]

\* n lines on: where the cursor is left, how far that is, and whether no
\* read failed on the way.
MovedBy(c, n, back, bad) ==
    LET at[k \in 0 .. n] ==
            IF k = 0 THEN [cursor |-> c, lines |-> 0, result |-> 0]
            ELSE LET before == at[k - 1]
                     next == Moved(before.cursor, back, bad)
                 IN IF before.result < 0
                    THEN before
                    ELSE IF next.offset < 0
                    THEN [before EXCEPT !.result = next.offset]
                    ELSE [cursor |-> next, lines |-> k, result |-> 0]
    IN [cursor |-> at[n].cursor,
        lines  |-> at[n].lines,
        ok     |-> at[n].result # Failed]

\* remote_cursor_bottom: a read that fails leads to the first character.
Bottom(bad) ==
    IF Size = 0 THEN Start
    ELSE [offset |-> Max({0, PreviousLine(Size, bad)}), line |-> Unknown]

\* The characters of the line remote_cursor_line reads, its newline included.
LineOf(from) ==
    {o \in from .. Size - 1 : \A i \in from .. o - 1 : ~IsNewline(i)}
LineFails(from, bad) == \E o \in LineOf(from) : Bad(o, bad)
LineMatches(from, bad) ==
    ~LineFails(from, bad) /\ \E o \in LineOf(from) : text[o + 1] = Match

----------------------------------------------------------------------------
(* The commands of the Viewer *)

Init ==
    /\ text \in Texts
    /\ cursor = Start /\ top = Start
    /\ row = 0
    /\ search = None
    /\ slipped = FALSE

\* The cursor at the top of the window.
PlaceAt(c) == cursor' = c /\ top' = c /\ row' = 0 /\ slipped' = FALSE

\* Mutant: the top moves by a line too few.
ShiftOneLess(page) == row + 1 - page

\* Lines the top moves when the cursor leaves the page.
Shift(page) == row + 2 - page

Down(page, bad) ==
    LET next == Moved(cursor, FALSE, bad)
        shifted == MovedBy(top, Shift(page), FALSE, bad)
    IN /\ search = None
       /\ next.offset >= 0
       /\ cursor' = next
       /\ IF row + 1 < page
          THEN row' = row + 1 /\ UNCHANGED <<top, slipped>>
          ELSE /\ top' = shifted.cursor
               /\ row' = page - 1
               /\ slipped' = (slipped \/ ~shifted.ok)
       /\ UNCHANGED <<text, search>>

Up(bad) ==
    LET next == Moved(cursor, TRUE, bad)
    IN /\ search = None
       /\ next.offset >= 0
       /\ IF row >= 1
          THEN cursor' = next /\ row' = row - 1 /\ UNCHANGED <<top, slipped>>
          ELSE PlaceAt(next)
       /\ UNCHANGED <<text, search>>

\* A failure on the way is ignored.
Page(back, page, bad) ==
    /\ search = None
    /\ PlaceAt(MovedBy(cursor, page, back, bad).cursor)
    /\ UNCHANGED <<text, search>>

Home ==
    /\ search = None
    /\ PlaceAt(Start)
    /\ UNCHANGED <<text, search>>

\* A failure of moving the top up leaves it anywhere and the row 0.
End(page, bad) ==
    LET up == MovedBy(Bottom(bad), page - 1, TRUE, bad)
    IN /\ search = None
       /\ cursor' = Bottom(bad)
       /\ top' = up.cursor
       /\ row' = IF up.ok THEN up.lines ELSE 0
       /\ slipped' = ~up.ok
       /\ UNCHANGED <<text, search>>

GoToLine(line, bad) ==
    /\ search = None
    /\ PlaceAt(MovedBy(Start, line - 1, FALSE, bad).cursor)
    /\ UNCHANGED <<text, search>>

----------------------------------------------------------------------------
(* remote_cursor_find and nav_viewer_link, a line at a time *)

NewSearch(kind, back, stage) ==
    [kind |-> kind, back |-> back, at |-> cursor, stage |-> stage, pass |-> 0,
     wrapped |-> FALSE, turn |-> FALSE, failed |-> FALSE]

FindStart(back) ==
    /\ search = None
    /\ search' = NewSearch("find", back, "next")
    /\ UNCHANGED <<text, view, slipped>>

\* A link search begins with the current line, from the current column on.
LinkStart(back) ==
    /\ search = None
    /\ search' = NewSearch("link", back, "here")
    /\ UNCHANGED <<text, view, slipped>>

\* The search goes on.
GoOn(s) ==
    /\ search' = [s EXCEPT !.turn = ~@]
    /\ UNCHANGED <<text, view, slipped>>

NotFound == search' = None /\ UNCHANGED <<text, view, slipped>>

FoundAt(c) == search' = None /\ PlaceAt(c) /\ UNCHANGED text

\* Mutant: the directions are swapped.
BeforeStart(s, offset) ==
    IF s.back THEN offset >= cursor.offset ELSE offset <= cursor.offset

\* After wrapping, the line the search started on or one beyond it.
BackAtStart(s, offset) ==
    IF s.back THEN offset <= cursor.offset ELSE offset >= cursor.offset

\* One turn of the inner loop.
FindNext(bad) ==
    LET next == Moved(search.at, search.back, bad)
        failed == \/ search.failed \/ next.offset = Failed
                  \/ next.offset >= 0 /\ LineFails(next.offset, bad)
    IN /\ search # None /\ search.kind = "find" /\ search.stage = "next"
       /\ IF next.offset < 0
          THEN GoOn([search EXCEPT !.stage = "wrap", !.failed = failed])
          ELSE IF search.wrapped /\ BackAtStart(search, next.offset)
          THEN GoOn([search EXCEPT !.stage = "wrap", !.at = next])
          ELSE IF LineMatches(next.offset, bad)
          THEN FoundAt(next)
          ELSE GoOn([search EXCEPT !.at = next, !.failed = failed])

\* Mutant: the passes are not counted.
SamePass(s) == s.pass

NextPass(s) == s.pass + 1

\* The end of a pass: on from the other end of the resource, whose line is
\* looked at here.
FindWrap(bad) ==
    LET c == IF search.back THEN Bottom(bad) ELSE Start
        failed == \/ search.failed \/ LineFails(c.offset, bad)
                  \/ search.back /\ PreviousLine(Size, bad) = Failed
    IN /\ search # None /\ search.kind = "find" /\ search.stage = "wrap"
       /\ IF c.offset = cursor.offset
          THEN NotFound
          ELSE IF LineMatches(c.offset, bad)
          THEN FoundAt(c)
          ELSE IF NextPass(search) = 2
          THEN NotFound
          ELSE GoOn([search EXCEPT !.stage = "next", !.at = c,
                                   !.wrapped = TRUE, !.failed = failed,
                                   !.pass = NextPass(search)])

\* Whether a link of the current line is beyond the current column.
LinkHere(beyond, bad) ==
    /\ search # None /\ search.kind = "link" /\ search.stage = "here"
    /\ IF \/ LineFails(search.at.offset, bad)
          \/ beyond /\ LineMatches(search.at.offset, bad)
       THEN NotFound  \* or found, with the cursor where it is
       ELSE GoOn([search EXCEPT !.stage = "next"])

LinkNext(bad) ==
    LET next == Moved(search.at, search.back, bad)
    IN /\ search # None /\ search.kind = "link" /\ search.stage = "next"
       /\ IF next.offset < 0 \/ LineFails(next.offset, bad)
          THEN NotFound
          ELSE IF LineMatches(next.offset, bad)
          THEN FoundAt(next)
          ELSE GoOn([search EXCEPT !.at = next])

SearchStep ==
    \E bad \in SUBSET Blocks :
        \/ FindNext(bad) \/ FindWrap(bad) \/ LinkNext(bad)
        \/ \E beyond \in BOOLEAN : LinkHere(beyond, bad)

Command ==
    \/ Home
    \/ \E back \in BOOLEAN : FindStart(back) \/ LinkStart(back)
    \/ \E bad \in SUBSET Blocks :
           \/ Up(bad)
           \/ \E line \in GotoLines : GoToLine(line, bad)
           \/ \E page \in Pages :
                  \/ Down(page, bad) \/ End(page, bad)
                  \/ \E back \in BOOLEAN : Page(back, page, bad)

Next == Command \/ SearchStep

\* A search runs in a loop of its own, which nothing interrupts.
Spec == Init /\ [][Next]_vars /\ WF_vars(SearchStep)

----------------------------------------------------------------------------
(* Properties *)

LineStarts == {0} \cup {o \in 1 .. Size - 1 : IsNewline(o - 1)}
LineNumber(o) == Cardinality({i \in 0 .. o - 1 : IsNewline(i)})

\* Every variable has its type.
TypeOK ==
    /\ text \in Texts
    /\ cursor \in Cursors /\ top \in Cursors
    /\ row \in 0 .. Size
    /\ search \in Searches \cup {None}
    /\ search # None => search.at.offset \in 0 .. Size
    /\ slipped \in BOOLEAN

\* Cursor and top are at the start of a line, and its number, when one is
\* shown, is right, whichever way and over however many failures they came.
CursorsAreExact ==
    \A c \in {cursor, top} :
        /\ c.offset \in LineStarts
        /\ c.line # Unknown => c.line = LineNumber(c.offset)

\* The cursor is as many lines below the top as cursor_row says, though the
\* window changes its size between two commands.
RowIsDistance ==
    ~slipped => LineNumber(cursor.offset) = LineNumber(top.offset) + row

HasMatch(o) == \E i \in LineOf(o) : text[i + 1] = Match

\* The lines the search comes by before o, with o itself, in its direction.
Passed(s, o) ==
    LET start == cursor.offset
    IN IF s.back
       THEN {i \in LineStarts : IF o < start THEN i \in o .. start - 1
                                ELSE i < start \/ i >= o}
       ELSE {i \in LineStarts : IF o > start THEN i \in start + 1 .. o
                                ELSE i > start \/ i <= o}

\* If no read failed, Find stops at the first matching line after the current
\* one in its direction, around the end of the resource if it must, and says
\* "No match" only if no other line matches.
FindIsNearest ==
    [][/\ search # None /\ ~search.failed
       /\ FindNext({}) \/ FindWrap({})
       /\ search' = None
       => IF cursor' = cursor
          THEN \A i \in LineStarts \ {cursor.offset} : ~HasMatch(i)
          ELSE {i \in Passed(search, cursor'.offset) : HasMatch(i)}
                   = {cursor'.offset}]_vars

\* A search ends, matches or not, however reads fail.
SearchEnds == search # None ~> search = None
=============================================================================
