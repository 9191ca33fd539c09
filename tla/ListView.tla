----------------------------- MODULE ListView -----------------------------
(***************************************************************************)
(* The list of a file pane: what is listed, in which order, what the       *)
(* filter shows, where the cursor and the first row shown are, and the     *)
(* commands that change them (src/commander.c, src/ui/ui.c), among them    *)
(* the previews of the Preferences (src/ui/preferences.c).                 *)
(*                                                                         *)
(* The C code keeps the cursor as a number among the entries shown and     *)
(* finds the entry again by its id whenever the list is read or sorted.    *)
(* An order stands for a sort mode, directories first and case.            *)
(***************************************************************************)
EXTENDS Integers, FiniteSets, SequencesExt

CONSTANTS Entries,      \* ids of what the directory may hold
          Dotted,       \* those that are listed with hidden files only
          Parent,       \* "..", which is always listed
          Filters,      \* texts of the filter, with what each one matches
          NoFilter,
          Orders,       \* orders, each with the rank it gives an entry
          Given,        \* ranks by which a provider may list
          Settings,     \* view, order and hidden of a NavConfig
          Heights,      \* rows of the terminal
          BriefColumns, \* columns it has room for in the brief view
          None

Views == {"brief", "full"}

\* What the constants have to be.
ConstantsAssumption ==
    /\ Parent \in Entries \ Dotted
    /\ NoFilter \in DOMAIN Filters /\ Filters[NoFilter] = Entries
    /\ Heights \subseteq Nat \ {0} /\ BriefColumns \in Nat \ {0}
    /\ IsFiniteSet(Entries) /\ None \notin Entries
    /\ \A rank \in Range(Orders) \cup Given :
         /\ rank \in [Entries -> Int]
         /\ \A a, b \in Entries : rank[a] = rank[b] => a = b
    /\ Settings \subseteq [view : Views, order : DOMAIN Orders, hidden : BOOLEAN]

VARIABLES
    directory,  \* what the directory holds
    pane,       \* NavPane
    show_hidden, \* NavApp.show_hidden
    config,     \* the NavConfig, and profile_view, profile_sort... of ui.c
    height,     \* of the terminal
    session     \* the Preferences: what they began with, or None

vars == <<directory, pane, show_hidden, config, height, session>>

----------------------------------------------------------------------------
(* commander.c *)

\* A set by the rank of its members.
Sorted(set, rank) ==
    [i \in 1 .. Cardinality(set) |->
       CHOOSE e \in set : Cardinality({x \in set : rank[x] <= rank[e]}) = i]

\* Where the entries are that match the filter.
Matching(p) == {i \in DOMAIN p.items : p.items[i] \in Filters[p.filter]}
Count(p) == Cardinality(Matching(p))

\* What is shown, in the order of the list.
Shown(p) ==
    LET match == Matching(p)
        at == Sorted(match, [i \in match |-> i])
    IN [n \in 1 .. Count(p) |-> p.items[at[n]]]

\* nav_pane_selected
SelectedIn(p) == IF p.selected \in 0 .. Count(p) - 1 THEN Shown(p)[p.selected + 1] ELSE None

Within(n, low, high) == IF n < low THEN low ELSE IF n > high THEN high ELSE n

\* nav_pane_clamp_selection
Clamp(p) ==
    IF Count(p) = 0 THEN [p EXCEPT !.selected = 0, !.offset = 0]
    ELSE [p EXCEPT !.selected = Within(@, 0, Count(p) - 1), !.offset = Within(@, 0, Count(p) - 1)]

\* nav_pane_page_capacity
Capacity(p) == p.rows * (IF p.view = "brief" THEN p.columns ELSE 1)

\* Mutant: the first column is not moved to the right.
FirstColumnStays(p) ==
    LET total == (Count(p) + p.rows - 1) \div p.rows
        most == IF total > p.columns THEN total - p.columns ELSE 0
        first == p.offset \div p.rows
        cursor == p.selected \div p.rows
        wanted == IF cursor < first THEN cursor ELSE first
    IN Within(wanted, 0, most)

\* The first column of the brief view.
FirstColumn(p) ==
    LET total == (Count(p) + p.rows - 1) \div p.rows
        most == IF total > p.columns THEN total - p.columns ELSE 0
        first == p.offset \div p.rows
        cursor == p.selected \div p.rows
        wanted == IF cursor < first THEN cursor
                  ELSE IF cursor >= first + p.columns THEN cursor - p.columns + 1 ELSE first
    IN Within(wanted, 0, most)

\* nav_pane_ensure_visible
EnsureVisible(q) ==
    LET p == Clamp(q)
    IN IF Count(p) = 0 THEN p
       ELSE [p EXCEPT !.offset =
               IF p.view = "brief" THEN FirstColumn(p) * p.rows
               ELSE IF p.selected < @ THEN p.selected
               ELSE IF p.selected >= @ + Capacity(p) THEN p.selected - Capacity(p) + 1
               ELSE @]

\* The cursor on entry e, if it is shown.
Select(p, e) ==
    LET at == {i \in 1 .. Count(p) : Shown(p)[i] = e}
    IN IF at = {} THEN p ELSE [p EXCEPT !.selected = (CHOOSE i \in at : TRUE) - 1]

\* Mutant: the cursor keeps its number in the sorted list.
SortInPlace(p, order) ==
    Clamp([p EXCEPT !.order = order,
                    !.items = Sorted(Range(p.items), Orders[order])])

\* nav_pane_sort
Sort(p, order) ==
    LET q == [p EXCEPT !.order = order, !.selected = 0,
                       !.items = Sorted(Range(p.items), Orders[order])]
    IN Clamp(Select(q, SelectedIn(p)))

\* pane_load: the list as the provider gives it, the cursor on its first row.
Loaded(p, list) == [p EXCEPT !.items = list, !.selected = 0, !.offset = 0]

\* nav_pane_refresh
Reread(p, list) == EnsureVisible(Select(Loaded(p, list), SelectedIn(p)))

\* refresh_pane and restore_selection of ui.c
Refreshed(p, list) ==
    LET q == Sort(Reread(p, list), p.order)
    IN IF SelectedIn(p) = None THEN q ELSE EnsureVisible(Select(q, SelectedIn(p)))

Lists(d, hidden) == {Sorted({e \in d : hidden \/ e \notin Dotted}, rank) : rank \in Given}

\* The listing succeeds, or the pane stays as it is.
Refresh(p, d, hidden) == {p} \cup {Refreshed(p, list) : list \in Lists(d, hidden)}

\* nav_pane_set_layout, by draw_app before the next key is read.
Drawn(p) ==
    EnsureVisible([p EXCEPT !.rows = height, !.columns = IF p.view = "brief" THEN BriefColumns ELSE 1])

----------------------------------------------------------------------------
(* Commands of the pane *)

Fixed == <<directory, show_hidden, config, height, session>>
Idle == session = None

\* Arrows, pages, Home and End.
Move ==
    /\ Idle
    /\ \E n \in {-1, 1, -pane.rows, pane.rows, -Capacity(pane), Capacity(pane),
                 -pane.selected, Count(pane) - 1 - pane.selected} :
         pane' = Drawn(EnsureVisible([pane EXCEPT !.selected = @ + n]))
    /\ UNCHANGED Fixed

SortBy(order) ==
    /\ Idle
    /\ pane' = Drawn(EnsureVisible(Sort(pane, order)))
    /\ UNCHANGED Fixed

View(view) ==
    /\ Idle
    /\ pane' = Drawn(EnsureVisible([pane EXCEPT !.view = view]))
    /\ UNCHANGED Fixed

\* command_filter: the cursor keeps its number, not its entry.
Filter(text) ==
    /\ Idle
    /\ pane' = Drawn(EnsureVisible([pane EXCEPT !.filter = text]))
    /\ UNCHANGED Fixed

\* Refresh, and what ends with one: a directory made here, a copy, a download
\* or an edit that puts something into the directory.
RefreshCommand ==
    /\ Idle
    /\ \E d \in {directory} \cup {directory \cup {e} : e \in Entries} :
         \E p \in Refresh(pane, d, show_hidden) : directory' = d /\ pane' = Drawn(EnsureVisible(p))
    /\ UNCHANGED <<show_hidden, config, height, session>>

\* command_delete
Delete ==
    /\ Idle
    /\ SelectedIn(pane) \in directory \ {Parent}
    /\ directory' = directory \ {SelectedIn(pane)}
    /\ \E p \in Refresh(pane, directory', show_hidden) : pane' = Drawn(EnsureVisible(p))
    /\ UNCHANGED <<show_hidden, config, height, session>>

\* Mutant: the filter stays although it does not match the new name.
FilterKept(new) == pane.filter

FilterAfter(new) == IF new \in Filters[pane.filter] THEN pane.filter ELSE NoFilter

\* command_move, in the directory: the filter goes if it would hide the entry.
Rename(new) ==
    /\ Idle
    /\ SelectedIn(pane) \in directory \ {Parent} /\ new \notin {SelectedIn(pane), Parent}
    /\ directory' = (directory \ {SelectedIn(pane)}) \cup {new}
    /\ \E p \in Refresh([pane EXCEPT !.filter = FilterAfter(new)], directory', show_hidden) :
         pane' = Drawn(EnsureVisible(Select(p, new)))
    /\ UNCHANGED <<show_hidden, config, height, session>>

ToggleHidden ==
    /\ Idle
    /\ show_hidden' = ~show_hidden
    /\ \E p \in Refresh(pane, directory, show_hidden') : pane' = Drawn(EnsureVisible(p))
    /\ UNCHANGED <<directory, config, height, session>>

\* The resize is handled before the next drawing gives the pane its new size.
Resize(h) ==
    /\ h # height /\ height' = h
    /\ pane' = EnsureVisible([EnsureVisible(pane) EXCEPT !.rows = h])
    /\ UNCHANGED <<directory, show_hidden, config, session>>

OthersChange ==
    /\ \E e \in Entries \ {Parent} :
         directory' = IF e \in directory THEN directory \ {e} ELSE directory \cup {e}
    /\ UNCHANGED <<pane, show_hidden, config, height, session>>

----------------------------------------------------------------------------
(* Preferences and reload *)

\* nav_ui_profile_apply: what the settings changed since it was last called;
\* all of it after a reload, when the list is read again after that.
Applies(c, all) ==
    LET hidden_changed == all \/ config.hidden # c.hidden
        p == [pane EXCEPT !.view = IF all \/ config.view # c.view THEN c.view ELSE @]
        hidden == IF hidden_changed THEN c.hidden ELSE show_hidden
        read == IF hidden_changed /\ ~all THEN Refresh(p, directory, hidden) ELSE {p}
    IN {[pane   |-> EnsureVisible(IF all \/ config.order # c.order THEN Sort(q, c.order) ELSE q),
         hidden |-> hidden] : q \in read}

Apply(a, c) == show_hidden' = a.hidden /\ config' = c

Preferences ==
    /\ Idle
    /\ session' = [config |-> config, hidden |-> show_hidden, view |-> pane.view, order |-> pane.order]
    /\ UNCHANGED <<directory, pane, show_hidden, config, height>>

\* A setting changes and is shown at once.
Preview ==
    /\ ~Idle
    /\ \E c \in Settings \ {config} : \E a \in Applies(c, FALSE) :
         Apply(a, c) /\ pane' = Drawn(a.pane)
    /\ UNCHANGED <<directory, height, session>>

Accept ==
    /\ ~Idle /\ session' = None
    /\ UNCHANGED <<directory, pane, show_hidden, config, height>>

\* Mutant: only what the settings say comes back.
RestoresNothing(a) == {a}

\* nav_ui_profile_restore_panes
Restores(a) ==
    LET read == IF a.hidden = session.hidden THEN {a.pane}
                ELSE Refresh([a.pane EXCEPT !.view = session.view], directory, session.hidden)
    IN {[pane |-> EnsureVisible(Sort([q EXCEPT !.view = session.view], session.order)),
         hidden |-> session.hidden] : q \in read}

Cancel ==
    /\ ~Idle /\ session' = None
    /\ \E a \in Applies(session.config, FALSE) : \E b \in Restores(a) :
         /\ show_hidden' = b.hidden /\ pane' = Drawn(b.pane)
         /\ config' = session.config
    /\ UNCHANGED <<directory, height>>

\* command_reload_config
Reload ==
    /\ Idle
    /\ \E c \in Settings : \E a \in Applies(c, TRUE) :
         \E p \in Refresh([a.pane EXCEPT !.view = c.view], directory, c.hidden) :
            Apply(a, c) /\ pane' = Drawn(EnsureVisible(p))
    /\ UNCHANGED <<directory, height, session>>

Init ==
    /\ directory = Entries
    /\ config \in Settings
    /\ show_hidden = config.hidden
    /\ height \in Heights
    /\ \E list \in Lists(directory, show_hidden) :
         pane = Drawn(Sort([items |-> list, selected |-> 0, offset |-> 0, filter |-> NoFilter,
                            order |-> config.order, view |-> config.view, rows |-> 1, columns |-> 1],
                           config.order))
    /\ session = None

Next ==
    \/ Move \/ RefreshCommand \/ Delete \/ ToggleHidden \/ OthersChange
    \/ Preferences \/ Preview \/ Accept \/ Cancel \/ Reload
    \/ \E order \in DOMAIN Orders : SortBy(order)
    \/ \E view \in Views : View(view)
    \/ \E text \in DOMAIN Filters : Filter(text)
    \/ \E new \in Entries : Rename(new)
    \/ \E h \in Heights : Resize(h)

Spec == Init /\ [][Next]_vars

----------------------------------------------------------------------------
(* Properties *)

\* When a key is read the list is in the order of the pane, and the cursor is
\* on one of the rows that are shown, if there is any entry to show.
CursorIsOnScreen ==
    /\ \A i \in 1 .. Len(pane.items) - 1 :
         Orders[pane.order][pane.items[i]] < Orders[pane.order][pane.items[i + 1]]
    /\ Count(pane) > 0 =>
         /\ SelectedIn(pane) # None
         /\ pane.selected \in pane.offset .. pane.offset + Capacity(pane) - 1

\* Whatever sorts, refreshes, filters or lists the directory otherwise, whatever
\* else is shown of it and in however many rows, the cursor keeps its entry as
\* long as that is shown; after a rename it is on the new name if that is listed,
\* whatever the filter.  Two steps are left out: a filter keeps the row of the
\* cursor, and Cancel hides for a moment what a preview had brought.
CursorKeepsItsEntry ==
    [][/\ /\ session' = session \/ session = None
          /\ \/ pane'.items # pane.items
             \/ \E field \in {"order", "view", "rows"} : pane'[field] # pane[field]
          /\ SelectedIn(pane) \in Range(Shown(pane'))
          => SelectedIn(pane') = SelectedIn(pane)
       /\ directory' # directory /\ pane' # pane =>
            \A new \in Range(pane'.items) : Rename(new) => SelectedIn(pane') = new]_vars

\* What Cancel of the Preferences changes it changes to the view, the order and
\* the hidden files the pane had when they began, those the user had chosen
\* apart from the settings too, and to a listing that agrees with them unless
\* the directory cannot be listed.
CancelRollsBack ==
    [][session # None /\ session' = None /\ <<pane, show_hidden, config>>' # <<pane, show_hidden, config>> =>
         /\ config' = session.config /\ show_hidden' = session.hidden
         /\ pane'.view = session.view /\ pane'.order = session.order
         /\ pane'.items = Sorted(Range(pane'.items), Orders[session.order])
         /\ Range(pane'.items) \in {Range(pane.items)} \cup {Range(rows) : rows \in Lists(directory, TRUE) \cup Lists(directory, FALSE)}]_vars
=============================================================================
