---------------------------- MODULE PaneHistory ----------------------------
(***************************************************************************)
(* The navigation history of one pane: the bounded back/forward list of    *)
(* src/commander.c and every path of src/main.c and src/ui/ui.c that       *)
(* changes it.  A pane lists one location of one provider at a time; a     *)
(* successful listing may be recorded in the history, Back and Forward     *)
(* move a cursor over the recorded locations, opening a repository or a    *)
(* foreign location replaces the provider and starts an empty history, and *)
(* reloading the configuration changes the limit of the live history.      *)
(*                                                                         *)
(* A listing that fails leaves the pane as it was, so the failures of      *)
(* every command but Back and Forward are stuttering steps.                *)
(***************************************************************************)
EXTENDS Integers, Sequences

CONSTANTS Providers,    \* provider objects a pane can be attached to
          ResourceIds,  \* resource ids a provider can list
          HistoryMax,   \* NAV_HISTORY_MAX, the capacity of the array
          Limits        \* values the operator gives history.max_entries

\* What the constants have to be.
ConstantsAssumption ==
    /\ HistoryMax \in Nat \ {0}
    /\ Limits \subseteq 1 .. HistoryMax

VARIABLES
    provider,         \* NavPane.provider
    location,         \* NavPane.location, what the pane lists
    history,          \* NavPane.history
    history_enabled,  \* NavConfig.history_enabled
    max_entries,      \* NavConfig.history_max_entries
    drifted,          \* ghost: the cursor no longer names what is listed
    squeezed          \* ghost: an entry was pushed on a list over its limit

config == <<history_enabled, max_entries>>
ghosts == <<drifted, squeezed>>
vars == <<provider, location, history, config, ghosts>>

Locations == [provider : Providers, resource_id : ResourceIds]

\* NavHistory: count is Len(locations), current is the C index (-1: none).
Histories == [locations : Seq(Locations),
              current   : -1 .. HistoryMax - 1,
              limit     : 0 .. HistoryMax]

EmptyHistory(limit) == [locations |-> <<>>, current |-> -1, limit |-> limit]

----------------------------------------------------------------------------
(* nav_history_push, nav_history_back, nav_history_forward *)

HasCurrent(h) == h.current \in 0 .. Len(h.locations) - 1
Current(h) == h.locations[h.current + 1]

\* A limit the array cannot honour means the whole array.
EffectiveLimit(h) == IF h.limit \in 1 .. HistoryMax THEN h.limit ELSE HistoryMax

\* Mutant: what is ahead of the cursor is not forgotten.
KeptAll(h) == h.locations

\* The entries up to the cursor: what is ahead of it is forgotten.
Kept(h) == SubSeq(h.locations, 1, h.current + 1)

\* memmove of limit - 1 entries and --count.  It drops the oldest entry only
\* when the list is exactly as long as the limit; a longer list keeps its
\* entries beyond the limit in place and loses the last one.
DropOldest(s, limit) ==
    [i \in 1 .. Len(s) - 1 |-> IF i < limit THEN s[i + 1] ELSE s[i]]

\* Mutant: > for >= in the test against the limit.
RoomOffByOne(h) ==
    IF Len(Kept(h)) > EffectiveLimit(h)
    THEN DropOldest(Kept(h), EffectiveLimit(h))
    ELSE Kept(h)

Room(h) ==
    IF Len(Kept(h)) >= EffectiveLimit(h)
    THEN DropOldest(Kept(h), EffectiveLimit(h))
    ELSE Kept(h)

\* Mutant: the location at the cursor is recorded again.
PushAlways(h, l) ==
    [locations |-> Append(Room(h), l), current |-> Len(Room(h)), limit |-> h.limit]

\* Mutant: the cursor advances by one although the entries moved down.
PushAdvances(h, l) ==
    IF HasCurrent(h) /\ Current(h) = l
    THEN h
    ELSE [locations |-> Append(Room(h), l),
          current   |-> h.current + 1,
          limit     |-> h.limit]

Push(h, l) ==
    IF HasCurrent(h) /\ Current(h) = l
    THEN h
    ELSE [locations |-> Append(Room(h), l),
          current   |-> Len(Room(h)),
          limit     |-> h.limit]

CanGoBack(h) == h.current > 0
CanGoForward(h) == h.current + 1 < Len(h.locations)
Moved(h, by) == [h EXCEPT !.current = @ + by]

----------------------------------------------------------------------------
Init ==
    \E p \in Providers, id \in ResourceIds, limit \in Limits, e \in BOOLEAN :
        LET l == [provider |-> p, resource_id |-> id] IN
        /\ provider = p
        /\ location = l
        /\ history = Push(EmptyHistory(limit), l)  \* recorded even if disabled
        /\ history_enabled = e
        /\ max_entries = limit
        /\ drifted = FALSE
        /\ squeezed = FALSE

OverLimit(h, l) ==
    /\ ~(HasCurrent(h) /\ Current(h) = l)
    /\ Len(Kept(h)) > EffectiveLimit(h)

\* Enter a directory, go to the parent, open a location of the same provider:
\* the listing replaces the pane's and is recorded if history is enabled.
Load(l) ==
    /\ l.provider = provider
    /\ location' = l
    /\ history' = IF history_enabled THEN Push(history, l) ELSE history
    /\ drifted' = IF history_enabled
                  THEN FALSE
                  ELSE ~(HasCurrent(history) /\ Current(history) = l)
    /\ squeezed' = (squeezed \/ (history_enabled /\ OverLimit(history, l)))
    /\ UNCHANGED <<provider, config>>

\* Back and Forward move the cursor before the listing is attempted, and a
\* listing that fails does not move it back.
Step(by, loaded) ==
    /\ history' = Moved(history, by)
    /\ location' = IF loaded THEN Current(history') ELSE location
    /\ drifted' = IF loaded THEN FALSE ELSE Current(history') # location
    /\ UNCHANGED <<provider, config, squeezed>>

HistoryBack(loaded) == CanGoBack(history) /\ Step(-1, loaded)
HistoryForward(loaded) == CanGoForward(history) /\ Step(1, loaded)

Recorded(h, l) == IF history_enabled THEN Push(h, l) ELSE h

\* Mutant: the replacement pane inherits the history.
InheritedHistory == history

NewPaneHistory == EmptyHistory(0)

\* Open a repository, or a location only another provider understands.  The
\* replacement pane's history is zeroed, its limit included.
OpenReplacement(l) ==
    /\ l.provider # provider
    /\ provider' = l.provider
    /\ location' = l
    /\ history' = Recorded(NewPaneHistory, l)
    /\ drifted' = ~history_enabled
    /\ squeezed' = FALSE
    /\ UNCHANGED config

\* Mutant: reload trims the entries and forgets the cursor.
Trimmed(h, limit) ==
    [h EXCEPT !.limit = limit,
              !.locations = SubSeq(@, 1, IF limit < Len(@) THEN limit ELSE Len(@))]

Relimited(h, limit) == [h EXCEPT !.limit = limit]

\* Reload: the limit of the live history changes, its entries do not.
ReloadConfig(limit, enabled) ==
    /\ history_enabled' = enabled
    /\ max_entries' = limit
    /\ history' = Relimited(history, limit)
    /\ UNCHANGED <<provider, location, ghosts>>

\* The Location History preference, applied to the running session.
SetHistoryEnabled(enabled) ==
    /\ history_enabled' = enabled
    /\ UNCHANGED <<provider, location, history, max_entries, ghosts>>

Next ==
    \/ \E l \in Locations : Load(l) \/ OpenReplacement(l)
    \/ \E loaded \in BOOLEAN : HistoryBack(loaded) \/ HistoryForward(loaded)
    \/ \E limit \in Limits, enabled \in BOOLEAN : ReloadConfig(limit, enabled)
    \/ \E enabled \in BOOLEAN : SetHistoryEnabled(enabled)

Spec == Init /\ [][Next]_vars

----------------------------------------------------------------------------
(* Properties *)

Bounded(h) ==
    /\ Len(h.locations) <= HistoryMax
    /\ h.current < Len(h.locations)
    /\ Len(h.locations) > 0 => h.current >= 0

NoRepeats(h) ==
    \A i \in 1 .. Len(h.locations) - 1 : h.locations[i] # h.locations[i + 1]

AllBelongTo(h, p) ==
    \A i \in 1 .. Len(h.locations) : h.locations[i].provider = p

\* Every variable has its type.
TypeOK ==
    /\ provider \in Providers
    /\ location \in Locations
    /\ history \in Histories
    /\ history_enabled \in BOOLEAN
    /\ max_entries \in Limits
    /\ drifted \in BOOLEAN
    /\ squeezed \in BOOLEAN

\* The fixed array of NAV_HISTORY_MAX entries is never overrun and the cursor
\* is inside the recorded entries, whatever order the limit is lowered and
\* raised in between pushes: the indices nav_history_push and Back and Forward
\* use without a check of their own.
HistoryBounded == Bounded(history)

\* No recorded location belongs to a provider the pane has replaced: Back
\* never hands pane_load a pointer to a destroyed provider.
EntriesBelongToProvider ==
    /\ location.provider = provider
    /\ AllBelongTo(history, provider)

\* Unless a listing failed under Back or Forward, or went unrecorded because
\* history is disabled, the cursor names the location the pane lists.
CursorNamesLocation ==
    ~drifted => HasCurrent(history) /\ Current(history) = location

\* Back and Forward always lead somewhere else: no location is recorded twice
\* in a row, unless an entry was pushed on a list longer than its limit.
NoAdjacentRepeats == ~squeezed => NoRepeats(history)

\* A recorded visit to another location forgets what was ahead and leaves the
\* location it came from one step behind, if the limit has room for both.
VisitKeepsWayBack ==
    [][\A l \in Locations :
           /\ Load(l) /\ history_enabled /\ l # location
           /\ ~drifted
           /\ EffectiveLimit(history) >= Len(history.locations)
           /\ EffectiveLimit(history) >= 2
           => /\ ~CanGoForward(history')
              /\ CanGoBack(history')
              /\ history'.locations[history'.current] = location]_vars
=============================================================================
