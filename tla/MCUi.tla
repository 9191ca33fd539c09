-------------------------------- MODULE MCUi --------------------------------
(***************************************************************************)
(* Model-checking instance of Ui.  A behaviour is one of the part chosen   *)
(* at its beginning, and the others wait.                                  *)
(***************************************************************************)
EXTENDS Ui

VARIABLE part  \* which of them goes on

run_vars == <<part, vars, past, list, keys, input>>

\* A history of four entries, whose limit the operator may set to every value
\* the array allows.
MCLimits == 1 .. HistoryMax

----------------------------------------------------------------------------
(* A directory of four entries, one of them hidden, in two orders. *)

MCEntries == {"a", "b", ".h", ".."}
Rank(s) == [e \in MCEntries |-> CHOOSE i \in 1 .. 4 : s[i] = e]
ByName == Rank(<<"..", ".h", "a", "b">>)
BySize == Rank(<<"..", "b", "a", ".h">>)
MCOrders == [order \in {"name", "size"} |-> IF order = "name" THEN ByName ELSE BySize]
MCGiven == {Rank(<<"..", "b", ".h", "a">>), Rank(<<".h", "a", "..", "b">>)}
MCFilters == [text \in {"", "some"} |-> IF text = "" THEN MCEntries ELSE {"b", ".h"}]
MCSettings == {[view |-> "brief", order |-> "name", hidden |-> FALSE],
               [view |-> "full", order |-> "size", hidden |-> TRUE]}

----------------------------------------------------------------------------
(* Two contexts that share strokes, one with a prefix; three commands, two *)
(* of one context; the kinds of entry a profile may have.                  *)

NoEntries == [root |-> <<>>, bindings |-> [x \in Contexts |-> <<>>],
              commands |-> [x \in Contexts |-> <<>>]]
Only(name, value) == [x \in {name} |-> value]

MCDefaults == << <<"Panel", <<"x", "y">>, "copy">>, <<"Panel", <<"y">>, "copy">>,
                 <<"Panel", <<"x", "x">>, "move">>, <<"Viewer", <<"y">>, "quit">> >>
MCFiles ==
    {NoEntries,
     [NoEntries EXCEPT !.root = Only("copy", << <<"x">> >>)],
     [NoEntries EXCEPT !.bindings["Panel"] = << << <<"y">>, "move">> >>],
     [NoEntries EXCEPT !.commands["Panel"] = Only("move", << <<"y">>, <<"x", "x">> >>)],
     [NoEntries EXCEPT !.root = Only("copy", << <<"x">> >>),
                       !.commands["Panel"] = Only("copy", << <<"y">> >>)],
     [NoEntries EXCEPT !.root = [c \in {"copy", "move"} |->
                                   IF c = "copy" THEN <<>> ELSE << <<"x">> >>],
                       !.bindings["Viewer"] = << << <<"x">>, "copy">> >>],
     [NoEntries EXCEPT !.root = Only("copy", << <<"x">>, <<"y">> >>),
                       !.commands["Panel"] = Only("move", << <<"x">> >>)],
     [NoEntries EXCEPT !.root = [c \in {"copy", "move"} |-> <<>>],
                       !.bindings["Panel"] = << << <<"x">>, "move">>, << <<"y">>, "copy">> >>]}
MCOwner == [c \in Commands |-> IF c = "quit" THEN "Viewer" ELSE "Panel"]
MCKeySeqs == {<<"x">>, <<"y">>, <<"x", "x">>}

----------------------------------------------------------------------------
(* Two workspaces and a modal, which is that of a progress screen too; keys *)
(* that are prefixes on one and whole on another; text with Shift.          *)

B(x, strokes, c) == [context |-> x, keys |-> strokes, command |-> c]

MCKeymaps ==
    {{B("Global", <<"x", "y">>, "quit"), B("Panel", <<"x", "x">>, "copy"), B("Panel", <<"y">>, "move"),
      B("Viewer", <<"x">>, "move"), B("Dialog", <<"y">>, "cancel"), B("Dialog", <<"x", "x">>, "cancel")},
     {B("Global", <<"y">>, "quit"), B("Panel", <<"y", "x">>, "copy"), B("Panel", <<"Shift+y">>, "move"),
      B("Dialog", <<"Escape">>, "cancel"), B("Viewer", <<"x", "y">>, "move"),
      B("Viewer", <<"x", "Escape">>, "copy")}}
MCUnshifted == Only("Shift+y", "y")

----------------------------------------------------------------------------
\* Parts that wait do so in one of their initial states.
RunInit ==
    /\ part \in {"past", "screens", "list", "keys", "input"}
    /\ Init
    /\ Past!Init
    /\ part # "past" =>
         /\ location = CHOOSE l \in Past!Locations : TRUE
         /\ max_entries = HistoryMax /\ history_enabled
    /\ List!Init
    /\ part # "list" => settings.hidden /\ height = 1 /\ pane.selected = 0
    /\ Keys!Init
    /\ part # "keys" => file = NoEntries
    /\ Input!Init
    /\ part # "input" => screen = "Panel" /\ B("Global", <<"y">>, "quit") \in map

RunNext ==
    \/ part = "past" /\ Past!Next /\ UNCHANGED <<part, vars, list, keys, input>>
    \/ part = "screens" /\ Next /\ UNCHANGED <<part, past, list, keys, input>>
    \/ part = "list" /\ List!Next /\ UNCHANGED <<part, vars, past, keys, input>>
    \/ part = "keys" /\ Keys!Next /\ UNCHANGED <<part, vars, past, list, input>>
    \/ part = "input" /\ Input!Next /\ UNCHANGED <<part, vars, past, list, keys>>

RunSpec == RunInit /\ [][RunNext]_run_vars
=============================================================================
