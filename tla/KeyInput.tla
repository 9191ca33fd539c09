----------------------------- MODULE KeyInput -----------------------------
(***************************************************************************)
(* From terminal events to commands: nav_input_resolve of                  *)
(* src/input/keymap.c, the NavInput all screens share (src/ui/shell.c) and *)
(* the one of a progress screen, which polls the terminal by itself while  *)
(* a download or a listing runs (src/ui/location.c, src/ui/ui.c).          *)
(*                                                                         *)
(* A screen looks its keys up in its own context and, unless it is modal,  *)
(* in the global one.  The keymap is one that Keymap can make: no binding  *)
(* of a context is, or begins, another.                                    *)
(***************************************************************************)
EXTENDS Integers, SequencesExt

CONSTANTS Keymaps,      \* sets of [context, keys, command]
          Global,       \* NAV_CONTEXT_GLOBAL
          Workspaces,   \* the contexts that are not modal
          Modal,        \* those that are
          Progress,     \* the modal context of a progress screen
          Strokes, Escape,
          Unshifted,    \* strokes of shifted text, and what they are without
          None

\* NavInput: a stroke that waits for the next, and the context it waits in.
AnyStroke == Strokes \cup Range(Unshifted)
NavInput == [pending : AnyStroke \cup {None}, pasting : BOOLEAN,
             context : Modal \cup Workspaces \cup {Global}]

\* What the constants have to be.
ConstantsAssumption ==
    /\ Progress \in Modal
    /\ Escape \in Strokes
    /\ None \notin NavInput

VARIABLES
    map,        \* the live keymap
    screen,     \* the context of what is in front
    shell,      \* the NavInput of shell.c
    own,        \* that of the progress screen, if there is one
    back,       \* the context a progress screen hides
    ran,        \* the command the last event gave
    pasting,    \* ghost: the terminal is between PASTE_START and PASTE_END
    cut,        \* ghost: the paste began on another input than the shell's
    last        \* ghost: the last two events, with the context they met

inputs == <<shell, own>>
ghosts == <<pasting, cut, last>>
vars == <<map, screen, inputs, back, ran, ghosts>>

Fresh == [pending |-> None, pasting |-> FALSE, context |-> Global]

\* What an event meets, and what it makes of it.
Input == IF own # None THEN own ELSE shell
NextInput(i) == IF own # None THEN own' = i /\ shell' = shell ELSE shell' = i /\ own' = own

Seen(e) == last' = <<last[2], [event |-> e, context |-> screen]>>

----------------------------------------------------------------------------
\* Mutant: a modal does not capture what it does not bind.
AlwaysBoth(c) == <<c, Global>>

Scopes(c) == IF c \in Modal THEN <<c>> ELSE <<c, Global>>
Variants(k) == IF k \in DOMAIN Unshifted THEN <<k, Unshifted[k]>> ELSE <<k>>

Matches(x, keys) == {b \in map : b.context = x /\ IsPrefix(keys, b.keys)}

\* The first scope, and in it the first variant, in which a binding goes on.
Found(c, prefix, k) ==
    LET at == [n \in 1 .. Len(Scopes(c)) * Len(Variants(k)) |->
                 [scope |-> Scopes(c)[((n - 1) \div Len(Variants(k))) + 1],
                  keys  |-> Append(prefix, Variants(k)[((n - 1) % Len(Variants(k))) + 1])]]
        hit == {n \in DOMAIN at : Matches(at[n].scope, at[n].keys) # {}}
    IN IF hit = {} THEN None ELSE at[Min(hit)]

\* A change of context drops a prefix.
Pending(i) == IF i.context = screen THEN i.pending ELSE None

\* Mutant: the keys of a paste are looked up.
NoPaste(i) == FALSE

InPaste(i) == i.pasting

\* nav_input_resolve of a key: in a paste it is text or nothing.
Key(k) ==
    LET pending == Pending(Input)
        prefix == IF pending = None THEN <<>> ELSE <<pending>>
        found == Found(screen, prefix, k)
        bound == IF found = None THEN {} ELSE Matches(found.scope, found.keys)
        whole == {b \in bound : b.keys = found.keys}
        cancels == pending # None /\ k = Escape
    IN /\ IF InPaste(Input)
          THEN ran' = None /\ UNCHANGED inputs
          ELSE /\ NextInput([Input EXCEPT !.context = screen,
                    !.pending = IF bound # {} /\ whole = {} /\ ~cancels THEN Last(found.keys) ELSE None])
               /\ ran' = IF whole = {} \/ cancels THEN None ELSE (CHOOSE b \in whole : TRUE).command
       /\ Seen(k)
       /\ UNCHANGED <<map, screen, back, pasting, cut>>

Resize ==
    /\ NextInput([Input EXCEPT !.pending = None, !.context = screen])
    /\ ran' = None /\ Seen("resize")
    /\ UNCHANGED <<map, screen, back, pasting, cut>>

PasteStart ==
    /\ ~pasting /\ pasting' = TRUE /\ cut' = (own # None)
    /\ NextInput([Input EXCEPT !.pasting = TRUE, !.pending = None])
    /\ ran' = None /\ Seen("paste")
    /\ UNCHANGED <<map, screen, back>>

PasteEnd ==
    /\ pasting /\ pasting' = FALSE /\ cut' = FALSE
    /\ NextInput([Input EXCEPT !.pasting = FALSE])   \* and keeps what is pending
    /\ ran' = None /\ IF cut THEN last' = last ELSE Seen("paste")
    /\ UNCHANGED <<map, screen, back>>

----------------------------------------------------------------------------
(* What a command does to the screens *)

\* A modal, which looks its keys up with the input of the shell, or its end.
Show(c) ==
    /\ ran # None /\ own = None
    /\ screen' = c /\ ran' = None
    /\ UNCHANGED <<map, shell, own, back, ghosts>>

\* nav_ui_workspace: Viewer, Editor and back; the input starts afresh.
Enter(c) ==
    /\ ran # None /\ own = None
    /\ screen' = c /\ shell' = Fresh /\ ran' = None
    /\ UNCHANGED <<map, own, back, ghosts>>

\* A download or a repository listing polls with an input of its own.
Start ==
    /\ ran # None /\ own = None
    /\ own' = Fresh /\ back' = screen /\ screen' = Progress /\ ran' = None
    /\ UNCHANGED <<map, shell, ghosts>>

\* It is over, or was cancelled, at any time.
Finish ==
    /\ own # None
    /\ own' = None /\ back' = None /\ screen' = back /\ ran' = None
    /\ UNCHANGED <<map, shell, ghosts>>

\* The loop goes on with the same screen.
Handle ==
    /\ ran # None /\ ran' = None
    /\ UNCHANGED <<map, screen, inputs, back, ghosts>>

Init ==
    /\ map \in Keymaps
    /\ screen \in Workspaces
    /\ shell = Fresh /\ own = None /\ back = None /\ ran = None
    /\ pasting = FALSE /\ cut = FALSE
    /\ last = [i \in 1 .. 2 |-> [event |-> "resize", context |-> screen]]

Event ==
    /\ ran = None
    /\ Resize \/ PasteStart \/ PasteEnd \/ \E k \in Strokes : Key(k)

Next ==
    \/ Event \/ Handle \/ Start \/ Finish
    \/ \E c \in Modal \cup Workspaces : Show(c)
    \/ \E c \in Workspaces : Enter(c)

Spec == Init /\ [][Next]_vars

----------------------------------------------------------------------------
(* Properties *)

\* A stroke as it was typed is one of those a binding names.
Typed(k, stroke) == stroke = k \/ (k \in DOMAIN Unshifted /\ stroke = Unshifted[k])

\* What was typed, by the events: the one key, or the two that were typed one
\* after the other on the same screen.
TypedAre(keys) ==
    \/ Len(keys) = 1 /\ Typed(last[2].event, keys[1])
    \/ /\ Len(keys) = 2 /\ Typed(last[1].event, keys[1]) /\ Typed(last[2].event, keys[2])
       /\ last[1].context = last[2].context

\* A command that runs is bound to the key, or the two keys in a row, that
\* were typed: nothing came between them, not a resize, a paste, another
\* screen or a progress screen with keys of its own.  It is bound on the
\* screen that is in front or, unless that is modal, for all screens.
RunsWhatWasTyped ==
    ran # None =>
      \E b \in map : /\ b.command = ran /\ TypedAre(b.keys)
                     /\ b.context = last[2].context
                          \/ (b.context = Global /\ last[2].context \notin Modal)

\* Pasted text runs no command if the shell was what saw the paste begin,
\* and the shell takes no key for a pasted one when the paste is over.
PasteIsText == /\ pasting /\ ~cut => ran = None
               /\ shell.pasting => pasting
=============================================================================
