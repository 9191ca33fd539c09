------------------------------ MODULE Keymap ------------------------------
(***************************************************************************)
(* The key bindings: how the defaults and the [keys] tables of a profile   *)
(* make a keymap (src/input/keymap.c, src/config.c), how the Preferences   *)
(* edit it (src/ui/preferences.c) and how a profile is saved as the least  *)
(* change of its file (src/profile.c).                                     *)
(*                                                                         *)
(* A binding gives one or two strokes a command in one context.  A profile *)
(* has three kinds of entry: keys of a command in the context that owns it *)
(* ([keys]), the command of a key ([keys.CONTEXT]) and keys of a command   *)
(* in a context ([keys.CONTEXT.commands]).                                 *)
(***************************************************************************)
EXTENDS Integers, SequencesExt

CONSTANTS Contexts, Commands,
          Strokes,      \* keys with their modifiers
          Owner,        \* the context of a command's first default binding
          Defaults,     \* <<context, keys, command>>s of nav_keymap_defaults
          KeySeqs,      \* one or two strokes, as the user may type them
          Files,        \* profiles the user may have written
          BindingMax,   \* NAV_BINDING_MAX
          MaxEdits,     \* edits of the keymap
          Failed,       \* no keymap: the profile is refused
          None

VARIABLES
    keymap,     \* config.keymap
    file,       \* the profile
    edits,      \* edits so far
    edited,     \* ghost: <<context, command>> of the edit just made
    asked,      \* ghost: the user agreed to replace bindings in it
    refused     \* ghost: a save that the file system allowed was refused

ghosts == <<edited, asked, refused>>
vars == <<keymap, file, edits, ghosts>>

Bindings == [context : Contexts, keys : Seq(Strokes), command : Commands,
             configured : BOOLEAN]

Binding(x, keys, c, configured) ==
    [context |-> x, keys |-> keys, command |-> c, configured |-> configured]

\* nav_binding_overlaps
Overlaps(a, b) ==
    /\ a.context = b.context
    /\ IsPrefix(a.keys, b.keys) \/ IsPrefix(b.keys, a.keys)

\* No binding is, or begins, another.
Apart(map) == \A i, j \in DOMAIN map : i # j => ~Overlaps(map[i], map[j])

Inherited(map) == [i \in DOMAIN map |-> [map[i] EXCEPT !.configured = FALSE]]

DefaultKeymap ==
    [i \in DOMAIN Defaults |-> Binding(Defaults[i][1], Defaults[i][2], Defaults[i][3], FALSE)]

\* nav_keymap_bind: takes the place of an inherited binding of the same
\* strokes; a prefix of another binding, or of an explicit one, is an error.
Bind(map, b) ==
    LET same == IF map = Failed THEN {} ELSE {i \in DOMAIN map : Overlaps(map[i], b)}
    IN IF map = Failed \/ \E i \in same : map[i].keys # b.keys \/ map[i].configured
       THEN Failed
       ELSE IF same # {} THEN [i \in DOMAIN map |-> IF i \in same THEN b ELSE map[i]]
       ELSE IF Len(map) = BindingMax THEN Failed
       ELSE Append(map, b)

BindAll(map, list) == FoldLeft(Bind, map, list)

\* The bindings that give the command the keys of a list.
Explicitly(x, c, list) == [k \in DOMAIN list |-> Binding(x, list[k], c, TRUE)]

\* What is left of a keymap, in its order.
Kept(map, S) ==
    LET kept[i \in 0 .. Len(map)] ==
            IF i = 0 THEN <<>>
            ELSE IF map[i] \in S THEN Append(kept[i - 1], map[i]) ELSE kept[i - 1]
    IN kept[Len(map)]

\* Mutant: what the new bindings compete with stays.
NotTaken(map, layer) == {}

Taken(map, layer) == {b \in Range(map) : \E l \in Range(layer) : Overlaps(b, l)}

\* read_profile_keys: the keys of the commands in entries replace their
\* inherited keys in their context, and whatever these compete with.
Joined(kept, layer) == IF Len(kept) + Len(layer) > BindingMax THEN Failed ELSE kept \o layer

Under(map, layer, entries, context) ==
    IF map = Failed \/ layer = Failed THEN Failed
    ELSE LET old == {b \in Range(map) : b.command \in DOMAIN entries /\ context[b.command] = b.context}
         IN Joined(Kept(map, Range(map) \ (old \cup Taken(map, layer))), layer)

\* The bindings of the commands of a list, one command after another.
LayerOf(list, entries, context) ==
    FoldLeft(LAMBDA m, c : BindAll(m, Explicitly(context[c], c, entries[c])), <<>>, list)

Layered(map, entries, context) ==
    Under(map, LayerOf(SetToSeq(DOMAIN entries), entries, context), entries, context)

Explicit(map) == {i \in DOMAIN map : map[i].configured}

Checked(map) ==
    IF map = Failed THEN Failed
    ELSE IF \E i, j \in Explicit(map) : i # j /\ Overlaps(map[i], map[j]) THEN Failed ELSE map

\* [keys.CONTEXT], whose entries <<keys, command>> are read in the order of the
\* file, and [keys.CONTEXT.commands].
Single(f, x) ==
    [k \in DOMAIN f.bindings[x] |-> Binding(x, f.bindings[x][k][1], f.bindings[x][k][2], TRUE)]

Section(f, m, x) ==
    Layered(BindAll(m, Single(f, x)), f.commands[x], [c \in DOMAIN f.commands[x] |-> x])

Sections(f, map, list) == FoldLeft(LAMBDA m, x : Section(f, m, x), map, list)

\* read_keymap: [keys], then the tables of the contexts.
Read(f) == Checked(Sections(f, Layered(DefaultKeymap, f.root, Owner), SetToSeq(Contexts)))

\* What a profile has for keys.
KeyLists(entries) ==
    DOMAIN entries \subseteq Commands /\ \A c \in DOMAIN entries : entries[c] \in Seq(Seq(Strokes))
IsProfile(f) ==
    /\ KeyLists(f.root)
    /\ \A x \in Contexts : f.bindings[x] \in Seq(Seq(Strokes) \X Commands) /\ KeyLists(f.commands[x])

\* What the constants have to be.  nav_keymap_defaults makes the defaults with
\* nav_keymap_bind, which keeps them apart.
ConstantsAssumption ==
    /\ IsFiniteSet(Contexts) /\ IsFiniteSet(Commands)
    /\ Owner \in [Commands -> Contexts]
    /\ KeySeqs \subseteq Seq(Strokes)
    /\ Defaults \in Seq(Contexts \X Seq(Strokes) \X Commands)
    /\ Apart(DefaultKeymap)
    /\ BindingMax \in Nat /\ Failed \notin Seq(Bindings)
    /\ \A f \in Files : IsProfile(f)

KeysOf(map, x, c) ==
    LET mine == Kept(map, {b \in Range(map) : b.context = x /\ b.command = c})
    IN [i \in DOMAIN mine |-> mine[i].keys]

\* nav_profile_same_ui: the order of storage counts within a command only.
Same(a, b) ==
    /\ Len(a) = Len(b)
    /\ \A x \in Contexts, c \in Commands : KeysOf(a, x, c) = KeysOf(b, x, c)

----------------------------------------------------------------------------
(* Preferences *)

\* Mutant: only a binding of the same strokes is asked about.
AsksIfEqual(others, additions) ==
    \E b \in Range(others), l \in Range(additions) : b.context = l.context /\ b.keys = l.keys

Asks(others, additions) == Taken(others, additions) # {}

\* nav_keymap_replace, and the question edit_key asks when it returns 1.
Replace(x, c, list) ==
    \E additions \in {BindAll(<<>>, Explicitly(x, c, list))} \ {Failed},
       others \in {Kept(keymap, {b \in Range(keymap) : b.context # x \/ b.command # c})} :
       /\ keymap' = Joined(Kept(others, Range(others) \ Taken(others, additions)), additions)
       /\ keymap' # Failed
       /\ asked' = Asks(others, additions)

\* edit_key: Enter, F5, F6 and Delete.
EditKey(x, c) ==
    /\ edits < MaxEdits /\ edits' = edits + 1
    /\ \/ \E keys \in KeySeqs : Replace(x, c, <<keys>>)
       \/ \E keys \in KeySeqs : Len(keys) = 1 /\ Replace(x, c, Append(KeysOf(keymap, x, c), keys))
       \/ Replace(x, c, <<>>)
    /\ edited' = <<x, c>> /\ refused' = FALSE
    /\ UNCHANGED file

\* Mutant: the old command of a key stays in [keys.CONTEXT].
NothingStale(f, changed) == f.bindings

\* The keys in [keys.CONTEXT] of the commands that changed go.
WithoutStale(f, changed) ==
    [x \in Contexts |->
        Kept(f.bindings[x], {e \in Range(f.bindings[x]) : <<x, e[2]>> \notin changed})]

Changed(base) ==
    {p \in Contexts \X Commands : KeysOf(keymap, p[1], p[2]) # KeysOf(base, p[1], p[2])}

\* The entries of a table with some written over.
Over(new, table) ==
    [c \in DOMAIN new \cup DOMAIN table |-> IF c \in DOMAIN new THEN new[c] ELSE table[c]]

\* The least change: the entry the command has in [keys.CONTEXT.commands],
\* else one in [keys] if the context owns it, else a new one.
Update(f, changed) ==
    LET scoped == {p \in changed : p[2] \in DOMAIN f.commands[p[1]] \/ p[1] # Owner[p[2]]}
        flat == {p[2] : p \in changed \ scoped}
    IN [root     |-> Over([c \in flat |-> KeysOf(keymap, Owner[c], c)], f.root),
        bindings |-> WithoutStale(f, changed),
        commands |-> [x \in Contexts |->
                        Over([c \in {p[2] : p \in {q \in scoped : q[1] = x}} |-> KeysOf(keymap, x, c)],
                             f.commands[x])]]

\* nav_profile_save: the new file is read back before it replaces the old.
Save ==
    /\ \E new \in {Update(file, Changed(Read(file)))} : \E back \in {Read(new)} :
         IF back # Failed /\ Same(keymap, back)
         THEN file' = new /\ refused' = FALSE
         ELSE file' = file /\ refused' = TRUE
    /\ edited' = None /\ asked' = FALSE
    /\ UNCHANGED <<keymap, edits>>

\* nav_config_load_file, at a start or a reload.
Load ==
    /\ keymap' = Inherited(Read(file))
    /\ edited' = None /\ asked' = FALSE /\ refused' = FALSE
    /\ UNCHANGED <<file, edits>>

Init ==
    /\ file \in {f \in Files : Read(f) # Failed}
    /\ keymap = Inherited(Read(file))
    /\ edits = 0 /\ edited = None /\ asked = FALSE /\ refused = FALSE

Next == Save \/ Load \/ \E x \in Contexts, c \in Commands : EditKey(x, c)

Spec == Init /\ [][Next]_vars

----------------------------------------------------------------------------
(* Properties *)

\* Whatever profile was read and whatever edits were made, what is typed in a
\* context has one meaning at most: no binding there is, or begins, another.
OneMeaning == Apart(keymap)

\* An edit takes no key from another command unless the user agreed.
NoKeyTakenUnasked ==
    [][edited' # None /\ ~asked' =>
         \A b \in Range(keymap) : <<b.context, b.command>> = edited' \/ b \in Range(keymap')]_vars

\* An entry of [keys] that one of [keys.CONTEXT.commands] makes void.
Shadowed(f) == \E c \in DOMAIN f.root : c \in DOMAIN f.commands[Owner[c]]

\* Sparse arrays persist overrides: what the editor made can be saved.
EditsCanBeSaved == refused => Shadowed(file)

\* What the tables of a profile name in [keys] and in [keys.CONTEXT].
RootEntries(f) ==
    UNION {Range(Explicitly(Owner[c], c, f.root[c])) : c \in DOMAIN f.root}
SingleEntries(f) == UNION {Range(Single(f, x)) : x \in Contexts}

\* An entry that other tables of the profile make void.
Void(f) == Shadowed(f) \/ ~(RootEntries(f) \cup SingleEntries(f) \subseteq Range(Read(f)))

\* Commands that a table names with all their keys in a context.
Listed(f) ==
    {p \in Contexts \X Commands :
        p[2] \in DOMAIN f.commands[p[1]] \/ (p[2] \in DOMAIN f.root /\ Owner[p[2]] = p[1])}

\* A default that the file takes from a command nobody edited, while nothing
\* in the keymap competes with it any more: it is there again.
Regained(f) ==
    \E d \in Range(DefaultKeymap) :
        /\ <<d.context, d.command>> \notin Listed(f) \cup Changed(Read(f))
        /\ d \notin Range(Read(f))
        /\ Taken(keymap, <<d>>) = {}

\* An entry of [keys.CONTEXT] in the place of a default of an edited command,
\* whose list leaves it no place to take, or one that begins a default.
Misplaced(f) ==
    \E b \in SingleEntries(f), d \in Range(DefaultKeymap) :
        /\ Overlaps(b, d)
        /\ b.keys = d.keys => <<d.context, d.command>> \in Changed(Read(f))

\* The defaults and what was edited are too many to be held at once.
Crowded == Cardinality(Range(DefaultKeymap) \cup Range(Inherited(keymap))) > BindingMax

\* Where it is not, it is for one of these reasons; in every other case the
\* least change of the file says what was edited and nothing else.
RefusalHasACause ==
    refused => Void(file) \/ Regained(file) \/ Misplaced(file) \/ Crowded
=============================================================================
