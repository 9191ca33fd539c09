----------------------------- MODULE MCKeymap -----------------------------
(* Two contexts that share strokes, one with a prefix, three commands one  *)
(* of which has no default, and the kinds of entry a profile may have.     *)
EXTENDS Keymap

CONSTANTS Panel, Viewer, Copy, Move, Quit, X, Y

MCOwner == Copy :> Panel @@ Move :> Panel @@ Quit :> Viewer
MCDefaults == << <<Panel, <<X, Y>>, Copy>>, <<Panel, <<Y>>, Copy>>,
                 <<Panel, <<X, X>>, Move>>, <<Viewer, <<Y>>, Quit>> >>
MCKeySeqs == {<<X>>, <<Y>>, <<X, X>>}

NoEntries == [root |-> <<>>, bindings |-> [x \in Contexts |-> <<>>],
              commands |-> [x \in Contexts |-> <<>>]]
MCFiles ==
    {NoEntries,
     [NoEntries EXCEPT !.root = (Copy :> << <<X>> >>)],
     [NoEntries EXCEPT !.bindings[Panel] = << << <<Y>>, Move>> >>],
     [NoEntries EXCEPT !.commands[Panel] = (Move :> << <<Y>>, <<X, X>> >>)],
     [NoEntries EXCEPT !.root = (Copy :> << <<X>> >>), !.commands[Panel] = (Copy :> << <<Y>> >>)],
     [NoEntries EXCEPT !.root = (Copy :> <<>> @@ Move :> << <<X>> >>),
                       !.bindings[Viewer] = << << <<X>>, Copy>> >>]}
=============================================================================
