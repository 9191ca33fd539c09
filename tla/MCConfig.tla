------------------------------ MODULE MCConfig ------------------------------
(***************************************************************************)
(* Model-checking instance of Session.  A behaviour is one of either part, *)
(* and the other waits.                                                    *)
(***************************************************************************)
EXTENDS Session

CONSTANTS b0, b1

VARIABLE part  \* which one goes on

run_vars == <<part, vars, repositories>>

\* Another program removes nav.toml, corrects it or breaks it in one way.
NavTomls == {None} \cup [basic : {b1}, proxy : {"system"}, fault : Faults]

\* Two resources of one server, one of them below a directory; a file edited
\* by hand that has rules for one root twice and more rules than there is
\* room for.
MCResources == {<<"o", "x">>, <<"o", "a", "x">>}
Rule(root) == [root |-> root, credential |-> "c"]
Entry(name, root, c) == [name |-> name, root |-> root, credential |-> c]
MCHandEdits ==
    {[repos |-> <<>>, scopes |-> <<>>],
     [repos |-> <<Entry("m", <<"o">>, None), Entry("n", <<"o", "a">>, "d")>>,
      scopes |-> <<Rule(<<"o">>), Rule(<<"o">>), Rule(<<"o", "a">>)>>]}

RunInit == part \in {"settings", "repositories"} /\ Init /\ Saved!Init
           /\ (part = "settings" => file = None)
           /\ (part = "repositories" => conf = None)

RunNext ==
    \/ part = "settings" /\ Next /\ UNCHANGED <<part, repositories>>
    \/ part = "repositories" /\ Saved!Next /\ UNCHANGED <<part, vars>>

RunSpec == RunInit /\ [][RunNext]_run_vars
=============================================================================
