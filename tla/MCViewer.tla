------------------------------ MODULE MCViewer ------------------------------
(***************************************************************************)
(* Model-checking instance of Viewer: the block cache, and the cursor with *)
(* its searches over every resource of up to five characters that does not *)
(* begin with an empty line.  A behaviour is one of either; the other      *)
(* waits.                                                                  *)
(***************************************************************************)
EXTENDS Viewer

VARIABLE part  \* which one goes on

run_vars == <<part, vars, screen>>

Characters == {Newline, Match, Other}
MCTexts == {<<>>} \cup {t \in UNION {[1 .. n -> Characters] : n \in 1 .. 5} : t[1] # Newline}

ASSUME FirstLinesAssumption == FirstLines

RunInit ==
    /\ part \in {"cache", "screen"}
    /\ Init /\ Screen!Init
    /\ part = "cache" => text = <<>>
    /\ part = "screen" => block[CacheBlocks].length = BlockSize

RunNext ==
    \/ part = "cache" /\ Next /\ UNCHANGED <<part, screen>>
    \/ part = "screen" /\ Screen!Next /\ UNCHANGED <<part, vars>>

Searching == part = "screen" /\ search # None /\ Screen!SearchStep /\ UNCHANGED <<part, vars>>

RunSpec == RunInit /\ [][RunNext]_run_vars /\ WF_run_vars(Searching)
=============================================================================
