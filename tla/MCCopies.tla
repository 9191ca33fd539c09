------------------------------ MODULE MCCopies ------------------------------
(***************************************************************************)
(* Model-checking instance of Transfer.  A behaviour is one of two         *)
(* instances of the program that copy and download a short file to one     *)
(* name, or one of a third instance that copies, downloads and moves a     *)
(* longer one and local files between two names.                           *)
(***************************************************************************)
EXTENDS MCTransfer

CONSTANTS p0, r1, r2

VARIABLE alone  \* the third instance is the one that runs

OneAndTwoBlocks == r1 :> <<b1>> @@ r2 :> <<b1, b2>>

\* The pair may change places.
PairSymmetry == Permutations(Procs \ {p0})

Chosen(p, sources, targets) ==
    job'[p] # None => job'[p].source \in sources /\ job'[p].target \in targets

Pair ==
    /\ ~alone
    /\ \/ \E p \in Procs \ {p0} :
            (Copying(p) \/ Crash(p)) /\ Chosen(p, {r1}, {x}) /\ final'[n2] = 0
       \/ \E partial \in BOOLEAN : ForeignFile(n1, partial)

Single ==
    /\ alone
    /\ \/ (Copying(p0) \/ Crash(p0)) /\ Chosen(p0, {r2, x, y}, {x, y})
       \/ \E n \in Names, partial \in BOOLEAN : ForeignFile(n, partial)

RunInit == Init /\ alone \in BOOLEAN
RunNext == (Pair \/ Single) /\ UNCHANGED alone
RunSpec == RunInit /\ [][RunNext]_<<vars, alone>>
=============================================================================
