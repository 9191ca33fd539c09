----------------------------- MODULE ByteStream -----------------------------
(***************************************************************************)
(* What a caller of NavProvider.open_read and read relies on: successive   *)
(* pieces of one resource, none of them empty, then either an end reached  *)
(* only after the whole resource, or a failure after which nothing more is *)
(* handed out and no end is reported.                                      *)
(***************************************************************************)
EXTENDS Integers, Sequences

CONSTANTS Resource,  \* the blocks of each resource that may be served
          Unserved   \* no resource serves the stream yet

VARIABLES
    served,  \* the resource the stream comes from
    given,   \* the blocks handed to the caller
    phase    \* "reading", "ended" or "failed"

vars == <<served, given, phase>>

Init == served = Unserved /\ given = <<>> /\ phase = "reading"

\* The resource is settled (after the redirections) before its first block.
Serve == /\ phase = "reading" /\ served = Unserved
         /\ served' \in DOMAIN Resource
         /\ UNCHANGED <<given, phase>>

Give == /\ phase = "reading" /\ served # Unserved
        /\ \E n \in Len(given) + 1 .. Len(Resource[served]) :
             given' = SubSeq(Resource[served], 1, n)
        /\ UNCHANGED <<served, phase>>

End == /\ phase = "reading" /\ served # Unserved
       /\ given = Resource[served]
       /\ phase' = "ended" /\ UNCHANGED <<served, given>>

Fail == phase = "reading" /\ phase' = "failed" /\ UNCHANGED <<served, given>>

Next == Serve \/ Give \/ End \/ Fail

Spec == Init /\ [][Next]_vars
=============================================================================
