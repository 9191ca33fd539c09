----------------------------- MODULE AtomicStore -----------------------------
(***************************************************************************)
(* What a file replaced with nav_platform_secure_write_atomic promises: it *)
(* is absent or holds one whole image, a replacement takes effect in one   *)
(* step, and a power loss shows the current image or the last one known to *)
(* be on stable storage, never a mixture or a part of one.                 *)
(***************************************************************************)
CONSTANTS Images, None

VARIABLES visible,   \* the image a reader finds
          durable    \* the image stable storage is known to hold

Init == visible = None /\ durable = None

Replace == visible' \in Images /\ UNCHANGED durable

Sync == durable' = visible /\ UNCHANGED visible

PowerLoss ==
    /\ visible' \in {visible, durable}
    /\ durable' = visible'

Next == Replace \/ Sync \/ PowerLoss

Spec == Init /\ [][Next]_<<visible, durable>>
=============================================================================
