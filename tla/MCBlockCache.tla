---------------------------- MODULE MCBlockCache ----------------------------
(* Model-checking instance of BlockCache on its own, for a source whose     *)
(* reads are whole: four blocks of two bytes, the last one cut short.       *)
EXTENDS BlockCache
=============================================================================
