---------------------------- MODULE MCCompaction ----------------------------
(* Compaction on short contexts.                                           *)
EXTENDS Compaction
============================================================================
