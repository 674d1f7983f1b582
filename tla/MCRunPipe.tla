----------------------------- MODULE MCRunPipe -----------------------------
(* Instances of RunPipe for TLC; the configurations give the bounds.       *)
EXTENDS RunPipe
=============================================================================
