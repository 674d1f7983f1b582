--------------------------- MODULE MCToolDispatch ---------------------------
(* ToolDispatch on small batches.                                          *)
EXTENDS ToolDispatch
============================================================================
