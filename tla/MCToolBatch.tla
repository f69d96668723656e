---------------------------- MODULE MCToolBatch ----------------------------
(* ToolBatch on small instances.                                            *)
EXTENDS ToolBatch, TLC
=============================================================================
