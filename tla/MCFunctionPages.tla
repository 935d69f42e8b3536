---------------------------- MODULE MCFunctionPages ----------------------------
(***************************************************************************)
(* Small instances of FunctionPages for TLC; the constants are in the cfgs.*)
(***************************************************************************)
EXTENDS FunctionPagesProperties
==============================================================================
