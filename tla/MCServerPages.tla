----------------------------- MODULE MCServerPages -----------------------------
(***************************************************************************)
(* A small instance of ServerPages for TLC; its constants are in the cfg.  *)
(***************************************************************************)
EXTENDS ServerPagesProperties
==============================================================================
