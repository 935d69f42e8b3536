----------------------------- MODULE MCController -----------------------------
(***************************************************************************)
(* A small instance of Controller for TLC: one name is a prefix of the     *)
(* other.                                                                  *)
(***************************************************************************)
EXTENDS ControllerProperties

MCName == {<<"f", "x">>, <<"f", "x", "2">>}
==============================================================================
