----------------------------- MODULE MCSelector -----------------------------
(* Small instances of Selector for TLC. *)
EXTENDS SelectorProperties
=============================================================================
