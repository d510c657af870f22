----------------------------- MODULE MCFormTabs -----------------------------
(* A small instance of FormTabs for TLC. *)
EXTENDS FormTabs

CONSTANTS v, w
=============================================================================
