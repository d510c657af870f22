--------------------------- MODULE MCProfileEditor ---------------------------
(* A small instance of ProfileEditor for TLC: one built-in profile. *)
EXTENDS ProfileEditor

CONSTANTS d1, a, fb, x, y, f1, ac

OneDefault == <<d1>>
OneFactory == <<x>>
=============================================================================
