--------------------------- MODULE MCProfileStore ---------------------------
(* A small instance of ProfileStore for TLC: one built-in profile and one id
   clients can use besides the fallback id. *)
EXTENDS ProfileStore

CONSTANTS d1, a, fb, x, y, f1, f2, ac

OneDefault == <<d1>>
OneFactory == <<x>>
=============================================================================
