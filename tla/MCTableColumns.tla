--------------------------- MODULE MCTableColumns ---------------------------
(* Two column names, two field names, one default besides NULL. *)
EXTENDS TableColumns
=============================================================================
