----------------------------- MODULE MCCatalog -----------------------------
(* The catalog with two clients: a long transaction and a short one.       *)
EXTENDS Catalog

MCMaxOps == <<2, 1>>
============================================================================
