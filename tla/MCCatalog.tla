------------------------------ MODULE MCCatalog ------------------------------
(* Values for model checking Catalog.                                       *)
EXTENDS Catalog

\* "users" and, with 1 for "app", "app_users".
MCBases == {<<3>>, <<1, 3>>}
=============================================================================
