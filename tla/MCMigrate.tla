------------------------------ MODULE MCMigrate ------------------------------
(* Two query files; entries that overlap list a file twice, an empty list    *)
(* matches nothing.                                                          *)
EXTENDS Migrate

MCContents ==
  {{}, {"annotated", "named", "other"}, {"annotated", "hidden", "malformed"},
   {"mistyped"}, {"hidden", "named"}}
MCLists == {<<>>, <<"a.sql", "b.sql">>, <<"a.sql", "b.sql", "a.sql">>}
=============================================================================
