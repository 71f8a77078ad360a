------------------------------- MODULE Catalog -------------------------------
(***************************************************************************)
(* How a schema script becomes the catalog that queries are analysed       *)
(* against: Catalog::process_statement, statement by statement, next to    *)
(* the database that runs the same script.                                 *)
(* (crates/scythe-core/src/catalog.)                                       *)
(*                                                                         *)
(* The catalog is keyed by the spelling of a name, qualified or not, while *)
(* a database knows each relation by its schema and its name.  Schemas are *)
(* numbers in the order of their names; 0 spells no schema.  The rest of a *)
(* name is a sequence of words, as underscores part them, and a schema's   *)
(* number is the word that names it.                                       *)
(***************************************************************************)
EXTENDS Naturals, Sequences, FiniteSets

CONSTANTS
  Schemas,       \* the schemas of the database
  Main,          \* the one an unqualified name means
  Bases,         \* names of relations, without their schema: their words
  MaxStatements  \* bound: statements of the script

ASSUME CatalogBounds ==
  /\ Schemas \subseteq Nat \ {0}
  /\ Main \in Schemas
  /\ Bases \subseteq Seq(Nat)
  /\ MaxStatements \in Nat

VARIABLES
  dialect,  \* "postgresql" or "mysql"
  tables,   \* catalog.tables: the columns of a spelling
  enums,    \* catalog.enums: the labels of an inline enum, under its key
  db,       \* reference: the relations of the database
  doubted,  \* history: relations a known gap of the code has misrecorded
  relabelled, \* history: keys of inline enums a gap has rewritten
  refused,  \* what was special about the statement the code refused, if any
  length    \* statements so far

vars == <<dialect, tables, enums, db, doubted, relabelled, refused, length>>

-----------------------------------------------------------------------------
Spellings == (Schemas \cup {0}) \X Bases
Names == Schemas \X Bases

\* The relation a spelling means to the database.
Full(n) == IF n[1] = 0 THEN <<Main, n[2]>> ELSE n

Bare(n) == <<0, n[2]>>

With(f, k, v) == [x \in DOMAIN f \cup {k} |-> IF x = k THEN v ELSE f[x]]
Without(f, k) == [x \in DOMAIN f \ {k} |-> f[x]]

NoEnum == <<>>
Labels == IF dialect = "mysql" THEN {"ab", "xy"} ELSE {"none"}

\* A column of the catalog and of the database: its enum is a key there, its
\* labels here.
Recorded(name, nullable, enum) == [name |-> name, nullable |-> nullable, enum |-> enum]
Stored(name, nullable, labels) == [name |-> name, nullable |-> nullable, labels |-> labels]

\* A table has columns; a view shows those of a table by position, under the
\* names they had.  spelling: how the script named it last.
Table(spelling, columns) == [view |-> FALSE, spelling |-> spelling, columns |-> columns]
View(spelling, of, names) ==
  [view |-> TRUE, spelling |-> spelling, of |-> of, names |-> names]

IsTable(f) == f \in DOMAIN db /\ ~db[f].view

ColumnsOf(f) ==
  IF db[f].view
  THEN [i \in DOMAIN db[f].names |->
          [db[db[f].of].columns[i] EXCEPT !.name = db[f].names[i]]]
  ELSE db[f].columns

ViewsOf(f) == {v \in DOMAIN db : db[v].view /\ db[v].of = f}

HasColumn(columns, name) == \E i \in DOMAIN columns : columns[i].name = name

Init ==
  /\ dialect \in {"postgresql", "mysql"}
  /\ tables = <<>>
  /\ enums = <<>>
  /\ db = <<>>
  /\ doubted = {}
  /\ relabelled = {}
  /\ refused = "no"
  /\ length = 0

-----------------------------------------------------------------------------
(* Lookups. *)

\* Keys of `catalog' that an unqualified name also matches.
Qualified(catalog, n) == {k \in DOMAIN catalog : k[2] = n[2] /\ k[1] # 0}

\* A mutation of Keys: a qualifier is dropped before anything is looked up.
KeysUnqualified(catalog, n) == {k \in DOMAIN catalog : k = Bare(n)}

\* lookup_qualified without a search path, and get_table_mut: the key as
\* spelled, or else, for an unqualified name, the smallest that ends in it.
\* The set is empty when nothing matches.
Keys(catalog, n) ==
  IF n \in DOMAIN catalog THEN {n}
  ELSE IF n[1] # 0 THEN {}
  ELSE {k \in Qualified(catalog, n) :
          \A o \in Qualified(catalog, n) : k[1] <= o[1]}

Found(catalog, n) == {catalog[k] : k \in Keys(catalog, n)}

\* A mutation of Canonical: colliding keys are stripped as well.
CanonicalStripped(catalog) == {<<Bare(k), catalog[k]>> : k \in DOMAIN catalog}

\* canonical_entries: what the fingerprint hashes of the tables.  Qualifiers
\* are stripped unless two keys would collide.
Canonical(catalog) ==
  IF \E k, o \in DOMAIN catalog : k # o /\ k[2] = o[2]
  THEN {<<k, catalog[k]>> : k \in DOMAIN catalog}
  ELSE {<<Bare(k), catalog[k]>> : k \in DOMAIN catalog}

-----------------------------------------------------------------------------
(* Statements.  Each is one the database accepts. *)

Running == refused = "no" /\ length < MaxStatements

Read == refused' = "no" /\ length' = length + 1 /\ UNCHANGED dialect

\* unknown_table: the script stops here, and with it the command.
Refuse(n) ==
  /\ refused' = CASE db[Full(n)].spelling # n -> "respelled"
                  [] Full(n) \in doubted      -> "doubted"
                  [] OTHER                    -> "plain"
  /\ length' = length + 1
  /\ UNCHANGED <<dialect, tables, enums, db, doubted, relabelled>>

Doubt(names, condition) == doubted' = doubted \cup (IF condition THEN names ELSE {})

\* Another key stands for the same relation, live or long dropped.
Shadowed(n, f) == \E k \in DOMAIN tables \ {n} : Full(k) = f

\* A name with its dots made underscores: the name of another relation, maybe.
Flat(n) == IF n[1] = 0 THEN n[2] ELSE <<n[1]>> \o n[2]

\* A mutation of EnumKey: the schema is left out of it.
EnumKeyBare(n, column) == <<n[2], column>>

EnumKey(n, column) == <<Flat(n), column>>

\* A mutation of Registered: the labels are forgotten.
RegisteredNever(key, labels) == enums

Registered(key, labels) ==
  IF key = NoEnum THEN enums ELSE With(enums, key, labels)

\* Another table has the enum that one at n gets: it is a table renamed since,
\* or one whose name is the same but for dots and underscores.
Shared(n) ==
  \E k \in DOMAIN tables \ {n} :
    \E i \in DOMAIN tables[k] : tables[k][i].enum = <<Flat(n), "status">>

\* CREATE TABLE IF NOT EXISTS of a spelling that is registered.
Kept(n, ifNotExists) == ifNotExists /\ n \in DOMAIN tables

\* process_create_table: two columns, the second one an inline enum in MySQL.
\* The labels are registered before IF NOT EXISTS is looked at.
CreateTable(n, nullable, labels, ifNotExists) ==
  LET f == Full(n)
      key == IF labels = "none" THEN NoEnum ELSE EnumKey(n, "status")
      exists == f \in DOMAIN db
  IN /\ Running
     /\ exists => ifNotExists
     /\ Read
     /\ enums' = Registered(key, labels)
     /\ relabelled' = (relabelled \ {<<Flat(n), "status">>}) \cup
          (IF exists \/ Shared(n) THEN {<<Flat(n), "status">>} ELSE {})
     /\ tables' = IF Kept(n, ifNotExists) THEN tables
                  ELSE With(tables, n, <<Recorded("id", FALSE, NoEnum),
                                         Recorded("status", nullable, key)>>)
     /\ db' = IF exists THEN db
              ELSE With(db, f, Table(n, <<Stored("id", FALSE, "none"),
                                          Stored("status", nullable, labels)>>))
     /\ doubted' =
          IF exists
          THEN doubted \cup (IF n \in DOMAIN tables THEN {} ELSE {f})
          ELSE (doubted \ {f}) \cup
               (IF Kept(n, ifNotExists) \/ Shadowed(n, f) THEN {f} ELSE {})

\* DROP TABLE, DROP VIEW: the code reads past them.
Drop(n) ==
  LET f == Full(n)
  IN /\ Running
     /\ f \in DOMAIN db
     /\ ViewsOf(f) = {}
     /\ Read
     /\ db' = Without(db, f)
     /\ UNCHANGED <<tables, enums, doubted, relabelled>>

\* resolve_select_columns of SELECT * FROM source.  The labels of its enums
\* are left out.
Selected(key) ==
  [i \in DOMAIN tables[key] |-> [tables[key][i] EXCEPT !.enum = NoEnum]]

\* The code takes source for another relation, or has misrecorded it.
Misread(key, source) == Full(key) # Full(source) \/ Full(source) \in doubted

\* process_create_view, and CREATE TABLE AS (process_create_table), which in
\* PostgreSQL leaves no column NOT NULL.
CreateAs(n, source, view) ==
  LET f == Full(n)
      base == Full(source)
      noted == [i \in DOMAIN ColumnsOf(base) |-> ColumnsOf(base)[i].name]
      copied == [i \in DOMAIN ColumnsOf(base) |->
                   Stored(noted[i],
                          ColumnsOf(base)[i].nullable \/ dialect = "postgresql", "none")]
  IN /\ Running
     /\ f \notin DOMAIN db
     /\ IsTable(base)
     /\ IF Keys(tables, source) = {}
        THEN Refuse(source)
        ELSE \E key \in Keys(tables, source) :
               /\ Read
               /\ tables' = With(tables, n, Selected(key))
               /\ db' = With(db, f, IF view THEN View(n, base, noted)
                                    ELSE Table(n, copied))
               /\ doubted' = (doubted \ {f}) \cup
                    (IF \/ Misread(key, source)
                        \/ Shadowed(n, f)
                        \/ ~view /\ dialect = "postgresql"
                     THEN {f} ELSE {})
               /\ UNCHANGED <<enums, relabelled>>

-----------------------------------------------------------------------------
(* ALTER TABLE: process_alter_table.                                       *)

\* No table is found: every operation on columns refuses it alike.
AlterUnknown(n) ==
  /\ Running
  /\ IsTable(Full(n))
  /\ Keys(tables, n) = {}
  /\ Refuse(n)

\* The columns under `key' become `code', those of the table `sql'; `gap' names
\* the relations the two leave apart.
Alter(n, key, code, sql, gap) ==
  LET f == Full(n)
  IN /\ Running
     /\ IsTable(f)
     /\ Read
     /\ tables' = [tables EXCEPT ![key] = code]
     /\ db' = [db EXCEPT ![f].columns = sql]
     /\ doubted' = doubted \cup gap \cup
          (IF Misread(key, n) THEN {f, Full(key)} ELSE {})
     /\ UNCHANGED <<enums, relabelled>>

NullableSet(columns, name, nullable) ==
  [i \in DOMAIN columns |->
     IF columns[i].name = name THEN [columns[i] EXCEPT !.nullable = nullable]
     ELSE columns[i]]

Renamed(columns, old, new) ==
  [i \in DOMAIN columns |->
     IF columns[i].name = old THEN [columns[i] EXCEPT !.name = new]
     ELSE columns[i]]

\* SET NOT NULL, ADD PRIMARY KEY; DROP NOT NULL, which no view is told of.
AlterNullable(n, column, nullable) ==
  LET set(columns) == NullableSet(columns, column, nullable)
      missed == IF nullable THEN ViewsOf(Full(n)) ELSE {}
  IN /\ dialect = "postgresql" \/ ~nullable
     /\ IsTable(Full(n))
     /\ HasColumn(ColumnsOf(Full(n)), column)
     /\ \E key \in Keys(tables, n) :
          Alter(n, key, set(tables[key]), set(ColumnsOf(Full(n))), missed)

\* MySQL's MODIFY COLUMN: read past, without so much as a lookup.
ModifyColumn(n, column, nullable) ==
  LET f == Full(n)
  IN /\ Running
     /\ dialect = "mysql"
     /\ IsTable(f)
     /\ HasColumn(ColumnsOf(f), column)
     /\ Read
     /\ db' = [db EXCEPT ![f].columns = NullableSet(@, column, nullable)]
     /\ Doubt({f} \cup ViewsOf(f), nullable)
     /\ UNCHANGED <<tables, enums, relabelled>>

\* ADD COLUMN: IF NOT EXISTS is not looked at, and there is a column twice.
AddColumn(n, column, nullable, ifNotExists) ==
  LET f == Full(n)
      present == HasColumn(ColumnsOf(f), column)
      sql == IF present THEN ColumnsOf(f)
             ELSE Append(ColumnsOf(f), Stored(column, nullable, "none"))
  IN /\ IsTable(f)
     /\ present => ifNotExists
     /\ \E key \in Keys(tables, n) :
          Alter(n, key, Append(tables[key], Recorded(column, nullable, NoEnum)),
                sql, IF present THEN {f} ELSE {})

\* The columns that are not named so, in their order.
Retained(columns, name) ==
  LET kept == {i \in DOMAIN columns : columns[i].name # name}
      nth(j) == CHOOSE i \in kept : Cardinality({o \in kept : o <= i}) = j
  IN [j \in 1..Cardinality(kept) |-> columns[nth(j)]]

DropColumn(n, column) ==
  LET f == Full(n)
      kept(columns) == Retained(columns, column)
  IN /\ IsTable(f)
     /\ HasColumn(ColumnsOf(f), column)
     /\ Len(ColumnsOf(f)) > 1
     /\ ViewsOf(f) = {}
     /\ \E key \in Keys(tables, n) :
          Alter(n, key, kept(tables[key]), kept(ColumnsOf(f)), {})

RenameColumn(n, old, new) ==
  LET f == Full(n)
      renamed(columns) == Renamed(columns, old, new)
  IN /\ IsTable(f)
     /\ HasColumn(ColumnsOf(f), old)
     /\ ~HasColumn(ColumnsOf(f), new)
     /\ \E key \in Keys(tables, n) :
          Alter(n, key, renamed(tables[key]), renamed(ColumnsOf(f)), {})

-----------------------------------------------------------------------------
\* A mutation of RenameKeys: the qualifier is always dropped.
RenameKeysBare(n) == {Bare(n)} \cap DOMAIN tables

\* RENAME TO has a lookup of its own: the key as spelled, or else the bare one.
RenameKeys(n) ==
  IF n \in DOMAIN tables THEN {n} ELSE {Bare(n)} \cap DOMAIN tables

\* Where the table is then: PostgreSQL keeps it in its schema.
RenamedTo(n, new) ==
  IF dialect = "postgresql" THEN <<Full(n)[1], new[2]>> ELSE Full(new)

\* The new key is the new name as spelled, whatever schema the table is in.
RenameTable(n, new) ==
  LET f == Full(n)
      target == RenamedTo(n, new)
  IN /\ Running
     /\ IsTable(f)
     /\ target \notin DOMAIN db
     /\ dialect = "postgresql" => new[1] = 0
     /\ ViewsOf(f) = {}
     /\ IF RenameKeys(n) = {}
        THEN Refuse(n)
        ELSE \E key \in RenameKeys(n) :
               /\ Read
               /\ tables' = With(Without(tables, key), new, tables[key])
               /\ db' = With(Without(db, f), target,
                             [db[f] EXCEPT !.spelling = new])
               /\ doubted' = (doubted \ {target}) \cup
                    (IF \/ Misread(key, n)
                        \/ Full(new) # target
                        \/ \E k \in DOMAIN tables \ {key, new} : Full(k) = target
                     THEN {target, Full(key), Full(new)} ELSE {})
               /\ UNCHANGED <<enums, relabelled>>

-----------------------------------------------------------------------------
ColumnNames == {"id", "status", "note"}

EnumKeys == {<<Flat(n), "status">> : n \in Spellings}

Statement ==
  \E n \in Spellings :
    \/ \E nullable, ifNotExists \in BOOLEAN, labels \in Labels :
         CreateTable(n, nullable, labels, ifNotExists)
    \/ Drop(n)
    \/ \E source \in Spellings, view \in BOOLEAN : CreateAs(n, source, view)
    \/ AlterUnknown(n)
    \/ \E column \in ColumnNames, nullable \in BOOLEAN :
         AlterNullable(n, column, nullable) \/ ModifyColumn(n, column, nullable)
    \/ \E nullable, ifNotExists \in BOOLEAN :
         AddColumn(n, "note", nullable, ifNotExists)
    \/ \E column \in ColumnNames : DropColumn(n, column)
    \/ RenameColumn(n, "status", "note")
    \/ \E new \in Spellings : RenameTable(n, new)

Spec == Init /\ [][Statement]_vars

-----------------------------------------------------------------------------
\* Type invariant.
TypeOK ==
  /\ dialect \in {"postgresql", "mysql"}
  /\ DOMAIN tables \subseteq Spellings
  /\ DOMAIN db \subseteq Names
  /\ doubted \subseteq Names
  /\ relabelled \subseteq EnumKeys
  /\ \A k \in DOMAIN tables : \A i \in DOMAIN tables[k] :
       tables[k][i].enum \in DOMAIN enums \cup {NoEnum}
  /\ refused \in {"no", "respelled", "doubted", "plain"}
  /\ length \in 0..MaxStatements

\* The relations a query may name and the code read: one key answers for n.
Unambiguous(n) ==
  n \in DOMAIN tables \/ Cardinality(Qualified(tables, n)) = 1

\* What the code finds under a spelling of a relation it has not misrecorded
\* is that relation: its columns, in order, and NOT NULL only where the
\* database says so.
LookupIsRight ==
  \A n \in Spellings :
    Full(n) \in DOMAIN db \ doubted /\ Unambiguous(n) =>
      \A columns \in Found(tables, n) :
        /\ Len(columns) = Len(ColumnsOf(Full(n)))
        /\ \A i \in DOMAIN columns :
             /\ columns[i].name = ColumnsOf(Full(n))[i].name
             /\ ColumnsOf(Full(n))[i].nullable => columns[i].nullable

\* An inline enum that no other column shares has the labels of its own.
LabelsAreRight ==
  \A n \in Spellings :
    IsTable(Full(n)) /\ Full(n) \notin doubted /\ Unambiguous(n) =>
      \A columns \in Found(tables, n) :
        \A i \in DOMAIN columns :
          columns[i].enum # NoEnum /\ columns[i].enum \notin relabelled =>
            enums[columns[i].enum] = ColumnsOf(Full(n))[i].labels

\* ... and so does that of every column.
EnumsAreTheirOwn ==
  \A n \in Spellings :
    IsTable(Full(n)) /\ Full(n) \notin doubted /\ Unambiguous(n) =>
      \A columns \in Found(tables, n) :
        \A i \in DOMAIN columns :
          columns[i].enum # NoEnum =>
            enums[columns[i].enum] = ColumnsOf(Full(n))[i].labels

\* A script that names each relation as CREATE, or the last RENAME, spelled it
\* is never refused.
ConsistentScriptsAreRead == refused # "plain"

\* A statement that leaves the fingerprint alone leaves the answer to every
\* unqualified name alone.
FingerprintDecidesBareNames ==
  [][Canonical(tables') = Canonical(tables) =>
       \A b \in Bases : Found(tables', <<0, b>>) = Found(tables, <<0, b>>)]_vars

\* ... and to every name.
FingerprintDecidesNames ==
  [][Canonical(tables') = Canonical(tables) =>
       \A n \in Spellings : Found(tables', n) = Found(tables, n)]_vars

\* IF NOT EXISTS on a table that is registered is a no-op.
IfNotExistsIsNoOp ==
  [][\A n \in Spellings, nullable \in BOOLEAN, labels \in Labels :
       CreateTable(n, nullable, labels, TRUE) /\ n \in DOMAIN tables =>
         UNCHANGED <<tables, enums>>]_vars
=============================================================================
