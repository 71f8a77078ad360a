----------------------------- MODULE CatalogProofs -----------------------------
(***************************************************************************)
(* The catalog, for any schemas, names and length of the script: the       *)
(* fingerprint decides what an unqualified name means, a script that keeps *)
(* to its own spellings is never refused, and what the code finds under a  *)
(* name it has not misrecorded is that relation of the database, column by *)
(* column, with the labels of its enums.                                   *)
(***************************************************************************)
EXTENDS Catalog, FiniteSetTheorems, TLAPS

KeysOK == DOMAIN tables \subseteq Spellings

\* A relation that is not misrecorded is a key under its last spelling.
SpellingsOK ==
  \A f \in DOMAIN db :
    /\ "spelling" \in DOMAIN db[f]
    /\ f \notin doubted => /\ db[f].spelling \in DOMAIN tables
                           /\ Full(db[f].spelling) = f

CatalogInv == KeysOK /\ SpellingsOK /\ ConsistentScriptsAreRead

-----------------------------------------------------------------------------
(* The fingerprint. *)

LEMMA SpellingFacts ==
  ASSUME NEW k \in Spellings
  PROVE  k = <<k[1], k[2]>> /\ k[1] \in Nat /\ k[2] \in Bases
  <1>1. PICK s \in Schemas \cup {0}, b \in Bases : k = <<s, b>>
    BY DEF Spellings
  <1>2. s \in Nat
    BY CatalogBounds
  <1> QED
    BY <1>1, <1>2

Collides(catalog) == \E k, o \in DOMAIN catalog : k # o /\ k[2] = o[2]

LEMMA CanonicalFacts ==
  ASSUME NEW catalog
  PROVE  /\ Collides(catalog) =>
              Canonical(catalog) = {<<k, catalog[k]>> : k \in DOMAIN catalog}
         /\ ~Collides(catalog) =>
              Canonical(catalog) = {<<Bare(k), catalog[k]>> : k \in DOMAIN catalog}
  BY DEF Canonical, Collides

\* Without a collision a bare name is answered by the entry that bears it.
LEMMA StrippedAnswers ==
  ASSUME NEW catalog, DOMAIN catalog \subseteq Spellings, ~Collides(catalog),
         NEW b \in Bases
  PROVE  Found(catalog, <<0, b>>) = {e[2] : e \in {x \in Canonical(catalog) : x[1] = <<0, b>>}}
  <1>1. Canonical(catalog) = {<<Bare(k), catalog[k]>> : k \in DOMAIN catalog}
    BY CanonicalFacts
  <1>2. Keys(catalog, <<0, b>>) = {k \in DOMAIN catalog : k[2] = b}
    <2>1. CASE <<0, b>> \in DOMAIN catalog
      <3>1. \A k \in DOMAIN catalog : k[2] = b => k = <<0, b>>
        BY <2>1 DEF Collides
      <3>2. Keys(catalog, <<0, b>>) = {<<0, b>>}
        BY <2>1 DEF Keys
      <3> QED
        BY <2>1, <3>1, <3>2
    <2>2. CASE <<0, b>> \notin DOMAIN catalog
      <3>1. Qualified(catalog, <<0, b>>) = {k \in DOMAIN catalog : k[2] = b}
        BY <2>2, SpellingFacts DEF Qualified
      <3>2. Keys(catalog, <<0, b>>) =
              {k \in Qualified(catalog, <<0, b>>) :
                 \A o \in Qualified(catalog, <<0, b>>) : k[1] <= o[1]}
        BY <2>2 DEF Keys
      <3>3. \A k, o \in Qualified(catalog, <<0, b>>) : k[1] <= o[1]
        <4> TAKE k, o \in Qualified(catalog, <<0, b>>)
        <4>1. k = o /\ k \in Spellings
          BY <3>1 DEF Collides
        <4> QED
          BY <4>1, SpellingFacts
      <3> QED
        BY <3>1, <3>2, <3>3
    <2> QED
      BY <2>1, <2>2
  <1>3. \A k \in DOMAIN catalog : Bare(k) = <<0, b>> <=> k[2] = b
    BY DEF Bare
  <1>4. ASSUME NEW v
        PROVE  v \in Found(catalog, <<0, b>>) <=>
               \E k \in DOMAIN catalog : Bare(k) = <<0, b>> /\ v = catalog[k]
    BY <1>2, <1>3 DEF Found
  <1> DEFINE named == {x \in Canonical(catalog) : x[1] = <<0, b>>}
  <1>5. ASSUME NEW v, NEW k \in DOMAIN catalog, Bare(k) = <<0, b>>, v = catalog[k]
        PROVE  v \in {e[2] : e \in named}
    <2>1. <<Bare(k), catalog[k]>> \in named
      BY <1>1, <1>5
    <2> QED
      BY <1>5, <2>1
  <1>6. ASSUME NEW v, v \in {e[2] : e \in named}
        PROVE  \E k \in DOMAIN catalog : Bare(k) = <<0, b>> /\ v = catalog[k]
    <2>1. PICK e \in Canonical(catalog) : e[1] = <<0, b>> /\ v = e[2]
      BY <1>6
    <2>2. PICK k \in DOMAIN catalog : e = <<Bare(k), catalog[k]>>
      BY <1>1, <2>1
    <2> QED
      BY <2>1, <2>2
  <1> QED
    BY <1>4, <1>5, <1>6

\* An entry that could be stripped and one that could not never agree: with a
\* collision some key is qualified, and stays so.
LEMMA CollisionsShow ==
  ASSUME NEW old, NEW new, DOMAIN old \subseteq Spellings,
         Collides(old), ~Collides(new), Canonical(old) = Canonical(new)
  PROVE  FALSE
  <1>1. PICK k, o \in DOMAIN old : k # o /\ k[2] = o[2]
    BY DEF Collides
  <1>2. Canonical(old) = {<<x, old[x]>> : x \in DOMAIN old}
    BY CanonicalFacts
  <1>3. Canonical(new) = {<<Bare(x), new[x]>> : x \in DOMAIN new}
    BY CanonicalFacts
  <1>4. ASSUME NEW x \in DOMAIN old
        PROVE  x[1] = 0
    <2>1. <<x, old[x]>> \in Canonical(old)
      BY <1>2
    <2>2. PICK y \in DOMAIN new : <<x, old[x]>> = <<Bare(y), new[y]>>
      BY <1>3, <2>1
    <2>3. x = <<0, y[2]>>
      BY <2>2 DEF Bare
    <2> QED
      BY <2>3
  <1>5. k = <<k[1], k[2]>> /\ o = <<o[1], o[2]>>
    BY SpellingFacts
  <1> QED
    BY <1>1, <1>4, <1>5

LEMMA SameAnswers ==
  ASSUME NEW old, NEW new, DOMAIN old \subseteq Spellings, DOMAIN new \subseteq Spellings,
         Canonical(old) = Canonical(new), NEW b \in Bases
  PROVE  Found(old, <<0, b>>) = Found(new, <<0, b>>)
  <1>1. CASE ~Collides(old) /\ ~Collides(new)
    BY <1>1, StrippedAnswers
  <1>2. CASE Collides(old) /\ Collides(new)
    <2>1. /\ Canonical(old) = {<<x, old[x]>> : x \in DOMAIN old}
          /\ Canonical(new) = {<<x, new[x]>> : x \in DOMAIN new}
      BY <1>2, CanonicalFacts
    <2>2. ASSUME NEW x \in DOMAIN old
          PROVE  x \in DOMAIN new /\ new[x] = old[x]
      <3>1. <<x, old[x]>> \in Canonical(new)
        BY <2>1
      <3>2. PICK y \in DOMAIN new : <<x, old[x]>> = <<y, new[y]>>
        BY <2>1, <3>1
      <3> QED
        BY <3>2
    <2>3. ASSUME NEW x \in DOMAIN new
          PROVE  x \in DOMAIN old /\ new[x] = old[x]
      <3>1. <<x, new[x]>> \in Canonical(old)
        BY <2>1
      <3>2. PICK y \in DOMAIN old : <<x, new[x]>> = <<y, old[y]>>
        BY <2>1, <3>1
      <3> QED
        BY <3>2
    <2>4. DOMAIN old = DOMAIN new
      BY <2>2, <2>3
    <2>5. Keys(old, <<0, b>>) = Keys(new, <<0, b>>)
      BY <2>4 DEF Keys, Qualified
    <2>6. Keys(old, <<0, b>>) \subseteq DOMAIN old
      BY DEF Keys, Qualified
    <2> QED
      BY <2>2, <2>5, <2>6 DEF Found
  <1>3. CASE Collides(old) /\ ~Collides(new)
    BY <1>3, CollisionsShow
  <1>4. CASE ~Collides(old) /\ Collides(new)
    BY <1>4, CollisionsShow
  <1> QED
    BY <1>1, <1>2, <1>3, <1>4

-----------------------------------------------------------------------------
(* The statements. *)

LEMMA KeysAreKeys ==
  ASSUME NEW n
  PROVE  Keys(tables, n) \subseteq DOMAIN tables /\ RenameKeys(n) \subseteq DOMAIN tables
         /\ (n \in DOMAIN tables => Keys(tables, n) = {n} /\ RenameKeys(n) = {n})
  BY DEF Keys, Qualified, RenameKeys

\* Refusing under the spelling a relation is known by would take a
\* misrecorded relation.
LEMMA RefuseInv ==
  ASSUME CatalogInv, NEW n \in Spellings, Full(n) \in DOMAIN db, n \notin DOMAIN tables,
         Refuse(n)
  PROVE  CatalogInv'
  <1>1. UNCHANGED <<tables, db, doubted>>
    BY DEF Refuse
  <1>2. db[Full(n)].spelling # n \/ Full(n) \in doubted
    BY DEF CatalogInv, SpellingsOK
  <1>3. refused' # "plain"
    <2>1. refused' = CASE db[Full(n)].spelling # n -> "respelled"
                       [] Full(n) \in doubted      -> "doubted"
                       [] OTHER                    -> "plain"
      BY DEF Refuse
    <2> QED
      BY <1>2, <2>1
  <1> QED
    BY <1>1, <1>3 DEF CatalogInv, KeysOK, SpellingsOK, ConsistentScriptsAreRead

\* A relation f comes to be, under the key n.
LEMMA CreatedInv ==
  ASSUME CatalogInv, NEW n \in Spellings, NEW relation, NEW columns, NEW f, f = Full(n),
         tables' = tables \/ tables' = With(tables, n, columns), n \in DOMAIN tables',
         db' = With(db, f, relation), "spelling" \in DOMAIN relation,
         relation.spelling = n,
         doubted \ {f} \subseteq doubted', refused' = "no"
  PROVE  CatalogInv'
  <1>1. DOMAIN tables' = DOMAIN tables \cup {n}
    BY DEF With
  <1>2. /\ DOMAIN db' = DOMAIN db \cup {f} /\ db'[f] = relation
        /\ \A g \in DOMAIN db \ {f} : db'[g] = db[g]
    BY DEF With
  <1>3. SpellingsOK'
    BY <1>1, <1>2 DEF CatalogInv, SpellingsOK
  <1> QED
    BY <1>1, <1>3 DEF CatalogInv, KeysOK, ConsistentScriptsAreRead

\* Columns change, keys and spellings do not.
LEMMA AlteredInv ==
  ASSUME CatalogInv, DOMAIN tables' = DOMAIN tables, DOMAIN db' = DOMAIN db,
         \A f \in DOMAIN db : /\ DOMAIN db'[f] = DOMAIN db[f]
                              /\ "spelling" \in DOMAIN db[f] =>
                                   db'[f].spelling = db[f].spelling,
         doubted \subseteq doubted', refused' = "no"
  PROVE  CatalogInv'
  <1>1. SpellingsOK'
    BY DEF CatalogInv, SpellingsOK
  <1> QED
    BY <1>1 DEF CatalogInv, KeysOK, ConsistentScriptsAreRead

LEMMA ColumnsAltered ==
  ASSUME NEW f \in DOMAIN db, NEW columns, db' = [db EXCEPT ![f].columns = columns]
  PROVE  /\ DOMAIN db' = DOMAIN db
         /\ \A g \in DOMAIN db : /\ DOMAIN db'[g] = DOMAIN db[g]
                                 /\ "spelling" \in DOMAIN db[g] =>
                                      db'[g].spelling = db[g].spelling
  <1>1. /\ DOMAIN db' = DOMAIN db
        /\ \A g \in DOMAIN db : g # f => db'[g] = db[g]
        /\ db'[f] = [db[f] EXCEPT !.columns = columns]
    OBVIOUS
  <1> DEFINE r == db[f]
             s == [r EXCEPT !.columns = columns]
  <1>2. DOMAIN s = DOMAIN r /\ ("spelling" \in DOMAIN r => s.spelling = r.spelling)
    OBVIOUS
  <1> QED
    BY <1>1, <1>2

LEMMA CreateTableInv ==
  ASSUME CatalogInv, NEW n \in Spellings, NEW nullable \in BOOLEAN, NEW labels,
         NEW ifNotExists \in BOOLEAN, CreateTable(n, nullable, labels, ifNotExists)
  PROVE  CatalogInv'
  <1> DEFINE f == Full(n)
             columns == <<Recorded("id", FALSE, NoEnum),
                          Recorded("status", nullable,
                                   IF labels = "none" THEN NoEnum ELSE EnumKey(n, "status"))>>
             relation == Table(n, <<Stored("id", FALSE, "none"),
                                    Stored("status", nullable, labels)>>)
  <1>1. refused' = "no"
    BY DEF CreateTable, Read
  <1>2. tables' = IF Kept(n, ifNotExists) THEN tables ELSE With(tables, n, columns)
    BY DEF CreateTable
  <1>3. n \in DOMAIN tables' /\ (tables' = tables \/ tables' = With(tables, n, columns))
    BY <1>2 DEF Kept, With
  <1>4. CASE f \in DOMAIN db
    <2>1. db' = db /\ doubted \subseteq doubted'
      BY <1>4 DEF CreateTable
    <2>2. DOMAIN tables \subseteq DOMAIN tables' /\ DOMAIN tables' \subseteq DOMAIN tables \cup {n}
      BY <1>3 DEF With
    <2>3. SpellingsOK'
      BY <2>1, <2>2 DEF CatalogInv, SpellingsOK
    <2> QED
      BY <1>1, <2>2, <2>3 DEF CatalogInv, KeysOK, ConsistentScriptsAreRead
  <1>5. CASE f \notin DOMAIN db
    <2>1. db' = With(db, f, relation)
      BY <1>5 DEF CreateTable
    <2>2. doubted \ {f} \subseteq doubted'
      BY <1>5 DEF CreateTable
    <2>3. "spelling" \in DOMAIN relation /\ relation.spelling = n
      BY DEF Table
    <2> HIDE DEF relation, columns
    <2> QED
      BY <1>1, <1>3, <2>1, <2>2, <2>3, CreatedInv
  <1> QED
    BY <1>4, <1>5

LEMMA DropInv ==
  ASSUME CatalogInv, NEW n \in Spellings, Drop(n)
  PROVE  CatalogInv'
  <1>1. /\ UNCHANGED <<tables, doubted>> /\ refused' = "no"
        /\ db' = Without(db, Full(n))
    BY DEF Drop, Read
  <1>2. SpellingsOK'
    BY <1>1 DEF Without, CatalogInv, SpellingsOK
  <1> QED
    BY <1>1, <1>2 DEF CatalogInv, KeysOK, ConsistentScriptsAreRead

LEMMA CreateAsInv ==
  ASSUME CatalogInv, NEW n \in Spellings, NEW source \in Spellings, NEW view \in BOOLEAN,
         CreateAs(n, source, view)
  PROVE  CatalogInv'
  <1>1. CASE Keys(tables, source) = {}
    <2>1. Refuse(source) /\ Full(source) \in DOMAIN db
      BY <1>1 DEF CreateAs, IsTable
    <2>2. source \notin DOMAIN tables
      BY <1>1, KeysAreKeys
    <2> QED
      BY <2>1, <2>2, RefuseInv
  <1>2. CASE Keys(tables, source) # {}
    <2> DEFINE f == Full(n)
               base == Full(source)
               noted == [i \in DOMAIN ColumnsOf(base) |-> ColumnsOf(base)[i].name]
               copied == [i \in DOMAIN ColumnsOf(base) |->
                            Stored(noted[i],
                              ColumnsOf(base)[i].nullable \/ dialect = "postgresql", "none")]
               relation == IF view THEN View(n, base, noted) ELSE Table(n, copied)
    <2>1. PICK key \in Keys(tables, source) :
            /\ refused' = "no"
            /\ tables' = With(tables, n, Selected(key))
            /\ db' = With(db, f, relation)
            /\ doubted \ {f} \subseteq doubted'
      BY <1>2 DEF CreateAs, Read
    <2>2. "spelling" \in DOMAIN relation /\ relation.spelling = n
      BY DEF Table, View
    <2>3. n \in DOMAIN tables'
      BY <2>1 DEF With
    <2> HIDE DEF relation
    <2> QED
      BY <2>1, <2>2, <2>3, CreatedInv
  <1> QED
    BY <1>1, <1>2

LEMMA AlterUnknownInv ==
  ASSUME CatalogInv, NEW n \in Spellings, AlterUnknown(n)
  PROVE  CatalogInv'
  <1>1. Full(n) \in DOMAIN db /\ n \notin DOMAIN tables /\ Refuse(n)
    BY KeysAreKeys DEF AlterUnknown, IsTable
  <1> QED
    BY <1>1, RefuseInv

LEMMA AlterInv ==
  ASSUME CatalogInv, NEW n \in Spellings, NEW key, NEW code, NEW sql, NEW gap,
         Alter(n, key, code, sql, gap)
  PROVE  CatalogInv'
  <1>1. /\ Full(n) \in DOMAIN db /\ refused' = "no"
        /\ tables' = [tables EXCEPT ![key] = code]
        /\ db' = [db EXCEPT ![Full(n)].columns = sql]
        /\ doubted \subseteq doubted'
    BY DEF Alter, IsTable, Read
  <1>2. DOMAIN tables' = DOMAIN tables
    BY <1>1
  <1> QED
    BY <1>1, <1>2, ColumnsAltered, AlteredInv

LEMMA ModifyColumnInv ==
  ASSUME CatalogInv, NEW n \in Spellings, NEW column, NEW nullable \in BOOLEAN,
         ModifyColumn(n, column, nullable)
  PROVE  CatalogInv'
  <1>1. /\ Full(n) \in DOMAIN db /\ refused' = "no" /\ tables' = tables
        /\ db' = [db EXCEPT ![Full(n)].columns =
                    NullableSet(db[Full(n)].columns, column, nullable)]
        /\ doubted \subseteq doubted'
    BY DEF ModifyColumn, IsTable, Read, Doubt
  <1> QED
    BY <1>1, ColumnsAltered, AlteredInv

\* A rename takes the key from nobody but relations it doubts.
LEMMA RenameTableInv ==
  ASSUME CatalogInv, NEW n \in Spellings, NEW new \in Spellings, RenameTable(n, new)
  PROVE  CatalogInv'
  <1> DEFINE f == Full(n)
             target == RenamedTo(n, new)
             relation == [db[f] EXCEPT !.spelling = new]
  <1>0. f \in DOMAIN db /\ target \notin DOMAIN db
    BY DEF RenameTable, IsTable
  <1>1. CASE RenameKeys(n) = {}
    <2>1. Refuse(n) /\ n \notin DOMAIN tables
      BY <1>1, KeysAreKeys DEF RenameTable
    <2> QED
      BY <1>0, <2>1, RefuseInv
  <1>2. CASE RenameKeys(n) # {}
    <2>1. PICK key \in RenameKeys(n) :
            /\ refused' = "no"
            /\ tables' = With(Without(tables, key), new, tables[key])
            /\ db' = With(Without(db, f), target, relation)
            /\ doubted' = (doubted \ {target}) \cup
                 (IF \/ Misread(key, n)
                     \/ Full(new) # target
                     \/ \E k \in DOMAIN tables \ {key, new} : Full(k) = target
                  THEN {target, Full(key), Full(new)} ELSE {})
      BY <1>2 DEF RenameTable, Read
    <2>2. DOMAIN tables' = (DOMAIN tables \ {key}) \cup {new}
      BY <2>1 DEF With, Without
    <2>3. /\ DOMAIN db' = (DOMAIN db \ {f}) \cup {target} /\ db'[target] = relation
          /\ \A g \in DOMAIN db \ {f} : db'[g] = db[g]
      BY <1>0, <2>1 DEF With, Without
    <2>4. "spelling" \in DOMAIN relation /\ relation.spelling = new
      BY <1>0 DEF CatalogInv, SpellingsOK
    <2>5. SpellingsOK'
      <3> SUFFICES ASSUME NEW g \in DOMAIN db'
                   PROVE  /\ "spelling" \in DOMAIN db'[g]
                          /\ g \notin doubted' => /\ db'[g].spelling \in DOMAIN tables'
                                                  /\ Full(db'[g].spelling) = g
        BY DEF SpellingsOK, Full
      <3>1. CASE g = target
        <4>1. g \notin doubted' => Full(new) = target
          BY <2>1, <3>1
        <4> HIDE DEF relation, target
        <4> QED
          BY <2>2, <2>3, <2>4, <3>1, <4>1
      <3>2. CASE g # target
        <4>1. g \in DOMAIN db \ {f} /\ db'[g] = db[g]
          BY <2>3, <3>2
        <4>2. "spelling" \in DOMAIN db'[g]
          BY <4>1 DEF CatalogInv, SpellingsOK
        <4>3. ASSUME g \notin doubted'
              PROVE  db'[g].spelling \in DOMAIN tables' /\ Full(db'[g].spelling) = g
          <5>1. g \notin doubted
            BY <2>1, <3>2, <4>3
          <5>2. db[g].spelling \in DOMAIN tables /\ Full(db[g].spelling) = g
            BY <4>1, <5>1 DEF CatalogInv, SpellingsOK
          <5>3. db[g].spelling # key
            <6> SUFFICES ASSUME db[g].spelling = key PROVE FALSE
              OBVIOUS
            <6>1. Full(key) = g /\ Misread(key, n)
              BY <4>1, <5>2 DEF Misread
            <6> QED
              BY <2>1, <4>3, <6>1
          <5> QED
            BY <2>2, <4>1, <5>2, <5>3
        <4> QED
          BY <4>2, <4>3
      <3> QED
        BY <3>1, <3>2
    <2> QED
      BY <2>1, <2>2, <2>5 DEF CatalogInv, KeysOK, ConsistentScriptsAreRead
  <1> QED
    BY <1>1, <1>2

LEMMA CatalogInvInit == Init => CatalogInv
  BY DEF Init, CatalogInv, KeysOK, SpellingsOK, ConsistentScriptsAreRead

LEMMA CatalogInvNext == CatalogInv /\ [Statement]_vars => CatalogInv'
  <1> SUFFICES ASSUME CatalogInv, [Statement]_vars PROVE CatalogInv'
    OBVIOUS
  <1>1. CASE UNCHANGED vars
    BY <1>1 DEF vars, CatalogInv, KeysOK, SpellingsOK, ConsistentScriptsAreRead
  <1>2. ASSUME NEW n \in Spellings, NEW column \in ColumnNames, NEW nullable \in BOOLEAN,
               AlterNullable(n, column, nullable)
        PROVE  CatalogInv'
    BY <1>2, AlterInv DEF AlterNullable
  <1>3. ASSUME NEW n \in Spellings, NEW nullable \in BOOLEAN, NEW ifNotExists \in BOOLEAN,
               AddColumn(n, "note", nullable, ifNotExists)
        PROVE  CatalogInv'
    BY <1>3, AlterInv DEF AddColumn
  <1>4. ASSUME NEW n \in Spellings, NEW column \in ColumnNames, DropColumn(n, column)
        PROVE  CatalogInv'
    BY <1>4, AlterInv DEF DropColumn
  <1>5. ASSUME NEW n \in Spellings, RenameColumn(n, "status", "note")
        PROVE  CatalogInv'
    BY <1>5, AlterInv DEF RenameColumn
  <1>6. ASSUME Statement PROVE CatalogInv'
    BY <1>2, <1>3, <1>4, <1>5, <1>6, CreateTableInv, DropInv, CreateAsInv,
       AlterUnknownInv, ModifyColumnInv, RenameTableInv DEF Statement
  <1> QED
    BY <1>1, <1>6

THEOREM SpecCatalogInv == Spec => []CatalogInv
  <1> QED
    BY CatalogInvInit, CatalogInvNext, PTL DEF Spec

\* A script that names each relation as its CREATE or last RENAME spelled it
\* is never refused.  (unknown_table in process_alter_table and the lookups.)
THEOREM SpecConsistentScriptsAreRead == Spec => []ConsistentScriptsAreRead
  <1>1. CatalogInv => ConsistentScriptsAreRead
    BY DEF CatalogInv
  <1> QED
    BY <1>1, SpecCatalogInv, PTL

\* No statement changes what an unqualified name means behind the back of the
\* fingerprint.  (canonical_entries against lookup_qualified.)
THEOREM SpecFingerprintDecidesBareNames == Spec => FingerprintDecidesBareNames
  <1> DEFINE Decided == Canonical(tables') = Canonical(tables) =>
               \A b \in Bases : Found(tables', <<0, b>>) = Found(tables, <<0, b>>)
  <1>1. CatalogInv /\ CatalogInv' => Decided
    BY SameAnswers DEF CatalogInv, KeysOK
  <1>2. Spec => [][Decided]_vars
    <2> HIDE DEF Decided
    <2> QED
      BY <1>1, SpecCatalogInv, PTL DEF Spec
  <1> QED
    BY <1>2 DEF FingerprintDecidesBareNames

-----------------------------------------------------------------------------
(* What DROP COLUMN keeps. *)

KeptOf(columns, name) == {i \in DOMAIN columns : columns[i].name # name}

Upto(S, i) == {o \in S : o <= i}

Nth(S, j) == CHOOSE i \in S : Cardinality(Upto(S, i)) = j

\* The nth of a finite set of numbers is one of them.
LEMMA NthIsElement ==
  ASSUME NEW S, S \subseteq Nat, IsFiniteSet(S), NEW j \in 1..Cardinality(S)
  PROVE  Nth(S, j) \in S
  <1> DEFINE c == Cardinality(S)
             f == [i \in S |-> Cardinality(Upto(S, i))]
  <1>1. c \in Nat
    BY FS_CardinalityType
  <1>2. ASSUME NEW i \in S
        PROVE  /\ Upto(S, i) \in SUBSET S /\ i \in Upto(S, i)
               /\ IsFiniteSet(Upto(S, i))
               /\ f[i] \in 1..c
    <2>1. Upto(S, i) \in SUBSET S /\ i \in Upto(S, i)
      BY DEF Upto
    <2>2. IsFiniteSet(Upto(S, i)) /\ Cardinality(Upto(S, i)) <= c
      BY <2>1, FS_Subset
    <2>3. Cardinality(Upto(S, i)) \in Nat /\ Cardinality(Upto(S, i)) # 0
      BY <2>1, <2>2, FS_CardinalityType, FS_EmptySet
    <2> QED
      BY <1>1, <2>1, <2>2, <2>3
  <1>3. ASSUME NEW i \in S, NEW k \in S, i < k
        PROVE  f[i] # f[k]
    <2>0. i \in Nat /\ k \in Nat /\ \A o \in S : o \in Nat
      OBVIOUS
    <2>1. Upto(S, i) \in SUBSET Upto(S, k) /\ k \in Upto(S, k) /\ k \notin Upto(S, i)
      <3>1. \A o \in S : o <= i => o <= k
        BY <1>3, <2>0
      <3>2. k <= k /\ ~(k <= i)
        BY <1>3, <2>0
      <3> QED
        BY <3>1, <3>2 DEF Upto
    <2>2. Cardinality(Upto(S, k)) # Cardinality(Upto(S, i))
      BY <1>2, <2>1, FS_Subset
    <2> QED
      BY <2>2
  <1>4. f \in Injection(S, 1..c)
    <2>1. f \in [S -> 1..c]
      BY <1>2
    <2>2. \A i, k \in S : f[i] = f[k] => i = k
      <3> HIDE DEF f
      <3> QED
        BY <1>3
    <2> QED
      BY <2>1, <2>2 DEF Injection, IsInjective
  <1>5. IsFiniteSet(1..c) /\ Cardinality(1..c) = c
    BY <1>1, FS_Interval
  <1>6. f \in Surjection(S, 1..c)
    BY <1>4, <1>5, FS_Injection
  <1>7. PICK i \in S : f[i] = j
    BY <1>6 DEF Surjection
  <1>8. Cardinality(Upto(S, i)) = j
    BY <1>7
  <1> QED
    BY <1>8 DEF Nth

LEMMA RetainedFacts ==
  ASSUME NEW S, NEW columns \in Seq(S), NEW name
  PROVE  LET kept == KeptOf(columns, name)
         IN /\ Cardinality(kept) \in Nat
            /\ DOMAIN Retained(columns, name) = 1..Cardinality(kept)
            /\ \A j \in 1..Cardinality(kept) :
                 /\ Nth(kept, j) \in DOMAIN columns
                 /\ Retained(columns, name)[j] = columns[Nth(kept, j)]
            /\ Retained(columns, name) \in Seq(S)
  <1> DEFINE kept == KeptOf(columns, name)
             c == Cardinality(kept)
  <1>1. Len(columns) \in Nat /\ DOMAIN columns = 1..Len(columns)
        /\ \A i \in DOMAIN columns : columns[i] \in S
    OBVIOUS
  <1>2. kept \in SUBSET (1..Len(columns)) /\ IsFiniteSet(1..Len(columns))
    BY <1>1, FS_Interval DEF KeptOf
  <1>3. IsFiniteSet(kept) /\ kept \subseteq Nat
    BY <1>1, <1>2, FS_Subset
  <1>4. c \in Nat
    BY <1>3, FS_CardinalityType
  <1>5. \A j \in 1..c : Nth(kept, j) \in kept
    BY <1>3, NthIsElement
  <1>6. Retained(columns, name) = [j \in 1..c |-> columns[Nth(kept, j)]]
    BY DEF Retained, KeptOf, Nth, Upto
  <1>7. \A j \in 1..c : Nth(kept, j) \in DOMAIN columns
    BY <1>5 DEF KeptOf
  <1>8. Retained(columns, name) \in Seq(S)
    <2> HIDE DEF kept
    <2>1. \A j \in 1..c : columns[Nth(kept, j)] \in S
      BY <1>1, <1>7
    <2>2. Retained(columns, name) \in [1..c -> S]
      BY <1>6, <2>1
    <2> HIDE DEF c
    <2> QED
      BY <1>4, <2>2
  <1> HIDE DEF c, kept
  <1>9. /\ DOMAIN Retained(columns, name) = 1..c
        /\ \A j \in 1..c : Retained(columns, name)[j] = columns[Nth(kept, j)]
    BY <1>6
  <1> QED
    BY <1>4, <1>7, <1>8, <1>9 DEF c, kept

-----------------------------------------------------------------------------
(* Lookups. *)

CodeColumn ==
  [name : ColumnNames, nullable : BOOLEAN, enum : EnumKeys \cup {NoEnum}]
SqlColumn == [name : ColumnNames, nullable : BOOLEAN, labels : {"ab", "xy", "none"}]

TableRecord == [view : {FALSE}, spelling : Spellings, columns : Seq(SqlColumn)]
ViewRecord == [view : {TRUE}, spelling : Spellings, of : Names, names : Seq(ColumnNames)]

ScriptOK ==
  /\ dialect \in {"postgresql", "mysql"}
  /\ doubted \subseteq Names
  /\ relabelled \subseteq EnumKeys
  /\ refused \in {"no", "respelled", "doubted", "plain"}
  /\ length \in 0..MaxStatements

TablesOK ==
  /\ DOMAIN tables \subseteq Spellings
  /\ IsFiniteSet(DOMAIN tables)
  /\ \A k \in DOMAIN tables : tables[k] \in Seq(CodeColumn)

RelationsOK ==
  /\ DOMAIN db \subseteq Names
  /\ \A f \in DOMAIN db : db[f] \in TableRecord \cup ViewRecord

\* A view is of a table, and shows columns it has.
ViewsOK ==
  \A v \in DOMAIN db : db[v].view =>
    IsTable(db[v].of) /\ DOMAIN db[v].names \subseteq DOMAIN db[db[v].of].columns

EnumsOK ==
  \A k \in DOMAIN tables : \A i \in DOMAIN tables[k] :
    tables[k][i].enum \in DOMAIN enums \cup {NoEnum}

\* The columns of the code are those of the database, NOT NULL only where
\* they are.
Agree(code, sql) ==
  /\ DOMAIN code = DOMAIN sql
  /\ \A i \in DOMAIN code : /\ code[i].name = sql[i].name
                            /\ sql[i].nullable => code[i].nullable

\* A relation that is not misrecorded has one key, its last spelling, and its
\* columns are there.
ColumnsOK ==
  \A k \in DOMAIN tables : Full(k) \in DOMAIN db \ doubted =>
    db[Full(k)].spelling = k /\ Agree(tables[k], ColumnsOf(Full(k)))

Labelled(code, sql) ==
  \A i \in DOMAIN code :
    code[i].enum # NoEnum /\ code[i].enum \notin relabelled =>
      enums[code[i].enum] = sql[i].labels

LabelsOK ==
  \A k \in DOMAIN tables : IsTable(Full(k)) /\ Full(k) \notin doubted =>
    Labelled(tables[k], db[Full(k)].columns)

LookupInv ==
  ScriptOK /\ TablesOK /\ RelationsOK /\ ViewsOK /\ EnumsOK /\ ColumnsOK /\ LabelsOK

LEMMA FullIsName ==
  ASSUME NEW n \in Spellings
  PROVE  Full(n) \in Names
  BY CatalogBounds DEF Spellings, Names, Full

LEMMA RelationFacts ==
  ASSUME RelationsOK, NEW f \in DOMAIN db
  PROVE  /\ db[f].view \in BOOLEAN
         /\ ~db[f].view => db[f] \in TableRecord /\ db[f].columns \in Seq(SqlColumn)
         /\ db[f].view => db[f] \in ViewRecord /\ db[f].of \in Names
                          /\ db[f].names \in Seq(ColumnNames)
  BY DEF RelationsOK, TableRecord, ViewRecord

LEMMA CodeColumnFacts ==
  ASSUME NEW c \in CodeColumn
  PROVE  /\ c.name \in ColumnNames /\ c.nullable \in BOOLEAN
         /\ c.enum \in EnumKeys \cup {NoEnum}
         /\ \A enum \in EnumKeys \cup {NoEnum} :
              [c EXCEPT !.enum = enum] \in CodeColumn
         /\ \A name \in ColumnNames : [c EXCEPT !.name = name] \in CodeColumn
         /\ \A nullable \in BOOLEAN : [c EXCEPT !.nullable = nullable] \in CodeColumn
  BY DEF CodeColumn

LEMMA SqlColumnFacts ==
  ASSUME NEW c \in SqlColumn
  PROVE  /\ c.name \in ColumnNames /\ c.nullable \in BOOLEAN
         /\ \A name \in ColumnNames : [c EXCEPT !.name = name] \in SqlColumn
         /\ \A nullable \in BOOLEAN : [c EXCEPT !.nullable = nullable] \in SqlColumn
  BY DEF SqlColumn

LEMMA TableColumns ==
  ASSUME NEW f, IsTable(f)
  PROVE  ColumnsOf(f) = db[f].columns
  BY DEF IsTable, ColumnsOf

\* A view shows the columns of its table under other names.
LEMMA ViewColumns ==
  ASSUME RelationsOK, ViewsOK, NEW f \in DOMAIN db, db[f].view
  PROVE  /\ IsTable(db[f].of) /\ DOMAIN db[f].names \subseteq DOMAIN db[db[f].of].columns
         /\ ColumnsOf(f) \in Seq(SqlColumn)
         /\ DOMAIN ColumnsOf(f) = DOMAIN db[f].names
         /\ \A i \in DOMAIN db[f].names :
              /\ ColumnsOf(f)[i] \in SqlColumn
              /\ ColumnsOf(f)[i].name = db[f].names[i]
              /\ ColumnsOf(f)[i].nullable = db[db[f].of].columns[i].nullable
  <1> DEFINE names == db[f].names
             columns == db[db[f].of].columns
             shown == [i \in DOMAIN names |-> [columns[i] EXCEPT !.name = names[i]]]
  <1>1. IsTable(db[f].of) /\ DOMAIN names \subseteq DOMAIN columns
    BY DEF ViewsOK
  <1>2. columns \in Seq(SqlColumn) /\ names \in Seq(ColumnNames)
    BY <1>1, RelationFacts DEF IsTable
  <1>3. ColumnsOf(f) = shown
    BY DEF ColumnsOf
  <1> HIDE DEF names, columns
  <1>4. Len(names) \in Nat /\ DOMAIN names = 1..Len(names)
        /\ \A i \in DOMAIN names : names[i] \in ColumnNames /\ columns[i] \in SqlColumn
    BY <1>1, <1>2
  <1>5. ASSUME NEW i \in DOMAIN names
        PROVE  /\ shown[i] \in SqlColumn /\ shown[i].name = names[i]
               /\ shown[i].nullable = columns[i].nullable
    <2>1. shown[i] = [columns[i] EXCEPT !.name = names[i]]
      OBVIOUS
    <2> HIDE DEF shown
    <2>2. names[i] \in ColumnNames /\ columns[i] \in SqlColumn
      BY <1>4
    <2> QED
      BY <2>1, <2>2 DEF SqlColumn
  <1>6. DOMAIN shown = 1..Len(names) /\ shown = [i \in 1..Len(names) |-> shown[i]]
    BY <1>4
  <1> HIDE DEF shown
  <1>7. shown \in Seq(SqlColumn)
    BY <1>4, <1>5, <1>6
  <1> QED
    BY <1>1, <1>3, <1>4, <1>5, <1>6, <1>7 DEF names, columns

\* What k answers is left alone, and so is its relation.
LEMMA CarriedColumns ==
  ASSUME ColumnsOK, NEW k \in DOMAIN tables, tables'[k] = tables[k],
         Full(k) \in DOMAIN db \ doubted, db'[Full(k)] = db[Full(k)],
         db[Full(k)].view => db'[db[Full(k)].of] = db[db[Full(k)].of]
  PROVE  db'[Full(k)].spelling = k /\ Agree(tables'[k], ColumnsOf(Full(k))')
  <1>1. ColumnsOf(Full(k))' = ColumnsOf(Full(k))
    BY DEF ColumnsOf, Full
  <1> QED
    BY <1>1 DEF ColumnsOK

LEMMA CarriedLabels ==
  ASSUME LabelsOK, UNCHANGED <<enums, relabelled>>,
         NEW k \in DOMAIN tables, tables'[k] = tables[k],
         Full(k) \in DOMAIN db \ doubted, db'[Full(k)] = db[Full(k)],
         ~db'[Full(k)].view
  PROVE  Labelled(tables[k], db[Full(k)].columns)'
  <1>1. Labelled(tables[k], db[Full(k)].columns)
    BY DEF LabelsOK, IsTable
  <1> QED
    BY <1>1 DEF Labelled

LEMMA SeqFacts ==
  ASSUME NEW S, NEW s \in Seq(S)
  PROVE  Len(s) \in Nat /\ DOMAIN s = 1..Len(s) /\ \A i \in DOMAIN s : s[i] \in S
  OBVIOUS

\* Columns that agreed, with their labels, still do, and the views of the table
\* with them, but for the relations in gap.
Preserves(n, key, code, sql, gap) ==
  LET f == Full(n)
  IN /\ code \in Seq(CodeColumn) /\ sql \in Seq(SqlColumn) /\ gap \subseteq Names
     /\ f \notin gap /\ Agree(tables[key], db[f].columns) => Agree(code, sql)
     /\ f \notin gap /\ Agree(tables[key], db[f].columns)
          /\ Labelled(tables[key], db[f].columns) => Labelled(code, sql)
     /\ \A v \in ViewsOf(f) : \A i \in DOMAIN db[v].names :
          /\ i \in DOMAIN sql
          /\ v \notin gap /\ sql[i].nullable => db[f].columns[i].nullable
     /\ \A i \in DOMAIN code :
          code[i].enum = NoEnum \/ \E j \in DOMAIN tables[key] : code[i].enum = tables[key][j].enum

\* One key and one table are given other columns.
LEMMA AlterLookup ==
  ASSUME LookupInv, NEW n \in Spellings, NEW key \in DOMAIN tables, NEW code, NEW sql, NEW gap,
         Alter(n, key, code, sql, gap), Preserves(n, key, code, sql, gap)
  PROVE  LookupInv'
  <1> DEFINE f == Full(n)
             relation == [db[f] EXCEPT !.columns = sql]
  <1>0. /\ code \in Seq(CodeColumn) /\ sql \in Seq(SqlColumn) /\ gap \subseteq Names
        /\ f \notin gap /\ Agree(tables[key], db[f].columns) => Agree(code, sql)
        /\ f \notin gap /\ Agree(tables[key], db[f].columns)
             /\ Labelled(tables[key], db[f].columns) => Labelled(code, sql)
    BY DEF Preserves
  <1>v. \A v \in ViewsOf(f) : \A i \in DOMAIN db[v].names :
          /\ i \in DOMAIN sql
          /\ v \notin gap /\ sql[i].nullable => db[f].columns[i].nullable
    BY DEF Preserves
  <1>e. \A i \in DOMAIN code : code[i].enum = NoEnum
          \/ \E j \in DOMAIN tables[key] : code[i].enum = tables[key][j].enum
    BY DEF Preserves
  <1>1. /\ IsTable(f) /\ f \in DOMAIN db /\ ~db[f].view
        /\ refused' = "no" /\ length' = length + 1 /\ length < MaxStatements
        /\ dialect' = dialect /\ UNCHANGED <<enums, relabelled>>
        /\ tables' = [tables EXCEPT ![key] = code]
        /\ db' = [db EXCEPT ![f] = relation]
        /\ doubted' = doubted \cup gap \cup
             (IF Misread(key, n) THEN {f, Full(key)} ELSE {})
    BY DEF Alter, IsTable, Running, Read
  <1>2. /\ DOMAIN tables' = DOMAIN tables /\ tables'[key] = code
        /\ \A k \in DOMAIN tables \ {key} : tables'[k] = tables[k]
    BY <1>1
  <1>3. /\ DOMAIN db' = DOMAIN db /\ db'[f] = relation
        /\ \A g \in DOMAIN db \ {f} : db'[g] = db[g]
    BY <1>1
  <1>4. db[f] \in TableRecord
    BY <1>1, RelationFacts DEF LookupInv
  <1>5. relation \in TableRecord /\ relation.columns = sql /\ ~relation.view
        /\ relation.spelling = db[f].spelling
    BY <1>0, <1>4 DEF TableRecord
  <1> HIDE DEF relation
  <1>6. ScriptOK'
    <2>1. f \in Names /\ Full(key) \in Names
      BY FullIsName DEF LookupInv, TablesOK
    <2>2. doubted' \subseteq Names
      BY <1>0, <1>1, <2>1 DEF LookupInv, ScriptOK
    <2>3. length' \in 0..MaxStatements
      BY <1>1, CatalogBounds DEF LookupInv, ScriptOK
    <2> QED
      BY <1>1, <2>2, <2>3 DEF LookupInv, ScriptOK, EnumKeys, Spellings, Flat
  <1>7. TablesOK'
    BY <1>0, <1>2 DEF LookupInv, TablesOK
  <1>8. RelationsOK'
    BY <1>3, <1>5 DEF LookupInv, RelationsOK
  <1>9. ViewsOK'
    <2> SUFFICES ASSUME NEW v \in DOMAIN db', db'[v].view
                 PROVE  /\ db'[v].of \in DOMAIN db' /\ ~db'[db'[v].of].view
                        /\ DOMAIN db'[v].names \subseteq DOMAIN db'[db'[v].of].columns
      BY DEF ViewsOK, IsTable
    <2>1. v \in DOMAIN db \ {f} /\ db'[v] = db[v]
      BY <1>3, <1>5
    <2>2. db[v].of \in DOMAIN db /\ ~db[db[v].of].view
          /\ DOMAIN db[v].names \subseteq DOMAIN db[db[v].of].columns
      BY <2>1 DEF LookupInv, ViewsOK, IsTable
    <2>3. CASE db[v].of = f
      <3>1. v \in ViewsOf(f)
        BY <2>1, <2>3 DEF ViewsOf
      <3>2. DOMAIN db[v].names \subseteq DOMAIN sql
        BY <1>v, <3>1
      <3> QED
        BY <1>3, <1>5, <2>1, <2>2, <2>3, <3>2
    <2>4. CASE db[v].of # f
      BY <1>3, <2>1, <2>2, <2>4
    <2> QED
      BY <2>3, <2>4
  <1>10. EnumsOK'
    <2> SUFFICES ASSUME NEW k \in DOMAIN tables, NEW i \in DOMAIN tables'[k]
                 PROVE  tables'[k][i].enum \in DOMAIN enums \cup {NoEnum}
      BY <1>1, <1>2 DEF EnumsOK, NoEnum
    <2>1. CASE k = key
      BY <1>e, <1>2, <2>1 DEF LookupInv, EnumsOK
    <2>2. CASE k # key
      BY <1>2, <2>2 DEF LookupInv, EnumsOK
    <2> QED
      BY <2>1, <2>2
  \* The key whose columns change is that of the table, or both are doubted.
  <1>11. ASSUME NEW k \in DOMAIN tables, Full(k) \in DOMAIN db, Full(k) \notin doubted'
         PROVE  /\ Full(k) \notin doubted /\ Full(k) \notin gap
                /\ k = key => Full(k) = f
                /\ k # key => Full(k) # f
    <2>1. Full(k) \notin doubted /\ Full(k) \notin gap
      BY <1>1, <1>11
    <2>2. k = key => Full(k) = f
      BY <1>1, <1>11 DEF Misread
    <2>3. ASSUME Full(k) = f PROVE k = key
      <3>1. Full(key) = f
        BY <1>1, <1>11, <2>3 DEF Misread
      <3> QED
        BY <2>1, <2>3, <3>1, <1>1 DEF LookupInv, ColumnsOK
    <2> QED
      BY <2>1, <2>2, <2>3
  <1>12. ColumnsOK'
    <2> SUFFICES ASSUME NEW k \in DOMAIN tables, Full(k) \in DOMAIN db, Full(k) \notin doubted'
                 PROVE  db'[Full(k)].spelling = k /\ Agree(tables'[k], ColumnsOf(Full(k))')
      BY <1>2, <1>3 DEF ColumnsOK, Agree, Full
    <2>1. CASE k = key
      <3>1. Full(k) = f /\ f \notin doubted /\ f \notin gap
        BY <1>11, <2>1
      <3>2. db[f].spelling = k /\ Agree(tables[k], db[f].columns)
        BY <1>1, <2>1, <3>1, TableColumns DEF LookupInv, ColumnsOK
      <3>3. Agree(code, sql)
        BY <1>0, <2>1, <3>1, <3>2
      <3>4. ColumnsOf(Full(k))' = sql
        BY <1>3, <1>5, <3>1 DEF ColumnsOf, Full
      <3> QED
        BY <1>2, <1>3, <1>5, <2>1, <3>1, <3>2, <3>3, <3>4
    <2>2. CASE k # key /\ ~(db[Full(k)].view /\ db[Full(k)].of = f)
      <3>1. Full(k) \notin doubted /\ db'[Full(k)] = db[Full(k)] /\ tables'[k] = tables[k]
        BY <1>2, <1>3, <1>11, <2>2
      <3>2. db[Full(k)].view => db'[db[Full(k)].of] = db[db[Full(k)].of]
        BY <1>3, <2>2 DEF LookupInv, ViewsOK, IsTable
      <3> QED
        BY <3>1, <3>2, CarriedColumns DEF LookupInv
    <2>3. CASE k # key /\ db[Full(k)].view /\ db[Full(k)].of = f
      <3> DEFINE v == Full(k)
      <3>1. v \in ViewsOf(f) /\ v \notin gap /\ v \notin doubted /\ v # f
            /\ db'[v] = db[v] /\ tables'[k] = tables[k]
        BY <1>2, <1>3, <1>11, <2>3 DEF ViewsOf
      <3>2. db[v].spelling = k /\ Agree(tables[k], ColumnsOf(v))
        BY <3>1 DEF LookupInv, ColumnsOK
      <3>3. /\ DOMAIN ColumnsOf(v) = DOMAIN db[v].names
            /\ \A i \in DOMAIN db[v].names :
                 /\ ColumnsOf(v)[i].name = db[v].names[i]
                 /\ ColumnsOf(v)[i].nullable = db[f].columns[i].nullable
        BY <2>3, ViewColumns DEF LookupInv
      <3>4. /\ DOMAIN ColumnsOf(v)' = DOMAIN db[v].names
            /\ \A i \in DOMAIN db[v].names :
                 /\ ColumnsOf(v)'[i].name = db[v].names[i]
                 /\ ColumnsOf(v)'[i].nullable = sql[i].nullable
        <4>1. ColumnsOf(v)' = [i \in DOMAIN db[v].names |-> [sql[i] EXCEPT !.name = db[v].names[i]]]
          BY <1>3, <1>5, <2>3, <3>1 DEF ColumnsOf, Full
        <4>2. ASSUME NEW i \in DOMAIN db[v].names
              PROVE  /\ [sql[i] EXCEPT !.name = db[v].names[i]].name = db[v].names[i]
                     /\ [sql[i] EXCEPT !.name = db[v].names[i]].nullable = sql[i].nullable
          <5>1. i \in DOMAIN sql
            BY <1>v, <3>1
          <5>2. sql[i] \in SqlColumn
            BY <1>0, <5>1, SeqFacts
          <5> QED
            BY <5>2 DEF SqlColumn
        <4> QED
          BY <4>1, <4>2
      <3>5. \A i \in DOMAIN db[v].names : sql[i].nullable => db[f].columns[i].nullable
        BY <1>v, <3>1
      <3>6. Agree(tables[k], ColumnsOf(v)')
        BY <3>2, <3>3, <3>4, <3>5 DEF Agree
      <3> QED
        BY <3>1, <3>2, <3>6
    <2> QED
      BY <2>1, <2>2, <2>3
  <1>13. LabelsOK'
    <2> SUFFICES ASSUME NEW k \in DOMAIN tables, Full(k) \in DOMAIN db, ~db'[Full(k)].view,
                        Full(k) \notin doubted'
                 PROVE  Labelled(tables[k], db[Full(k)].columns)'
      BY <1>2, <1>3 DEF LabelsOK, IsTable, Labelled
    <2>1. CASE k = key
      <3>1. Full(k) = f /\ f \notin doubted /\ f \notin gap
        BY <1>11, <2>1
      <3>2. Agree(tables[k], db[f].columns) /\ Labelled(tables[k], db[f].columns)
        BY <1>1, <2>1, <3>1, TableColumns DEF LookupInv, ColumnsOK, LabelsOK
      <3>3. Labelled(code, sql)
        BY <1>0, <2>1, <3>1, <3>2
      <3> QED
        BY <1>1, <1>2, <1>3, <1>5, <2>1, <3>1, <3>3 DEF Labelled
    <2>2. CASE k # key
      <3>1. Full(k) \notin doubted /\ db'[Full(k)] = db[Full(k)] /\ tables'[k] = tables[k]
        BY <1>2, <1>3, <1>11, <2>2
      <3> QED
        BY <1>1, <3>1, CarriedLabels DEF LookupInv
    <2> QED
      BY <2>1, <2>2
  <1> QED
    BY <1>6, <1>7, <1>8, <1>9, <1>10, <1>12, <1>13 DEF LookupInv

LEMMA ColumnwiseSeq ==
  ASSUME NEW S, NEW columns \in Seq(S), NEW set, set = [i \in DOMAIN columns |-> set[i]],
         \A i \in DOMAIN columns : set[i] \in S
  PROVE  set \in Seq(S) /\ DOMAIN set = DOMAIN columns
  <1> DEFINE c == Len(columns)
  <1>1. c \in Nat /\ DOMAIN columns = 1..c
    BY SeqFacts
  <1> HIDE DEF c
  <1> QED
    BY <1>1

LEMMA NullableSetCode ==
  ASSUME NEW columns \in Seq(CodeColumn), NEW name, NEW nullable \in BOOLEAN
  PROVE  /\ NullableSet(columns, name, nullable) \in Seq(CodeColumn)
         /\ DOMAIN NullableSet(columns, name, nullable) = DOMAIN columns
         /\ \A i \in DOMAIN columns :
              LET c == NullableSet(columns, name, nullable)[i]
              IN /\ c.name = columns[i].name /\ c.enum = columns[i].enum
                 /\ c.nullable = IF columns[i].name = name THEN nullable ELSE columns[i].nullable
  <1> DEFINE set == NullableSet(columns, name, nullable)
  <1>1. ASSUME NEW i \in DOMAIN columns
        PROVE  /\ set[i] \in CodeColumn
               /\ set[i].name = columns[i].name /\ set[i].enum = columns[i].enum
               /\ set[i].nullable = IF columns[i].name = name THEN nullable ELSE columns[i].nullable
    <2>1. set[i] = IF columns[i].name = name THEN [columns[i] EXCEPT !.nullable = nullable]
                   ELSE columns[i]
      BY DEF NullableSet
    <2>2. columns[i] \in CodeColumn
      BY SeqFacts
    <2> HIDE DEF set
    <2> QED
      BY <2>1, <2>2 DEF CodeColumn
  <1>2. set = [i \in DOMAIN columns |-> set[i]]
    BY DEF NullableSet
  <1> HIDE DEF set
  <1>3. set \in Seq(CodeColumn) /\ DOMAIN set = DOMAIN columns
    BY <1>1, <1>2, ColumnwiseSeq
  <1> QED
    BY <1>1, <1>3 DEF set

LEMMA NullableSetSql ==
  ASSUME NEW columns \in Seq(SqlColumn), NEW name, NEW nullable \in BOOLEAN
  PROVE  /\ NullableSet(columns, name, nullable) \in Seq(SqlColumn)
         /\ DOMAIN NullableSet(columns, name, nullable) = DOMAIN columns
         /\ \A i \in DOMAIN columns :
              LET c == NullableSet(columns, name, nullable)[i]
              IN /\ c.name = columns[i].name /\ c.labels = columns[i].labels
                 /\ c.nullable = IF columns[i].name = name THEN nullable ELSE columns[i].nullable
  <1> DEFINE set == NullableSet(columns, name, nullable)
  <1>1. ASSUME NEW i \in DOMAIN columns
        PROVE  /\ set[i] \in SqlColumn
               /\ set[i].name = columns[i].name /\ set[i].labels = columns[i].labels
               /\ set[i].nullable = IF columns[i].name = name THEN nullable ELSE columns[i].nullable
    <2>1. set[i] = IF columns[i].name = name THEN [columns[i] EXCEPT !.nullable = nullable]
                   ELSE columns[i]
      BY DEF NullableSet
    <2>2. columns[i] \in SqlColumn
      BY SeqFacts
    <2> HIDE DEF set
    <2> QED
      BY <2>1, <2>2 DEF SqlColumn
  <1>2. set = [i \in DOMAIN columns |-> set[i]]
    BY DEF NullableSet
  <1> HIDE DEF set
  <1>3. set \in Seq(SqlColumn) /\ DOMAIN set = DOMAIN columns
    BY <1>1, <1>2, ColumnwiseSeq
  <1> QED
    BY <1>1, <1>3 DEF set

LEMMA RenamedCode ==
  ASSUME NEW columns \in Seq(CodeColumn), NEW old, NEW new \in ColumnNames
  PROVE  /\ Renamed(columns, old, new) \in Seq(CodeColumn)
         /\ DOMAIN Renamed(columns, old, new) = DOMAIN columns
         /\ \A i \in DOMAIN columns :
              LET c == Renamed(columns, old, new)[i]
              IN /\ c.nullable = columns[i].nullable /\ c.enum = columns[i].enum
                 /\ c.name = IF columns[i].name = old THEN new ELSE columns[i].name
  <1> DEFINE set == Renamed(columns, old, new)
  <1>1. ASSUME NEW i \in DOMAIN columns
        PROVE  /\ set[i] \in CodeColumn
               /\ set[i].nullable = columns[i].nullable /\ set[i].enum = columns[i].enum
               /\ set[i].name = IF columns[i].name = old THEN new ELSE columns[i].name
    <2>1. set[i] = IF columns[i].name = old THEN [columns[i] EXCEPT !.name = new]
                   ELSE columns[i]
      BY DEF Renamed
    <2>2. columns[i] \in CodeColumn
      BY SeqFacts
    <2> HIDE DEF set
    <2> QED
      BY <2>1, <2>2 DEF CodeColumn
  <1>2. set = [i \in DOMAIN columns |-> set[i]]
    BY DEF Renamed
  <1> HIDE DEF set
  <1>3. set \in Seq(CodeColumn) /\ DOMAIN set = DOMAIN columns
    BY <1>1, <1>2, ColumnwiseSeq
  <1> QED
    BY <1>1, <1>3 DEF set

LEMMA RenamedSql ==
  ASSUME NEW columns \in Seq(SqlColumn), NEW old, NEW new \in ColumnNames
  PROVE  /\ Renamed(columns, old, new) \in Seq(SqlColumn)
         /\ DOMAIN Renamed(columns, old, new) = DOMAIN columns
         /\ \A i \in DOMAIN columns :
              LET c == Renamed(columns, old, new)[i]
              IN /\ c.nullable = columns[i].nullable /\ c.labels = columns[i].labels
                 /\ c.name = IF columns[i].name = old THEN new ELSE columns[i].name
  <1> DEFINE set == Renamed(columns, old, new)
  <1>1. ASSUME NEW i \in DOMAIN columns
        PROVE  /\ set[i] \in SqlColumn
               /\ set[i].nullable = columns[i].nullable /\ set[i].labels = columns[i].labels
               /\ set[i].name = IF columns[i].name = old THEN new ELSE columns[i].name
    <2>1. set[i] = IF columns[i].name = old THEN [columns[i] EXCEPT !.name = new]
                   ELSE columns[i]
      BY DEF Renamed
    <2>2. columns[i] \in SqlColumn
      BY SeqFacts
    <2> HIDE DEF set
    <2> QED
      BY <2>1, <2>2 DEF SqlColumn
  <1>2. set = [i \in DOMAIN columns |-> set[i]]
    BY DEF Renamed
  <1> HIDE DEF set
  <1>3. set \in Seq(SqlColumn) /\ DOMAIN set = DOMAIN columns
    BY <1>1, <1>2, ColumnwiseSeq
  <1> QED
    BY <1>1, <1>3 DEF set

\* What the statements of ALTER TABLE start from.
LEMMA AlterStart ==
  ASSUME LookupInv, NEW n \in Spellings, IsTable(Full(n)), NEW key \in Keys(tables, n)
  PROVE  /\ key \in DOMAIN tables /\ tables[key] \in Seq(CodeColumn)
         /\ ColumnsOf(Full(n)) = db[Full(n)].columns
         /\ db[Full(n)].columns \in Seq(SqlColumn)
         /\ \A v \in ViewsOf(Full(n)) : \A i \in DOMAIN db[v].names :
              i \in DOMAIN db[Full(n)].columns
         /\ ViewsOf(Full(n)) \subseteq Names
  <1>1. key \in DOMAIN tables /\ tables[key] \in Seq(CodeColumn)
    BY KeysAreKeys DEF LookupInv, TablesOK
  <1>2. db[Full(n)].columns \in Seq(SqlColumn)
    BY RelationFacts DEF IsTable, LookupInv
  <1>3. \A v \in ViewsOf(Full(n)) : \A i \in DOMAIN db[v].names :
          i \in DOMAIN db[Full(n)].columns
    BY DEF LookupInv, ViewsOK, ViewsOf
  <1> QED
    BY <1>1, <1>2, <1>3, TableColumns DEF ViewsOf, LookupInv, RelationsOK

LEMMA AlterNullableLookup ==
  ASSUME LookupInv, NEW n \in Spellings, NEW column \in ColumnNames, NEW nullable \in BOOLEAN,
         AlterNullable(n, column, nullable)
  PROVE  LookupInv'
  <1> DEFINE f == Full(n)
             cols == db[f].columns
             gap == IF nullable THEN ViewsOf(f) ELSE {}
  <1>1. IsTable(f)
    BY DEF AlterNullable
  <1>2. PICK key \in Keys(tables, n) :
          Alter(n, key, NullableSet(tables[key], column, nullable),
                NullableSet(ColumnsOf(f), column, nullable), gap)
    BY DEF AlterNullable
  <1>3. /\ key \in DOMAIN tables /\ tables[key] \in Seq(CodeColumn)
        /\ ColumnsOf(f) = cols /\ cols \in Seq(SqlColumn)
        /\ \A v \in ViewsOf(f) : \A i \in DOMAIN db[v].names : i \in DOMAIN cols
        /\ gap \subseteq Names
    BY <1>1, AlterStart
  <1> DEFINE code == NullableSet(tables[key], column, nullable)
             sql == NullableSet(cols, column, nullable)
  <1>4. /\ code \in Seq(CodeColumn) /\ DOMAIN code = DOMAIN tables[key]
        /\ \A i \in DOMAIN tables[key] :
             /\ code[i].name = tables[key][i].name /\ code[i].enum = tables[key][i].enum
             /\ code[i].nullable = IF tables[key][i].name = column THEN nullable
                                   ELSE tables[key][i].nullable
    BY <1>3, NullableSetCode
  <1>5. /\ sql \in Seq(SqlColumn) /\ DOMAIN sql = DOMAIN cols
        /\ \A i \in DOMAIN cols :
             /\ sql[i].name = cols[i].name /\ sql[i].labels = cols[i].labels
             /\ sql[i].nullable = IF cols[i].name = column THEN nullable ELSE cols[i].nullable
    BY <1>3, NullableSetSql
  <1>6. Alter(n, key, code, sql, gap)
    BY <1>2, <1>3
  <1> HIDE DEF code, sql
  <1>7. Agree(tables[key], cols) => Agree(code, sql)
    BY <1>4, <1>5 DEF Agree
  <1>8. Agree(tables[key], cols) /\ Labelled(tables[key], cols) => Labelled(code, sql)
    BY <1>4, <1>5 DEF Agree, Labelled
  <1>9. \A v \in ViewsOf(f) : \A i \in DOMAIN db[v].names :
          /\ i \in DOMAIN sql
          /\ v \notin gap /\ sql[i].nullable => cols[i].nullable
    BY <1>3, <1>5
  <1>10. \A i \in DOMAIN code : \E j \in DOMAIN tables[key] : code[i].enum = tables[key][j].enum
    BY <1>4
  <1>p. Preserves(n, key, code, sql, gap)
    BY <1>3, <1>4, <1>5, <1>6, <1>7, <1>8, <1>9, <1>10 DEF Preserves
  <1> QED
    BY <1>3, <1>6, <1>p, AlterLookup

LEMMA AddColumnLookup ==
  ASSUME LookupInv, NEW n \in Spellings, NEW column \in ColumnNames,
         NEW nullable \in BOOLEAN, NEW ifNotExists \in BOOLEAN,
         AddColumn(n, column, nullable, ifNotExists)
  PROVE  LookupInv'
  <1> DEFINE f == Full(n)
             cols == db[f].columns
             present == HasColumn(ColumnsOf(f), column)
             gap == IF present THEN {f} ELSE {}
             sql == IF present THEN cols ELSE Append(cols, Stored(column, nullable, "none"))
  <1>1. IsTable(f)
    BY DEF AddColumn
  <1>2. PICK key \in Keys(tables, n) :
          Alter(n, key, Append(tables[key], Recorded(column, nullable, NoEnum)),
                IF present THEN ColumnsOf(f)
                ELSE Append(ColumnsOf(f), Stored(column, nullable, "none")), gap)
    BY DEF AddColumn
  <1>3. /\ key \in DOMAIN tables /\ tables[key] \in Seq(CodeColumn)
        /\ ColumnsOf(f) = cols /\ cols \in Seq(SqlColumn)
        /\ \A v \in ViewsOf(f) : \A i \in DOMAIN db[v].names : i \in DOMAIN cols
    BY <1>1, AlterStart
  <1> DEFINE code == Append(tables[key], Recorded(column, nullable, NoEnum))
  <1>4. gap \subseteq Names
    BY FullIsName
  <1>5. Recorded(column, nullable, NoEnum) \in CodeColumn
        /\ Stored(column, nullable, "none") \in SqlColumn
    BY DEF Recorded, Stored, CodeColumn, SqlColumn
  <1>6. Alter(n, key, code, sql, gap)
    BY <1>2, <1>3
  <1>7. /\ code \in Seq(CodeColumn) /\ Len(code) = Len(tables[key]) + 1
        /\ \A i \in DOMAIN tables[key] : code[i] = tables[key][i]
        /\ code[Len(tables[key]) + 1] = Recorded(column, nullable, NoEnum)
    BY <1>3, <1>5
  <1>8. /\ sql \in Seq(SqlColumn)
        /\ \A i \in DOMAIN cols : i \in DOMAIN sql /\ sql[i] = cols[i]
        /\ ~present => /\ Len(sql) = Len(cols) + 1
                       /\ sql[Len(cols) + 1] = Stored(column, nullable, "none")
    BY <1>3, <1>5
  <1>9. /\ DOMAIN code = 1..(Len(tables[key]) + 1) /\ DOMAIN tables[key] = 1..Len(tables[key])
        /\ Len(tables[key]) \in Nat
    BY <1>3, <1>7, SeqFacts
  <1>10. ~present => DOMAIN sql = 1..(Len(cols) + 1)
    BY <1>8, SeqFacts
  <1>11. DOMAIN cols = 1..Len(cols) /\ Len(cols) \in Nat
    BY <1>3, SeqFacts
  <1> HIDE DEF code, sql, present
  <1>12. DOMAIN tables[key] = DOMAIN cols => Len(tables[key]) = Len(cols)
    BY <1>9, <1>11
  <1>13. f \notin gap /\ Agree(tables[key], cols) => Agree(code, sql)
    <2> SUFFICES ASSUME ~present, Agree(tables[key], cols) PROVE Agree(code, sql)
      OBVIOUS
    <2>1. Len(tables[key]) = Len(cols)
      BY <1>12 DEF Agree
    <2>2. DOMAIN code = DOMAIN sql
      BY <1>9, <1>10, <2>1
    <2>3. ASSUME NEW i \in DOMAIN code
          PROVE  code[i].name = sql[i].name /\ (sql[i].nullable => code[i].nullable)
      <3>1. CASE i \in DOMAIN tables[key]
        BY <1>7, <1>8, <3>1 DEF Agree
      <3>2. CASE i = Len(tables[key]) + 1
        BY <1>7, <1>8, <2>1, <3>2 DEF Recorded, Stored
      <3> QED
        BY <1>9, <3>1, <3>2
    <2> QED
      BY <2>2, <2>3 DEF Agree
  <1>14. /\ f \notin gap /\ Agree(tables[key], cols) /\ Labelled(tables[key], cols)
            => Labelled(code, sql)
         /\ \A i \in DOMAIN code : code[i].enum = NoEnum
              \/ \E j \in DOMAIN tables[key] : code[i].enum = tables[key][j].enum
    <2>1. ASSUME NEW i \in DOMAIN code
          PROVE  \/ i \in DOMAIN tables[key] /\ code[i] = tables[key][i]
                 \/ code[i].enum = NoEnum
      <3>1. CASE i \in DOMAIN tables[key]
        BY <1>7, <3>1
      <3>2. CASE i = Len(tables[key]) + 1
        BY <1>7, <3>2 DEF Recorded
      <3> QED
        BY <1>9, <3>1, <3>2
    <2> QED
      BY <1>8, <2>1 DEF Agree, Labelled
  <1>15. \A v \in ViewsOf(f) : \A i \in DOMAIN db[v].names :
           /\ i \in DOMAIN sql
           /\ v \notin gap /\ sql[i].nullable => cols[i].nullable
    BY <1>3, <1>8
  <1>p. Preserves(n, key, code, sql, gap)
    BY <1>3, <1>4, <1>6, <1>7, <1>8, <1>13, <1>14, <1>15 DEF Preserves
  <1> QED
    BY <1>3, <1>6, <1>p, AlterLookup

LEMMA DropColumnLookup ==
  ASSUME LookupInv, NEW n \in Spellings, NEW column \in ColumnNames, DropColumn(n, column)
  PROVE  LookupInv'
  <1> DEFINE f == Full(n)
             cols == db[f].columns
             gap == {}
  <1>1. IsTable(f) /\ ViewsOf(f) = {}
    BY DEF DropColumn
  <1>2. PICK key \in Keys(tables, n) :
          Alter(n, key, Retained(tables[key], column), Retained(ColumnsOf(f), column), gap)
    BY DEF DropColumn
  <1>3. /\ key \in DOMAIN tables /\ tables[key] \in Seq(CodeColumn)
        /\ ColumnsOf(f) = cols /\ cols \in Seq(SqlColumn)
    BY <1>1, AlterStart
  <1> DEFINE code == Retained(tables[key], column)
             sql == Retained(cols, column)
             kept == KeptOf(tables[key], column)
  <1>4. /\ code \in Seq(CodeColumn) /\ DOMAIN code = 1..Cardinality(kept)
        /\ \A j \in 1..Cardinality(kept) :
             Nth(kept, j) \in DOMAIN tables[key] /\ code[j] = tables[key][Nth(kept, j)]
    BY <1>3, RetainedFacts
  <1>5. /\ sql \in Seq(SqlColumn)
        /\ KeptOf(cols, column) = kept =>
             /\ DOMAIN sql = 1..Cardinality(kept)
             /\ \A j \in 1..Cardinality(kept) :
                  Nth(kept, j) \in DOMAIN cols /\ sql[j] = cols[Nth(kept, j)]
    BY <1>3, RetainedFacts
  <1>6. Alter(n, key, code, sql, gap) /\ gap \subseteq Names
    BY <1>2, <1>3
  <1>7. Agree(tables[key], cols) => KeptOf(cols, column) = kept
    BY DEF Agree, KeptOf
  <1> HIDE DEF code, sql, kept
  <1>8. Agree(tables[key], cols) => Agree(code, sql)
    BY <1>4, <1>5, <1>7 DEF Agree
  <1>9. Agree(tables[key], cols) /\ Labelled(tables[key], cols) => Labelled(code, sql)
    BY <1>4, <1>5, <1>7 DEF Labelled
  <1>10. \A i \in DOMAIN code : \E j \in DOMAIN tables[key] : code[i].enum = tables[key][j].enum
    BY <1>4
  <1>p. Preserves(n, key, code, sql, gap)
    BY <1>1, <1>3, <1>4, <1>5, <1>6, <1>8, <1>9, <1>10 DEF Preserves
  <1> QED
    BY <1>3, <1>6, <1>p, AlterLookup

LEMMA RenameColumnLookup ==
  ASSUME LookupInv, NEW n \in Spellings, NEW old \in ColumnNames, NEW new \in ColumnNames,
         RenameColumn(n, old, new)
  PROVE  LookupInv'
  <1> DEFINE f == Full(n)
             cols == db[f].columns
             gap == {}
  <1>1. IsTable(f)
    BY DEF RenameColumn
  <1>2. PICK key \in Keys(tables, n) :
          Alter(n, key, Renamed(tables[key], old, new), Renamed(ColumnsOf(f), old, new), gap)
    BY DEF RenameColumn
  <1>3. /\ key \in DOMAIN tables /\ tables[key] \in Seq(CodeColumn)
        /\ ColumnsOf(f) = cols /\ cols \in Seq(SqlColumn)
        /\ \A v \in ViewsOf(f) : \A i \in DOMAIN db[v].names : i \in DOMAIN cols
    BY <1>1, AlterStart
  <1> DEFINE code == Renamed(tables[key], old, new)
             sql == Renamed(cols, old, new)
  <1>4. /\ code \in Seq(CodeColumn) /\ DOMAIN code = DOMAIN tables[key]
        /\ \A i \in DOMAIN tables[key] :
             /\ code[i].nullable = tables[key][i].nullable
             /\ code[i].enum = tables[key][i].enum
             /\ code[i].name = IF tables[key][i].name = old THEN new ELSE tables[key][i].name
    BY <1>3, RenamedCode
  <1>5. /\ sql \in Seq(SqlColumn) /\ DOMAIN sql = DOMAIN cols
        /\ \A i \in DOMAIN cols :
             /\ sql[i].nullable = cols[i].nullable /\ sql[i].labels = cols[i].labels
             /\ sql[i].name = IF cols[i].name = old THEN new ELSE cols[i].name
    BY <1>3, RenamedSql
  <1>6. Alter(n, key, code, sql, gap) /\ gap \subseteq Names
    BY <1>2, <1>3
  <1> HIDE DEF code, sql
  <1>7. Agree(tables[key], cols) => Agree(code, sql)
    BY <1>4, <1>5 DEF Agree
  <1>8. Agree(tables[key], cols) /\ Labelled(tables[key], cols) => Labelled(code, sql)
    BY <1>4, <1>5 DEF Agree, Labelled
  <1>9. \A v \in ViewsOf(f) : \A i \in DOMAIN db[v].names :
          i \in DOMAIN sql /\ (sql[i].nullable => cols[i].nullable)
    BY <1>3, <1>5
  <1>10. \A i \in DOMAIN code : \E j \in DOMAIN tables[key] : code[i].enum = tables[key][j].enum
    BY <1>4
  <1>p. Preserves(n, key, code, sql, gap)
    BY <1>3, <1>4, <1>5, <1>6, <1>7, <1>8, <1>9, <1>10 DEF Preserves
  <1> QED
    BY <1>3, <1>6, <1>p, AlterLookup

LEMMA ScriptRead ==
  ASSUME ScriptOK, Running, Read, doubted' \subseteq Names,
         relabelled' \subseteq EnumKeys
  PROVE  ScriptOK'
  <1>1. length' \in 0..MaxStatements
    BY CatalogBounds DEF ScriptOK, Running, Read
  <1> QED
    BY <1>1 DEF ScriptOK, Read, EnumKeys, Spellings, Flat

LEMMA WithFacts ==
  ASSUME NEW r, NEW k, NEW v
  PROVE  /\ DOMAIN With(r, k, v) = DOMAIN r \cup {k} /\ With(r, k, v)[k] = v
         /\ \A x \in DOMAIN r \ {k} : With(r, k, v)[x] = r[x]
  BY DEF With

LEMMA WithoutFacts ==
  ASSUME NEW r, NEW k
  PROVE  /\ DOMAIN Without(r, k) = DOMAIN r \ {k}
         /\ \A x \in DOMAIN r \ {k} : Without(r, k)[x] = r[x]
  BY DEF Without

LEMMA RefuseLookup ==
  ASSUME LookupInv, Running, NEW n \in Spellings, Refuse(n)
  PROVE  LookupInv'
  <1>1. /\ UNCHANGED <<dialect, tables, enums, db, doubted, relabelled>>
        /\ length' = length + 1
    BY DEF Refuse
  <1>2. refused' \in {"no", "respelled", "doubted", "plain"}
    <2>1. refused' = CASE db[Full(n)].spelling # n -> "respelled"
                       [] Full(n) \in doubted      -> "doubted"
                       [] OTHER                    -> "plain"
      BY DEF Refuse
    <2> QED
      BY <2>1
  <1>3. length' \in 0..MaxStatements
    BY <1>1, CatalogBounds DEF LookupInv, ScriptOK, Running
  <1>4. ScriptOK'
    BY <1>1, <1>2, <1>3 DEF LookupInv, ScriptOK, EnumKeys, Spellings, Flat
  <1>5. TablesOK' /\ RelationsOK' /\ ViewsOK' /\ EnumsOK'
    BY <1>1 DEF LookupInv, TablesOK, RelationsOK, ViewsOK, EnumsOK, IsTable, NoEnum
  <1>6. ColumnsOK' /\ LabelsOK'
    BY <1>1 DEF LookupInv, ColumnsOK, LabelsOK, Labelled, ColumnsOf, IsTable, NoEnum
  <1> QED
    BY <1>4, <1>5, <1>6 DEF LookupInv

\* A relation f comes to be, under the key n unless the code keeps what it has
\* there.
LEMMA CreatedLookup ==
  ASSUME LookupInv, ScriptOK', NEW n \in Spellings, NEW f, f = Full(n), f \notin DOMAIN db,
         NEW relation \in TableRecord \cup ViewRecord, relation.spelling = n,
         db' = With(db, f, relation),
         relation.view => /\ IsTable(relation.of)
                          /\ DOMAIN relation.names \subseteq DOMAIN db[relation.of].columns,
         NEW columns \in Seq(CodeColumn),
         \/ tables' = With(tables, n, columns)
         \/ tables' = tables /\ f \in doubted',
         doubted \subseteq doubted' \cup {f},
         Shadowed(n, f) => f \in doubted',
         f \notin doubted' => Agree(columns, ColumnsOf(f)'),
         DOMAIN enums \subseteq DOMAIN enums',
         \A i \in DOMAIN columns : columns[i].enum \in DOMAIN enums' \cup {NoEnum},
         \A k \in DOMAIN tables \ {n} : \A i \in DOMAIN tables[k] :
           tables[k][i].enum # NoEnum /\ tables[k][i].enum \notin relabelled' =>
             /\ tables[k][i].enum \notin relabelled
             /\ enums'[tables[k][i].enum] = enums[tables[k][i].enum],
         ~relation.view => \A i \in DOMAIN columns :
           columns[i].enum # NoEnum => enums'[columns[i].enum] = relation.columns[i].labels
  PROVE  LookupInv'
  <1>1. /\ DOMAIN db' = DOMAIN db \cup {f} /\ db'[f] = relation
        /\ \A g \in DOMAIN db : db'[g] = db[g]
    BY DEF With
  <1>2. /\ DOMAIN tables' \subseteq DOMAIN tables \cup {n}
        /\ DOMAIN tables' \in {DOMAIN tables, DOMAIN tables \cup {n}}
        /\ \A k \in DOMAIN tables' \ {n} : k \in DOMAIN tables /\ tables'[k] = tables[k]
        /\ n \in DOMAIN tables' =>
             \/ tables'[n] = columns
             \/ n \in DOMAIN tables /\ tables'[n] = tables[n] /\ f \in doubted'
    <2>1. CASE tables' = With(tables, n, columns)
      BY <2>1 DEF With
    <2>2. CASE tables' = tables /\ f \in doubted'
      BY <2>2
    <2> QED
      BY <2>1, <2>2
  <1>3. TablesOK'
    <2>1. IsFiniteSet(DOMAIN tables \cup {n})
      BY FS_AddElement DEF LookupInv, TablesOK
    <2> QED
      BY <1>2, <2>1 DEF LookupInv, TablesOK
  <1>4. RelationsOK'
    BY <1>1, FullIsName DEF LookupInv, RelationsOK
  <1>5. ViewsOK'
    <2> SUFFICES ASSUME NEW v \in DOMAIN db', db'[v].view
                 PROVE  /\ db'[v].of \in DOMAIN db' /\ ~db'[db'[v].of].view
                        /\ DOMAIN db'[v].names \subseteq DOMAIN db'[db'[v].of].columns
      BY DEF ViewsOK, IsTable
    <2>1. CASE v = f
      BY <1>1, <2>1 DEF IsTable
    <2>2. CASE v # f
      BY <1>1, <2>2 DEF LookupInv, ViewsOK, IsTable
    <2> QED
      BY <2>1, <2>2
  <1>6. EnumsOK'
    <2> SUFFICES ASSUME NEW k \in DOMAIN tables', NEW i \in DOMAIN tables'[k]
                 PROVE  tables'[k][i].enum \in DOMAIN enums' \cup {NoEnum}
      BY DEF EnumsOK, NoEnum
    <2>1. CASE k \in DOMAIN tables /\ tables'[k] = tables[k]
      BY <2>1 DEF LookupInv, EnumsOK
    <2>2. CASE tables'[k] = columns
      BY <2>2
    <2> QED
      BY <1>2, <2>1, <2>2
  \* Only the new key answers for the new relation.
  <1>7. ASSUME NEW k \in DOMAIN tables', Full(k) \in DOMAIN db', Full(k) \notin doubted'
        PROVE  /\ k = n => tables'[k] = columns
               /\ k # n => /\ Full(k) \in DOMAIN db \ doubted
                           /\ k \in DOMAIN tables /\ tables'[k] = tables[k]
    <2>1. k = n => tables'[k] = columns
      BY <1>2, <1>7
    <2>2. ASSUME k # n
          PROVE  /\ Full(k) \in DOMAIN db \ doubted
                 /\ k \in DOMAIN tables /\ tables'[k] = tables[k]
      <3>1. k \in DOMAIN tables /\ tables'[k] = tables[k]
        BY <1>2, <2>2
      <3>2. Full(k) # f
        BY <1>7, <2>2, <3>1 DEF Shadowed
      <3> QED
        BY <1>1, <1>7, <3>1, <3>2
    <2> QED
      BY <2>1, <2>2
  <1>8. ColumnsOK'
    <2> SUFFICES ASSUME NEW k \in DOMAIN tables', Full(k) \in DOMAIN db', Full(k) \notin doubted'
                 PROVE  db'[Full(k)].spelling = k /\ Agree(tables'[k], ColumnsOf(Full(k))')
      BY DEF ColumnsOK, Agree, Full
    <2>1. CASE k = n
      <3>1. Full(k) = f /\ ColumnsOf(Full(k))' = ColumnsOf(f)'
        BY <2>1 DEF ColumnsOf, Full
      <3> QED
        BY <1>1, <1>7, <2>1, <3>1
    <2>2. CASE k # n
      <3>1. /\ Full(k) \in DOMAIN db \ doubted
            /\ k \in DOMAIN tables /\ tables'[k] = tables[k]
            /\ db'[Full(k)] = db[Full(k)]
        BY <1>1, <1>7, <2>2
      <3>2. db[Full(k)].view => db'[db[Full(k)].of] = db[db[Full(k)].of]
        BY <1>1, <3>1 DEF LookupInv, ViewsOK, IsTable
      <3> QED
        BY <3>1, <3>2, CarriedColumns DEF LookupInv
    <2> QED
      BY <2>1, <2>2
  <1>9. LabelsOK'
    <2> SUFFICES ASSUME NEW k \in DOMAIN tables', Full(k) \in DOMAIN db', ~db'[Full(k)].view,
                        Full(k) \notin doubted', NEW i \in DOMAIN tables'[k],
                        tables'[k][i].enum # NoEnum, tables'[k][i].enum \notin relabelled'
                 PROVE  enums'[tables'[k][i].enum] = db'[Full(k)].columns[i].labels
      BY DEF LabelsOK, IsTable, Labelled, NoEnum
    <2>1. CASE k = n
      BY <1>1, <1>7, <2>1
    <2>2. CASE k # n
      <3>1. /\ Full(k) \in DOMAIN db \ doubted
            /\ k \in DOMAIN tables \ {n} /\ tables'[k] = tables[k]
            /\ db'[Full(k)] = db[Full(k)]
        BY <1>1, <1>7, <2>2
      <3>2. Labelled(tables[k], db[Full(k)].columns)
        BY <3>1 DEF LookupInv, LabelsOK, IsTable
      <3> QED
        BY <3>1, <3>2 DEF Labelled
    <2> QED
      BY <2>1, <2>2
  <1> QED
    BY <1>3, <1>4, <1>5, <1>6, <1>8, <1>9 DEF LookupInv

LEMMA PairFacts ==
  ASSUME NEW S, NEW a \in S, NEW b \in S
  PROVE  <<a, b>> \in Seq(S) /\ DOMAIN <<a, b>> = 1..2 /\ <<a, b>>[1] = a /\ <<a, b>>[2] = b
  OBVIOUS

LEMMA CreateTableLookup ==
  ASSUME LookupInv, NEW n \in Spellings, NEW nullable \in BOOLEAN, NEW labels \in Labels,
         NEW ifNotExists \in BOOLEAN, CreateTable(n, nullable, labels, ifNotExists)
  PROVE  LookupInv'
  <1> DEFINE f == Full(n)
             own == <<Flat(n), "status">>
             key == IF labels = "none" THEN NoEnum ELSE EnumKey(n, "status")
             code1 == Recorded("id", FALSE, NoEnum)
             code2 == Recorded("status", nullable, key)
             sql1 == Stored("id", FALSE, "none")
             sql2 == Stored("status", nullable, labels)
             columns == <<code1, code2>>
             stored == <<sql1, sql2>>
             relation == Table(n, stored)
  <1>1. /\ Running /\ Read
        /\ enums' = Registered(key, labels)
        /\ relabelled' = (relabelled \ {own}) \cup
             (IF f \in DOMAIN db \/ Shared(n) THEN {own} ELSE {})
        /\ tables' = IF Kept(n, ifNotExists) THEN tables ELSE With(tables, n, columns)
        /\ f \in DOMAIN db => ifNotExists
        /\ f \in DOMAIN db => db' = db
        /\ f \notin DOMAIN db => db' = With(db, f, relation)
        /\ f \in DOMAIN db =>
             doubted' = doubted \cup (IF n \in DOMAIN tables THEN {} ELSE {f})
        /\ f \notin DOMAIN db =>
             doubted' = (doubted \ {f}) \cup
               (IF Kept(n, ifNotExists) \/ Shadowed(n, f) THEN {f} ELSE {})
    BY DEF CreateTable
  <1>2. labels \in {"ab", "xy", "none"} /\ f \in Names
    BY FullIsName DEF Labels
  <1>3. own \in EnumKeys /\ own # NoEnum
    BY DEF EnumKeys, NoEnum
  <1>4. key \in {own, NoEnum} /\ (labels = "none" <=> key = NoEnum)
    BY <1>3 DEF EnumKey
  <1>5. /\ DOMAIN enums \subseteq DOMAIN enums'
        /\ key # NoEnum => key \in DOMAIN enums' /\ enums'[key] = labels
        /\ \A e \in DOMAIN enums \ {own} : enums'[e] = enums[e]
    <2>1. CASE key = NoEnum
      BY <1>1, <2>1 DEF Registered
    <2>2. CASE key # NoEnum
      BY <1>1, <1>4, <2>2 DEF Registered, With
    <2> QED
      BY <2>1, <2>2
  <1> HIDE DEF key
  <1>6. ScriptOK'
    <2>1. doubted' \subseteq Names
      BY <1>1, <1>2 DEF LookupInv, ScriptOK
    <2>2. relabelled' \subseteq EnumKeys
      BY <1>1, <1>3 DEF LookupInv, ScriptOK
    <2> QED
      BY <1>1, <2>1, <2>2, ScriptRead DEF LookupInv
  <1>7. /\ code1 \in CodeColumn /\ code2 \in CodeColumn /\ sql1 \in SqlColumn /\ sql2 \in SqlColumn
        /\ code1.name = sql1.name /\ code2.name = sql2.name
        /\ ~sql1.nullable /\ code2.nullable = sql2.nullable
        /\ code1.enum = NoEnum /\ code2.enum = key /\ sql2.labels = labels
    BY <1>2, <1>3, <1>4 DEF Recorded, Stored, CodeColumn, SqlColumn, ColumnNames
  <1> HIDE DEF code1, code2, sql1, sql2
  <1>8. /\ columns \in Seq(CodeColumn) /\ DOMAIN columns = 1..2
        /\ columns[1] = code1 /\ columns[2] = code2
    BY <1>7, PairFacts
  <1>9. /\ stored \in Seq(SqlColumn) /\ DOMAIN stored = 1..2
        /\ stored[1] = sql1 /\ stored[2] = sql2
    BY <1>7, PairFacts
  <1>10. /\ relation \in TableRecord /\ relation.spelling = n /\ ~relation.view
         /\ relation.columns = stored
    BY <1>9 DEF Table, TableRecord
  <1> HIDE DEF columns, stored, relation
  <1>11. \A i \in DOMAIN columns :
           /\ columns[i].enum \in {NoEnum, key}
           /\ columns[i].enum # NoEnum => enums'[columns[i].enum] = stored[i].labels
    <2>1. columns[1].enum = NoEnum /\ columns[2].enum = key /\ stored[2].labels = labels
      BY <1>7, <1>8, <1>9
    <2>2. \A i \in DOMAIN columns : i = 1 \/ i = 2
      BY <1>8
    <2> QED
      BY <1>5, <2>1, <2>2
  <1>12. Agree(columns, stored)
    <2>1. /\ columns[1].name = stored[1].name /\ ~stored[1].nullable
          /\ columns[2].name = stored[2].name /\ columns[2].nullable = stored[2].nullable
      BY <1>7, <1>8, <1>9
    <2>2. DOMAIN columns = DOMAIN stored /\ \A i \in DOMAIN columns : i = 1 \/ i = 2
      BY <1>8, <1>9
    <2> QED
      BY <2>1, <2>2 DEF Agree
  <1>13. CASE f \notin DOMAIN db
    <2>1. db' = With(db, f, relation)
      BY <1>1, <1>13
    <2>2. db'[f] = relation
      BY <2>1 DEF With
    <2>3. ColumnsOf(f)' = stored
      BY <1>10, <2>2 DEF ColumnsOf, Full
    <2>4. \/ tables' = With(tables, n, columns)
          \/ tables' = tables /\ f \in doubted'
      BY <1>1, <1>13
    <2>5. /\ doubted \subseteq doubted' \cup {f}
          /\ Shadowed(n, f) => f \in doubted'
      BY <1>1, <1>13
    <2>6. \A i \in DOMAIN columns : columns[i].enum \in DOMAIN enums' \cup {NoEnum}
      <3> SUFFICES ASSUME NEW i \in DOMAIN columns, columns[i].enum # NoEnum
                   PROVE  columns[i].enum \in DOMAIN enums'
        OBVIOUS
      <3>1. columns[i].enum = key
        BY <1>11
      <3> QED
        BY <1>5, <3>1
    <2>7. ASSUME NEW k \in DOMAIN tables \ {n}, NEW i \in DOMAIN tables[k],
                 tables[k][i].enum # NoEnum, tables[k][i].enum \notin relabelled'
          PROVE  /\ tables[k][i].enum \notin relabelled
                 /\ enums'[tables[k][i].enum] = enums[tables[k][i].enum]
      <3>1. tables[k][i].enum # own
        BY <1>1, <2>7 DEF Shared
      <3>2. tables[k][i].enum \in DOMAIN enums
        BY <2>7 DEF LookupInv, EnumsOK
      <3> QED
        BY <1>1, <1>5, <2>7, <3>1, <3>2
    <2> HIDE DEF own
    <2> QED
      BY <1>5, <1>6, <1>8, <1>10, <1>11, <1>12, <1>13, <2>1, <2>3, <2>4, <2>5, <2>6, <2>7,
         CreatedLookup
  <1>14. CASE f \in DOMAIN db
    <2>1. db' = db /\ doubted \subseteq doubted' /\ own \in relabelled'
          /\ \A e \in relabelled : e \in relabelled'
      BY <1>1, <1>14
    <2>2. \/ n \in DOMAIN tables /\ tables' = tables
          \/ n \notin DOMAIN tables /\ f \in doubted' /\ tables' = With(tables, n, columns)
      BY <1>1, <1>14 DEF Kept
    <2>3. /\ DOMAIN tables' = DOMAIN tables \cup {n}
          /\ \A k \in DOMAIN tables : tables'[k] = tables[k]
          /\ n \notin DOMAIN tables => tables'[n] = columns /\ f \in doubted'
      <3>1. CASE n \in DOMAIN tables
        BY <2>2, <3>1
      <3>2. CASE n \notin DOMAIN tables
        BY <2>2, <3>2 DEF With
      <3> QED
        BY <3>1, <3>2
    <2>4. TablesOK'
      <3>1. IsFiniteSet(DOMAIN tables \cup {n})
        BY FS_AddElement DEF LookupInv, TablesOK
      <3> QED
        BY <1>8, <2>3, <3>1 DEF LookupInv, TablesOK
    <2>5. RelationsOK' /\ ViewsOK'
      BY <2>1 DEF LookupInv, RelationsOK, ViewsOK, IsTable
    <2>6. EnumsOK'
      <3> SUFFICES ASSUME NEW k \in DOMAIN tables', NEW i \in DOMAIN tables'[k]
                   PROVE  tables'[k][i].enum \in DOMAIN enums' \cup {NoEnum}
        BY DEF EnumsOK, NoEnum
      <3>1. CASE k \in DOMAIN tables
        BY <1>5, <2>3, <3>1 DEF LookupInv, EnumsOK
      <3>2. CASE k \notin DOMAIN tables
        <4>1. tables'[k] = columns
          BY <2>3, <3>2
        <4>2. tables'[k][i].enum = NoEnum \/ tables'[k][i].enum = key
          BY <1>11, <4>1
        <4> QED
          BY <1>5, <4>2
      <3> QED
        BY <3>1, <3>2
    <2>7. ASSUME NEW k \in DOMAIN tables', Full(k) \notin doubted'
          PROVE  k \in DOMAIN tables /\ tables'[k] = tables[k] /\ Full(k) \notin doubted
      BY <2>1, <2>3, <2>7
    <2>8. ColumnsOK'
      <3> SUFFICES ASSUME NEW k \in DOMAIN tables', Full(k) \in DOMAIN db', Full(k) \notin doubted'
                   PROVE  db'[Full(k)].spelling = k /\ Agree(tables'[k], ColumnsOf(Full(k))')
        BY DEF ColumnsOK, Agree, Full
      <3> QED
        BY <2>1, <2>7, CarriedColumns DEF LookupInv
    <2>9. LabelsOK'
      <3> SUFFICES ASSUME NEW k \in DOMAIN tables', Full(k) \in DOMAIN db', ~db'[Full(k)].view,
                          Full(k) \notin doubted', NEW i \in DOMAIN tables'[k],
                          tables'[k][i].enum # NoEnum, tables'[k][i].enum \notin relabelled'
                   PROVE  enums'[tables'[k][i].enum] = db'[Full(k)].columns[i].labels
        BY DEF LabelsOK, IsTable, Labelled, NoEnum
      <3>1. k \in DOMAIN tables /\ tables'[k] = tables[k] /\ Full(k) \notin doubted
        BY <2>7
      <3>2. tables[k][i].enum \in DOMAIN enums \ {own} /\ tables[k][i].enum \notin relabelled
        BY <2>1, <3>1 DEF LookupInv, EnumsOK
      <3>3. Labelled(tables[k], db[Full(k)].columns)
        BY <2>1, <3>1 DEF LookupInv, LabelsOK, IsTable
      <3> QED
        BY <1>5, <2>1, <3>1, <3>2, <3>3 DEF Labelled
    <2> QED
      BY <1>6, <2>4, <2>5, <2>6, <2>8, <2>9 DEF LookupInv
  <1> QED
    BY <1>13, <1>14

LEMMA DropLookup ==
  ASSUME LookupInv, NEW n \in Spellings, Drop(n)
  PROVE  LookupInv'
  <1> DEFINE f == Full(n)
  <1>1. /\ Running /\ Read /\ ViewsOf(f) = {} /\ db' = Without(db, f)
        /\ UNCHANGED <<tables, enums, doubted, relabelled>>
    BY DEF Drop
  <1>2. ScriptOK'
    BY <1>1, ScriptRead DEF LookupInv, ScriptOK
  <1>3. DOMAIN db' = DOMAIN db \ {f} /\ \A g \in DOMAIN db' : db'[g] = db[g]
    BY <1>1 DEF Without
  <1>4. TablesOK' /\ RelationsOK' /\ EnumsOK'
    BY <1>1, <1>3 DEF LookupInv, TablesOK, RelationsOK, EnumsOK, NoEnum
  <1>5. \A v \in DOMAIN db' : db[v].view => /\ db[v].of \in DOMAIN db' /\ ~db[db[v].of].view
                                            /\ DOMAIN db[v].names \subseteq
                                                 DOMAIN db[db[v].of].columns
    BY <1>1, <1>3 DEF LookupInv, ViewsOK, ViewsOf, IsTable
  <1>6. ViewsOK'
    BY <1>3, <1>5 DEF ViewsOK, IsTable
  <1>7. ColumnsOK'
    <2> SUFFICES ASSUME NEW k \in DOMAIN tables, Full(k) \in DOMAIN db', Full(k) \notin doubted
                 PROVE  db'[Full(k)].spelling = k /\ Agree(tables'[k], ColumnsOf(Full(k))')
      BY <1>1 DEF ColumnsOK, Agree, Full
    <2> QED
      BY <1>1, <1>3, <1>5, CarriedColumns DEF LookupInv
  <1>8. LabelsOK'
    <2> SUFFICES ASSUME NEW k \in DOMAIN tables, Full(k) \in DOMAIN db', ~db'[Full(k)].view,
                        Full(k) \notin doubted
                 PROVE  Labelled(tables[k], db[Full(k)].columns)'
      BY <1>1 DEF LabelsOK, IsTable, Labelled
    <2> QED
      BY <1>1, <1>3, CarriedLabels DEF LookupInv
  <1> QED
    BY <1>2, <1>4, <1>6, <1>7, <1>8 DEF LookupInv

LEMMA CreateAsLookup ==
  ASSUME LookupInv, NEW n \in Spellings, NEW source \in Spellings, NEW view \in BOOLEAN,
         CreateAs(n, source, view)
  PROVE  LookupInv'
  <1> DEFINE f == Full(n)
             base == Full(source)
             cols == db[base].columns
             noted == [i \in DOMAIN cols |-> cols[i].name]
             copied == [i \in DOMAIN cols |->
                          Stored(noted[i], cols[i].nullable \/ dialect = "postgresql", "none")]
             relation == IF view THEN View(n, base, noted) ELSE Table(n, copied)
  <1>1. CASE Keys(tables, source) = {}
    <2>1. Running /\ Refuse(source)
      BY <1>1 DEF CreateAs
    <2> QED
      BY <2>1, RefuseLookup
  <1>2. CASE Keys(tables, source) # {}
    <2>1. f \notin DOMAIN db /\ IsTable(base) /\ Running
      BY DEF CreateAs
    <2>2. ColumnsOf(base) = cols /\ cols \in Seq(SqlColumn) /\ base \in DOMAIN db
          /\ ~db[base].view /\ base # f
      BY <2>1, TableColumns, RelationFacts DEF IsTable, LookupInv
    <2>3. PICK key \in Keys(tables, source) :
            /\ Read
            /\ tables' = With(tables, n, Selected(key))
            /\ db' = With(db, f, relation)
            /\ doubted' = (doubted \ {f}) \cup
                 (IF \/ Misread(key, source)
                     \/ Shadowed(n, f)
                     \/ ~view /\ dialect = "postgresql"
                  THEN {f} ELSE {})
            /\ UNCHANGED <<enums, relabelled>>
      BY <1>2, <2>2 DEF CreateAs
    <2> DEFINE columns == Selected(key)
    <2>4. key \in DOMAIN tables /\ tables[key] \in Seq(CodeColumn)
      BY KeysAreKeys DEF LookupInv, TablesOK
    <2>5. /\ Len(tables[key]) \in Nat /\ DOMAIN tables[key] = 1..Len(tables[key])
          /\ \A i \in DOMAIN tables[key] : tables[key][i] \in CodeColumn
      BY <2>4, SeqFacts
    <2>6. /\ DOMAIN columns = DOMAIN tables[key]
          /\ columns = [i \in 1..Len(tables[key]) |-> columns[i]]
          /\ \A i \in DOMAIN columns : /\ columns[i] \in CodeColumn /\ columns[i].enum = NoEnum
                                       /\ columns[i].name = tables[key][i].name
                                       /\ columns[i].nullable = tables[key][i].nullable
      <3>1. /\ DOMAIN columns = DOMAIN tables[key]
            /\ columns = [i \in 1..Len(tables[key]) |-> columns[i]]
            /\ \A i \in DOMAIN columns : columns[i] = [tables[key][i] EXCEPT !.enum = NoEnum]
        BY <2>5 DEF Selected
      <3> HIDE DEF columns
      <3>2. ASSUME NEW c \in CodeColumn
            PROVE  LET d == [c EXCEPT !.enum = NoEnum]
                   IN d \in CodeColumn /\ d.enum = NoEnum /\ d.name = c.name
                      /\ d.nullable = c.nullable
        BY DEF CodeColumn
      <3>3. \A i \in DOMAIN columns :
              LET d == [tables[key][i] EXCEPT !.enum = NoEnum]
              IN d \in CodeColumn /\ d.enum = NoEnum /\ d.name = tables[key][i].name
                 /\ d.nullable = tables[key][i].nullable
        BY <2>5, <3>1, <3>2
      <3> QED
        BY <3>1, <3>3
    <2> HIDE DEF columns
    <2>7. columns \in Seq(CodeColumn)
      <3> DEFINE c == Len(tables[key])
      <3>1. c \in Nat /\ DOMAIN columns = 1..c /\ \A i \in 1..c : columns[i] \in CodeColumn
        BY <2>5, <2>6
      <3>2. columns = [i \in 1..c |-> columns[i]]
        BY <2>6
      <3> HIDE DEF c
      <3> QED
        BY <3>1, <3>2
    <2>8. /\ Len(cols) \in Nat /\ DOMAIN cols = 1..Len(cols)
          /\ \A i \in DOMAIN cols : cols[i] \in SqlColumn
      BY <2>2, SeqFacts
    <2>9. /\ DOMAIN noted = DOMAIN cols
          /\ \A i \in DOMAIN cols : noted[i] = cols[i].name /\ noted[i] \in ColumnNames
          /\ noted = [i \in 1..Len(cols) |-> noted[i]]
      BY <2>8 DEF SqlColumn
    <2>10. /\ DOMAIN copied = DOMAIN cols
           /\ \A i \in DOMAIN cols :
                /\ copied[i] \in SqlColumn
                /\ copied[i].name = cols[i].name /\ copied[i].labels = "none"
                /\ copied[i].nullable = (cols[i].nullable \/ dialect = "postgresql")
           /\ copied = [i \in 1..Len(cols) |-> copied[i]]
      <3>1. \A i \in DOMAIN cols : cols[i].nullable \in BOOLEAN
        BY <2>8 DEF SqlColumn
      <3> QED
        BY <2>8, <2>9, <3>1 DEF Stored, SqlColumn
    <2> HIDE DEF cols, noted, copied
    <2>11. noted \in Seq(ColumnNames) /\ copied \in Seq(SqlColumn)
      BY <2>8, <2>9, <2>10
    <2>12. /\ relation \in TableRecord \cup ViewRecord /\ relation.spelling = n
           /\ relation.view = view
           /\ view => relation.of = base /\ relation.names = noted
           /\ ~view => relation.columns = copied
      <3>1. base \in Names
        BY FullIsName
      <3>2. CASE view
        BY <2>11, <3>1, <3>2 DEF View, ViewRecord
      <3>3. CASE ~view
        BY <2>11, <3>3 DEF Table, TableRecord
      <3> QED
        BY <3>2, <3>3
    <2> HIDE DEF relation
    <2>13. ScriptOK'
      <3>1. doubted' \subseteq Names
        BY <2>3, FullIsName DEF LookupInv, ScriptOK
      <3> QED
        BY <2>1, <2>3, <3>1, ScriptRead DEF LookupInv, ScriptOK
    <2>14. relation.view => /\ IsTable(relation.of)
                            /\ DOMAIN relation.names \subseteq DOMAIN db[relation.of].columns
      BY <2>1, <2>9, <2>12 DEF cols
    <2>15. /\ doubted \subseteq doubted' \cup {f}
           /\ Shadowed(n, f) => f \in doubted'
      BY <2>3
    <2>16. ASSUME f \notin doubted'
           PROVE  Agree(columns, ColumnsOf(f)')
      <3>1. Full(key) = base /\ base \notin doubted /\ (~view => dialect # "postgresql")
        BY <2>3, <2>16 DEF Misread
      <3>2. Agree(tables[key], cols)
        BY <2>2, <2>4, <3>1 DEF LookupInv, ColumnsOK
      <3>3. DOMAIN columns = DOMAIN cols
            /\ \A i \in DOMAIN columns : /\ columns[i].name = cols[i].name
                                         /\ cols[i].nullable => columns[i].nullable
        BY <2>6, <3>2 DEF Agree
      <3>4. db'[f] = relation /\ db'[base] = db[base]
        BY <2>2, <2>3 DEF With
      <3>5. CASE view
        <4>1. ColumnsOf(f)' = [i \in DOMAIN noted |-> [cols[i] EXCEPT !.name = noted[i]]]
          <5>1. db'[f].view /\ db'[f].of = base /\ db'[f].names = noted
            BY <2>12, <3>4, <3>5
          <5>2. db'[base].columns = cols
            BY <3>4 DEF cols, Full
          <5> QED
            BY <5>1, <5>2 DEF ColumnsOf
        <4>2. ASSUME NEW i \in DOMAIN cols
              PROVE  LET c == [cols[i] EXCEPT !.name = noted[i]]
                     IN c.name = cols[i].name /\ c.nullable = cols[i].nullable
          <5>1. cols[i] \in SqlColumn /\ noted[i] = cols[i].name
            BY <2>8, <2>9
          <5> QED
            BY <5>1 DEF SqlColumn
        <4> QED
          BY <2>9, <3>3, <4>1, <4>2 DEF Agree
      <3>6. CASE ~view
        <4>1. ColumnsOf(f)' = copied
          BY <2>12, <3>4, <3>6 DEF ColumnsOf, Full
        <4> QED
          BY <2>10, <3>1, <3>3, <3>6, <4>1 DEF Agree
      <3> QED
        BY <3>5, <3>6
    <2>17. /\ enums' = enums /\ relabelled' = relabelled
           /\ \A i \in DOMAIN columns : columns[i].enum = NoEnum
      BY <2>3, <2>6
    <2>18. tables' = With(tables, n, columns) /\ db' = With(db, f, relation)
      BY <2>3 DEF columns
    <2> QED
      BY <2>1, <2>7, <2>12, <2>13, <2>14, <2>15, <2>16, <2>17, <2>18, CreatedLookup
  <1> QED
    BY <1>1, <1>2

LEMMA ModifyColumnLookup ==
  ASSUME LookupInv, NEW n \in Spellings, NEW column \in ColumnNames, NEW nullable \in BOOLEAN,
         ModifyColumn(n, column, nullable)
  PROVE  LookupInv'
  <1> DEFINE f == Full(n)
             cols == db[f].columns
             sql == NullableSet(cols, column, nullable)
             relation == [db[f] EXCEPT !.columns = sql]
             gap == IF nullable THEN {f} \cup ViewsOf(f) ELSE {}
  <1>1. /\ Running /\ Read /\ IsTable(f) /\ f \in DOMAIN db /\ ~db[f].view
        /\ db' = [db EXCEPT ![f] = relation]
        /\ doubted' = doubted \cup gap
        /\ UNCHANGED <<tables, enums, relabelled>>
    BY DEF ModifyColumn, IsTable, Doubt
  <1>2. db[f] \in TableRecord /\ cols \in Seq(SqlColumn)
    BY <1>1, RelationFacts DEF LookupInv
  <1>3. /\ sql \in Seq(SqlColumn) /\ DOMAIN sql = DOMAIN cols
        /\ \A i \in DOMAIN cols :
             /\ sql[i].name = cols[i].name /\ sql[i].labels = cols[i].labels
             /\ sql[i].nullable = IF cols[i].name = column THEN nullable ELSE cols[i].nullable
    BY <1>2, NullableSetSql
  <1> HIDE DEF sql
  <1>4. relation \in TableRecord /\ relation.columns = sql /\ ~relation.view
        /\ relation.spelling = db[f].spelling
    BY <1>2, <1>3 DEF TableRecord
  <1> HIDE DEF relation
  <1>5. /\ DOMAIN db' = DOMAIN db /\ db'[f] = relation
        /\ \A g \in DOMAIN db \ {f} : db'[g] = db[g]
    BY <1>1
  <1>6. ScriptOK'
    <2>1. doubted' \subseteq Names
      BY <1>1, FullIsName DEF LookupInv, ScriptOK, RelationsOK, ViewsOf
    <2> QED
      BY <1>1, <2>1, ScriptRead DEF LookupInv, ScriptOK
  <1>7. TablesOK' /\ RelationsOK' /\ EnumsOK'
    BY <1>1, <1>4, <1>5 DEF LookupInv, TablesOK, RelationsOK, EnumsOK, NoEnum
  <1>8. ViewsOK'
    <2> SUFFICES ASSUME NEW v \in DOMAIN db', db'[v].view
                 PROVE  /\ db'[v].of \in DOMAIN db' /\ ~db'[db'[v].of].view
                        /\ DOMAIN db'[v].names \subseteq DOMAIN db'[db'[v].of].columns
      BY DEF ViewsOK, IsTable
    <2>1. v \in DOMAIN db \ {f} /\ db'[v] = db[v]
      BY <1>4, <1>5
    <2>2. db[v].of \in DOMAIN db /\ ~db[db[v].of].view
          /\ DOMAIN db[v].names \subseteq DOMAIN db[db[v].of].columns
      BY <2>1 DEF LookupInv, ViewsOK, IsTable
    <2> QED
      BY <1>3, <1>4, <1>5, <2>1, <2>2
  <1>9. ColumnsOK'
    <2> SUFFICES ASSUME NEW k \in DOMAIN tables, Full(k) \in DOMAIN db, Full(k) \notin doubted'
                 PROVE  db'[Full(k)].spelling = k /\ Agree(tables'[k], ColumnsOf(Full(k))')
      BY <1>1, <1>5 DEF ColumnsOK, Agree, Full
    <2> DEFINE v == Full(k)
    <2>1. db[v].spelling = k /\ Agree(tables[k], ColumnsOf(v)) /\ v \notin gap
      BY <1>1 DEF LookupInv, ColumnsOK
    <2>2. CASE v = f
      <3>1. ~nullable /\ Agree(tables[k], cols)
        BY <1>1, <2>1, <2>2, TableColumns
      <3>2. ColumnsOf(v)' = sql
        BY <1>4, <1>5, <2>2 DEF ColumnsOf, Full
      <3> HIDE DEF cols
      <3>3. Agree(tables[k], sql)
        BY <1>3, <3>1 DEF Agree
      <3> QED
        BY <1>1, <1>4, <1>5, <2>1, <2>2, <3>2, <3>3
    <2>3. CASE v # f /\ ~(db[v].view /\ db[v].of = f)
      <3>1. db[v].view => db'[db[v].of] = db[db[v].of]
        BY <1>5, <2>3 DEF LookupInv, ViewsOK, IsTable
      <3> QED
        BY <1>1, <1>5, <2>3, <3>1, CarriedColumns DEF LookupInv
    <2>4. CASE v # f /\ db[v].view /\ db[v].of = f
      <3>1. v \in ViewsOf(f) /\ ~nullable /\ db'[v] = db[v]
        BY <1>5, <2>1, <2>4 DEF ViewsOf
      <3>2. /\ DOMAIN ColumnsOf(v) = DOMAIN db[v].names
            /\ DOMAIN db[v].names \subseteq DOMAIN cols
            /\ \A i \in DOMAIN db[v].names :
                 /\ ColumnsOf(v)[i].name = db[v].names[i]
                 /\ ColumnsOf(v)[i].nullable = cols[i].nullable
        BY <2>4, ViewColumns DEF LookupInv
      <3>3. /\ DOMAIN ColumnsOf(v)' = DOMAIN db[v].names
            /\ \A i \in DOMAIN db[v].names :
                 /\ ColumnsOf(v)'[i].name = db[v].names[i]
                 /\ ColumnsOf(v)'[i].nullable = sql[i].nullable
        <4>1. ColumnsOf(v)' = [i \in DOMAIN db[v].names |-> [sql[i] EXCEPT !.name = db[v].names[i]]]
          BY <1>4, <1>5, <2>4, <3>1 DEF ColumnsOf, Full
        <4>2. ASSUME NEW i \in DOMAIN db[v].names
              PROVE  /\ [sql[i] EXCEPT !.name = db[v].names[i]].name = db[v].names[i]
                     /\ [sql[i] EXCEPT !.name = db[v].names[i]].nullable = sql[i].nullable
          <5>1. sql[i] \in SqlColumn
            BY <1>3, <3>2, SeqFacts
          <5> QED
            BY <5>1 DEF SqlColumn
        <4> QED
          BY <4>1, <4>2
      <3>4. \A i \in DOMAIN db[v].names : sql[i].nullable => cols[i].nullable
        BY <1>3, <3>1, <3>2
      <3>5. Agree(tables[k], ColumnsOf(v)')
        BY <2>1, <3>2, <3>3, <3>4 DEF Agree
      <3> QED
        BY <1>1, <2>1, <3>1, <3>5
    <2> QED
      BY <2>2, <2>3, <2>4
  <1>10. LabelsOK'
    <2> SUFFICES ASSUME NEW k \in DOMAIN tables, Full(k) \in DOMAIN db, ~db'[Full(k)].view,
                        Full(k) \notin doubted'
                 PROVE  Labelled(tables[k], db[Full(k)].columns)'
      BY <1>1, <1>5 DEF LabelsOK, IsTable, Labelled
    <2>1. CASE Full(k) = f
      <3>1. Labelled(tables[k], cols) /\ Agree(tables[k], cols)
        BY <1>1, <2>1, TableColumns DEF LookupInv, LabelsOK, ColumnsOK
      <3> HIDE DEF cols
      <3>2. Labelled(tables[k], sql)
        BY <1>3, <3>1 DEF Labelled, Agree
      <3> QED
        BY <1>1, <1>4, <1>5, <2>1, <3>2 DEF Labelled
    <2>2. CASE Full(k) # f
      BY <1>1, <1>5, <2>2, CarriedLabels DEF LookupInv
    <2> QED
      BY <2>1, <2>2
  <1> QED
    BY <1>6, <1>7, <1>8, <1>9, <1>10 DEF LookupInv

LEMMA RenameTableLookup ==
  ASSUME LookupInv, NEW n \in Spellings, NEW new \in Spellings, RenameTable(n, new)
  PROVE  LookupInv'
  <1> DEFINE f == Full(n)
             target == RenamedTo(n, new)
             relation == [db[f] EXCEPT !.spelling = new]
  <1>0. f \in DOMAIN db /\ ~db[f].view /\ target \notin DOMAIN db /\ ViewsOf(f) = {} /\ Running
    BY DEF RenameTable, IsTable
  <1>1. CASE RenameKeys(n) = {}
    BY <1>0, <1>1, RefuseLookup DEF RenameTable
  <1>2. CASE RenameKeys(n) # {}
    <2>1. PICK key \in RenameKeys(n) :
            /\ Read
            /\ tables' = With(Without(tables, key), new, tables[key])
            /\ db' = With(Without(db, f), target, relation)
            /\ doubted' = (doubted \ {target}) \cup
                 (IF \/ Misread(key, n)
                     \/ Full(new) # target
                     \/ \E k \in DOMAIN tables \ {key, new} : Full(k) = target
                  THEN {target, Full(key), Full(new)} ELSE {})
            /\ UNCHANGED <<enums, relabelled>>
      BY <1>2 DEF RenameTable
    <2>2. key \in DOMAIN tables
      BY KeysAreKeys
    <2>3. /\ DOMAIN tables' = (DOMAIN tables \ {key}) \cup {new}
          /\ tables'[new] = tables[key]
          /\ \A k \in DOMAIN tables \ {key, new} : tables'[k] = tables[k]
      BY <2>1 DEF With, Without
    <2>4. /\ DOMAIN db' = (DOMAIN db \ {f}) \cup {target} /\ db'[target] = relation
          /\ \A g \in DOMAIN db \ {f} : g # target /\ db'[g] = db[g]
      BY <1>0, <2>1 DEF With, Without
    <2>5. /\ relation \in TableRecord /\ relation.spelling = new /\ ~relation.view
          /\ relation.columns = db[f].columns
      <3>1. db[f] \in TableRecord
        BY <1>0, RelationFacts DEF LookupInv
      <3> QED
        BY <3>1 DEF TableRecord
    <2>6. target \in Names
      <3>1. f \in Names /\ Full(new) \in Names
        BY FullIsName
      <3>2. f[1] \in Schemas /\ new[2] \in Bases
        BY <3>1 DEF Names, Spellings
      <3> QED
        BY <3>1, <3>2 DEF RenamedTo, Names
    <2> HIDE DEF relation, target
    <2>7. ScriptOK'
      <3>1. Full(key) \in Names /\ Full(new) \in Names
        BY <2>2, FullIsName DEF LookupInv, TablesOK
      <3>2. doubted' \subseteq Names
        BY <2>1, <2>6, <3>1 DEF LookupInv, ScriptOK
      <3> QED
        BY <1>0, <2>1, <3>2, ScriptRead DEF LookupInv, ScriptOK
    <2>8. TablesOK'
      <3>1. IsFiniteSet((DOMAIN tables \ {key}) \cup {new})
        BY FS_AddElement, FS_RemoveElement DEF LookupInv, TablesOK
      <3>2. \A k \in DOMAIN tables' : tables'[k] \in Seq(CodeColumn)
        BY <2>2, <2>3 DEF LookupInv, TablesOK
      <3> QED
        BY <2>3, <3>1, <3>2 DEF LookupInv, TablesOK
    <2>9. RelationsOK'
      BY <2>4, <2>5, <2>6 DEF LookupInv, RelationsOK
    <2>10. \A v \in DOMAIN db \ {f} : db[v].view =>
             /\ db[v].of \in DOMAIN db \ {f} /\ ~db[db[v].of].view
             /\ DOMAIN db[v].names \subseteq DOMAIN db[db[v].of].columns
      BY <1>0 DEF LookupInv, ViewsOK, ViewsOf, IsTable
    <2>11. ViewsOK'
      BY <2>4, <2>5, <2>10 DEF ViewsOK, IsTable
    <2>12. EnumsOK'
      <3> SUFFICES ASSUME NEW k \in DOMAIN tables', NEW i \in DOMAIN tables'[k]
                   PROVE  tables'[k][i].enum \in DOMAIN enums \cup {NoEnum}
        BY <2>1 DEF EnumsOK, NoEnum
      <3>1. PICK o \in DOMAIN tables : tables'[k] = tables[o]
        BY <2>2, <2>3
      <3> QED
        BY <3>1 DEF LookupInv, EnumsOK
    \* The new key is that of the renamed table; other keys keep their relation.
    <2>13. ASSUME NEW k \in DOMAIN tables', Full(k) \in DOMAIN db', Full(k) \notin doubted'
           PROVE  \/ /\ k = new /\ Full(k) = target /\ Full(key) = f /\ f \notin doubted
                  \/ /\ k \in DOMAIN tables \ {key, new} /\ tables'[k] = tables[k]
                     /\ Full(k) \in DOMAIN db \ {f} /\ Full(k) \notin doubted
      <3>1. CASE Full(k) = target
        <4>1. /\ ~Misread(key, n)
              /\ ~\E o \in DOMAIN tables \ {key, new} : Full(o) = target
          BY <2>1, <2>13, <3>1
        <4> QED
          BY <2>3, <3>1, <4>1 DEF Misread
      <3>2. CASE Full(k) # target
        <4>1. Full(k) \in DOMAIN db \ {f} /\ Full(k) \notin doubted
          BY <2>1, <2>4, <2>13, <3>2
        <4>2. k # new
          BY <2>1, <2>13, <3>2
        <4> QED
          BY <2>3, <4>1, <4>2
      <3> QED
        BY <3>1, <3>2
    <2>14. ColumnsOK'
      <3> SUFFICES ASSUME NEW k \in DOMAIN tables', Full(k) \in DOMAIN db', Full(k) \notin doubted'
                   PROVE  db'[Full(k)].spelling = k /\ Agree(tables'[k], ColumnsOf(Full(k))')
        BY DEF ColumnsOK, Agree, Full
      <3>1. CASE k = new /\ Full(k) = target /\ Full(key) = f /\ f \notin doubted
        <4>1. Agree(tables[key], ColumnsOf(f))
          BY <1>0, <2>2, <3>1 DEF LookupInv, ColumnsOK
        <4>2. ColumnsOf(f) = db[f].columns
          BY <1>0 DEF ColumnsOf
        <4>3. ColumnsOf(Full(k))' = db[f].columns
          BY <2>4, <2>5, <3>1 DEF ColumnsOf, Full
        <4> QED
          BY <2>3, <2>4, <2>5, <3>1, <4>1, <4>2, <4>3
      <3>2. CASE /\ k \in DOMAIN tables \ {key, new} /\ tables'[k] = tables[k]
                 /\ Full(k) \in DOMAIN db \ {f} /\ Full(k) \notin doubted
        BY <2>4, <2>10, <3>2, CarriedColumns DEF LookupInv
      <3> QED
        BY <2>13, <3>1, <3>2
    <2>15. LabelsOK'
      <3> SUFFICES ASSUME NEW k \in DOMAIN tables', Full(k) \in DOMAIN db', ~db'[Full(k)].view,
                          Full(k) \notin doubted'
                   PROVE  Labelled(tables[k], db[Full(k)].columns)'
        BY DEF LabelsOK, IsTable, Labelled
      <3>1. CASE k = new /\ Full(k) = target /\ Full(key) = f /\ f \notin doubted
        <4>1. Labelled(tables[key], db[f].columns)
          BY <1>0, <2>2, <3>1 DEF LookupInv, LabelsOK, IsTable
        <4> QED
          BY <2>1, <2>3, <2>4, <2>5, <3>1, <4>1 DEF Labelled
      <3>2. CASE /\ k \in DOMAIN tables \ {key, new} /\ tables'[k] = tables[k]
                 /\ Full(k) \in DOMAIN db \ {f} /\ Full(k) \notin doubted
        BY <2>1, <2>4, <3>2, CarriedLabels DEF LookupInv
      <3> QED
        BY <2>13, <3>1, <3>2
    <2> QED
      BY <2>7, <2>8, <2>9, <2>11, <2>12, <2>14, <2>15 DEF LookupInv
  <1> QED
    BY <1>1, <1>2

LEMMA LookupInvInit == Init => LookupInv
  <1> SUFFICES ASSUME Init PROVE LookupInv
    OBVIOUS
  <1>1. DOMAIN tables = {} /\ DOMAIN db = {}
    BY DEF Init
  <1>2. ScriptOK
    BY CatalogBounds DEF Init, ScriptOK
  <1>3. TablesOK
    BY <1>1, FS_EmptySet DEF TablesOK
  <1> QED
    BY <1>1, <1>2, <1>3 DEF LookupInv, RelationsOK, ViewsOK, EnumsOK, ColumnsOK, LabelsOK, IsTable

LEMMA LookupInvNext == LookupInv /\ [Statement]_vars => LookupInv'
  <1> SUFFICES ASSUME LookupInv, [Statement]_vars PROVE LookupInv'
    OBVIOUS
  <1>1. CASE UNCHANGED vars
    <2>1. ScriptOK' /\ TablesOK' /\ RelationsOK' /\ ViewsOK' /\ EnumsOK'
      BY <1>1 DEF vars, LookupInv, ScriptOK, TablesOK, RelationsOK, ViewsOK, EnumsOK, IsTable,
                  NoEnum, Spellings, ColumnNames
    <2>2. ColumnsOK' /\ LabelsOK'
      BY <1>1 DEF vars, LookupInv, ColumnsOK, LabelsOK, Labelled, ColumnsOf, IsTable, NoEnum
    <2> QED
      BY <2>1, <2>2 DEF LookupInv
  <1>2. ASSUME NEW n \in Spellings, AlterUnknown(n)
        PROVE  LookupInv'
    BY <1>2, RefuseLookup DEF AlterUnknown
  <1>3. ASSUME NEW n \in Spellings, NEW nullable \in BOOLEAN, NEW ifNotExists \in BOOLEAN,
               AddColumn(n, "note", nullable, ifNotExists)
        PROVE  LookupInv'
    BY <1>3, AddColumnLookup DEF ColumnNames
  <1>4. ASSUME NEW n \in Spellings, RenameColumn(n, "status", "note")
        PROVE  LookupInv'
    BY <1>4, RenameColumnLookup DEF ColumnNames
  <1>5. ASSUME Statement PROVE LookupInv'
    BY <1>2, <1>3, <1>4, <1>5, CreateTableLookup, DropLookup, CreateAsLookup,
       AlterNullableLookup, ModifyColumnLookup, DropColumnLookup, RenameTableLookup
       DEF Statement
  <1> QED
    BY <1>1, <1>5

THEOREM SpecLookupInv == Spec => []LookupInv
  <1> QED
    BY LookupInvInit, LookupInvNext, PTL DEF Spec

\* The key that answers for a relation that is not misrecorded is its own.
LEMMA TheKey ==
  ASSUME CatalogInv, LookupInv, NEW n \in Spellings, Unambiguous(n),
         Full(n) \in DOMAIN db \ doubted, NEW key \in Keys(tables, n)
  PROVE  key \in DOMAIN tables /\ Full(key) = Full(n)
  <1>1. key \in DOMAIN tables
    BY KeysAreKeys
  <1>2. CASE n \in DOMAIN tables
    BY <1>1, <1>2, KeysAreKeys
  <1>3. CASE n \notin DOMAIN tables
    <2> DEFINE own == db[Full(n)].spelling
               named == Qualified(tables, n)
    <2>1. own \in DOMAIN tables /\ Full(own) = Full(n)
      BY DEF CatalogInv, SpellingsOK
    <2>2. Cardinality(named) = 1 /\ n[1] = 0 /\ key \in named
      BY <1>3 DEF Unambiguous, Keys
    <2>3. IsFiniteSet(named)
      BY FS_Subset DEF LookupInv, TablesOK, Qualified
    <2>4. PICK x : named = {x}
      BY <2>2, <2>3, FS_Singleton
    <2>5. own \in named
      <3>1. n = <<n[1], n[2]>> /\ own = <<own[1], own[2]>>
        BY <2>1, SpellingFacts DEF LookupInv, TablesOK
      <3>2. own[2] = n[2]
        BY <2>1, <2>2, <3>1 DEF Full
      <3>3. own[1] # 0
        BY <1>3, <2>1, <2>2, <3>1, <3>2
      <3> QED
        BY <2>1, <3>2, <3>3 DEF Qualified
    <2> QED
      BY <1>1, <2>1, <2>2, <2>4, <2>5
  <1> QED
    BY <1>2, <1>3

LEMMA SameLength ==
  ASSUME NEW S, NEW T, NEW s \in Seq(S), NEW t \in Seq(T), DOMAIN s = DOMAIN t
  PROVE  Len(s) = Len(t)
  <1> DEFINE a == Len(s)
             b == Len(t)
  <1>1. a \in Nat /\ b \in Nat /\ 1..a = 1..b
    BY SeqFacts
  <1> HIDE DEF a, b
  <1>2. a = b
    BY <1>1
  <1> QED
    BY <1>2 DEF a, b

LEMMA TypeOKHolds == LookupInv => TypeOK
  <1> SUFFICES ASSUME LookupInv PROVE TypeOK
    OBVIOUS
  <1> QED
    BY DEF LookupInv, ScriptOK, TablesOK, RelationsOK, EnumsOK, TypeOK

LEMMA LookupIsRightHolds == CatalogInv /\ LookupInv => LookupIsRight
  <1> SUFFICES ASSUME CatalogInv, LookupInv, NEW n \in Spellings,
                      Full(n) \in DOMAIN db \ doubted, Unambiguous(n),
                      NEW columns \in Found(tables, n)
               PROVE  /\ Len(columns) = Len(ColumnsOf(Full(n)))
                      /\ \A i \in DOMAIN columns :
                           /\ columns[i].name = ColumnsOf(Full(n))[i].name
                           /\ ColumnsOf(Full(n))[i].nullable => columns[i].nullable
    BY DEF LookupIsRight
  <1>1. PICK key \in Keys(tables, n) : columns = tables[key]
    BY DEF Found
  <1>2. key \in DOMAIN tables /\ Full(key) = Full(n)
    BY TheKey
  <1>3. Agree(columns, ColumnsOf(Full(n)))
    BY <1>1, <1>2 DEF LookupInv, ColumnsOK
  <1>4. columns \in Seq(CodeColumn)
    BY <1>1, <1>2 DEF LookupInv, TablesOK
  <1>5. ColumnsOf(Full(n)) \in Seq(SqlColumn)
    <2>1. CASE db[Full(n)].view
      BY <2>1, ViewColumns DEF LookupInv
    <2>2. CASE ~db[Full(n)].view
      BY <2>2, RelationFacts DEF LookupInv, ColumnsOf
    <2> QED
      BY <2>1, <2>2
  <1>6. Len(columns) = Len(ColumnsOf(Full(n)))
    BY <1>3, <1>4, <1>5, SameLength DEF Agree
  <1> QED
    BY <1>3, <1>6 DEF Agree

LEMMA LabelsAreRightHolds == CatalogInv /\ LookupInv => LabelsAreRight
  <1> SUFFICES ASSUME CatalogInv, LookupInv, NEW n \in Spellings,
                      IsTable(Full(n)), Full(n) \notin doubted, Unambiguous(n),
                      NEW columns \in Found(tables, n), NEW i \in DOMAIN columns,
                      columns[i].enum # NoEnum, columns[i].enum \notin relabelled
               PROVE  enums[columns[i].enum] = ColumnsOf(Full(n))[i].labels
    BY DEF LabelsAreRight
  <1>1. PICK key \in Keys(tables, n) : columns = tables[key]
    BY DEF Found
  <1>2. key \in DOMAIN tables /\ Full(key) = Full(n)
    BY TheKey DEF IsTable
  <1>3. Labelled(columns, db[Full(n)].columns)
    BY <1>1, <1>2 DEF LookupInv, LabelsOK
  <1> QED
    BY <1>3, TableColumns DEF Labelled

\* The catalog and the database keep to their types.  (Catalog::process_statement.)
THEOREM SpecTypeOK == Spec => []TypeOK
  BY SpecLookupInv, TypeOKHolds, PTL

\* What the code finds under an unambiguous spelling of a relation it has not
\* misrecorded is that relation, column by column, and NOT NULL only where the
\* database says so.  (Catalog::get_table and what the statements leave there.)
THEOREM SpecLookupIsRight == Spec => []LookupIsRight
  BY SpecCatalogInv, SpecLookupInv, LookupIsRightHolds, PTL

\* An inline enum of such a relation has the labels of its own column.
\* (The enum a CREATE TABLE registers under its table's spelling.)
THEOREM SpecLabelsAreRight == Spec => []LabelsAreRight
  BY SpecCatalogInv, SpecLookupInv, LabelsAreRightHolds, PTL
=============================================================================
