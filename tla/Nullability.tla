------------------------------ MODULE Nullability ------------------------------
(***************************************************************************)
(* What the analyzer says of the columns of a SELECT: may the engine       *)
(* return NULL there?  A FROM clause (FromClause) gives the columns, then  *)
(* expressions are built over them, each typed by the arm of               *)
(* infer_expr_type or infer_function_type that reads it, and the result    *)
(* may become a derived table, a CTE or an arm of a UNION of the next      *)
(* SELECT.  (crates/scythe-core/src/analyzer.)                             *)
(*                                                                         *)
(* Next to the inferred flags the module keeps the rows the query can      *)
(* produce: one value per column and expression, over NULL, 0 and 1, so    *)
(* that correlated operands stay correlated.                               *)
(***************************************************************************)
EXTENDS FromClause, FiniteSets

CONSTANTS
  Dialects,     \* the SQL dialects a catalog can have here
  MaxSize,      \* bound: columns, expressions and queries together
  MaxQueries    \* bound: queries built on the rows of another

ASSUME NullBounds ==
  /\ Dialects \subseteq {"postgresql", "mysql"}
  /\ MaxSize \in Nat
  /\ MaxQueries \in Nat

VARIABLES
  dialect,   \* of the catalog
  exprs,     \* what was inferred of each column and expression, in order
  rows,      \* reference: the rows the query can produce
  lone,      \* the scope has a single source
  queries    \* how many queries were built on another

selectVars == <<exprs, rows, lone, queries>>
nullVars == <<fromVars, dialect, selectVars>>

-----------------------------------------------------------------------------
NonNull == {"0", "1"}
Values == NonNull \cup {"null"}

ColumnNames == <<"c1", "c2">>

Names == {"c1", "c2", "unknown", "age", "replace", "nullif", "coalesce",
          "greatest", "concat_ws", "case", "sum", "min", "lag", "subquery"}

\* name: what expr_to_name calls the expression; bare: it is a column;
\* doubtful: history, typed as never NULL through a gap of an arm.
Info == [nullable : BOOLEAN, name : Names, bare : BOOLEAN, doubtful : BOOLEAN]

Column(n, nullable, doubtful) ==
  [nullable |-> nullable, name |-> ColumnNames[n], bare |-> TRUE,
   doubtful |-> doubtful]

NullInit ==
  /\ FromInit
  /\ dialect \in Dialects
  /\ exprs = <<>>
  /\ rows = {}
  /\ lone = TRUE
  /\ queries = 0

Selecting == exprs # <<>>

-----------------------------------------------------------------------------
(* The columns of a SELECT. *)

\* A mutation of ScopeNullable: the join is forgotten.
ScopeNullableBaseOnly(s, base) == base

\* TypeInfo::from_scope_column: the column's own nullability or the join's.
ScopeNullable(s, base) == base \/ sources[s]

\* A column of source s declared NOT NULL, or not (base), in a row of FROM.
ColumnValues(s, base, row) ==
  IF s \notin row THEN {"null"} ELSE IF base THEN Values ELSE NonNull

\* SELECT one or two columns of the sources; the FROM clause is done with.
Project ==
  /\ ~Selecting
  /\ Complete
  /\ \E s1, s2 \in DOMAIN sources, b1, b2 \in BOOLEAN :
       /\ <<s1, b1>> # <<s2, b2>>
       /\ exprs' = <<Column(1, ScopeNullable(s1, b1), s1 \in doubted),
                     Column(2, ScopeNullable(s2, b2), s2 \in doubted)>>
       /\ rows' = UNION {ColumnValues(s1, b1, row) \X ColumnValues(s2, b2, row) :
                         row \in RowsOfFrom}
       /\ lone' = (Len(sources) = 1)
  /\ sources' = <<>>
  /\ groups' = <<Opened(FALSE, "first", 0, FALSE)>>
  /\ items' = {{}}
  /\ doubted' = {}
  /\ widened' = FALSE
  /\ UNCHANGED <<dialect, queries>>

-----------------------------------------------------------------------------
(* Expressions.  An arm infers a flag from its operands' flags; the engine *)
(* computes one of the values the arm's operator can have in each row.     *)

Operands == DOMAIN exprs

Maybe(i) == exprs[i].nullable

\* GROUP BY ROLLUP, CUBE or GROUPING SETS over the columns of a SELECT that are
\* in `grouped': the rows of the subtotals have NULL in some of them.
\* analyze_select does not read GROUP BY, so the flags stay: a gap.
Subtotals(grouped) ==
  /\ Selecting
  /\ Len(exprs) = 2 /\ \A i \in 1..2 : exprs[i].bare
  /\ exprs' = [i \in 1..2 |-> [exprs[i] EXCEPT !.doubtful = @ \/ (i \in grouped /\ ~Maybe(i))]]
  /\ rows' = {[i \in 1..2 |-> IF i \in left THEN "null" ELSE row[i]] :
                row \in rows, left \in SUBSET grouped}
  /\ UNCHANGED <<fromVars, dialect, lone, queries>>

\* One more expression over `operands': what the arm infers and, per row,
\* the values the engine may return.
Emit(operands, nullable, name, gap, outcomes) ==
  /\ Selecting
  /\ Len(exprs) + queries < MaxSize
  /\ exprs' = Append(exprs,
                [nullable |-> nullable, name |-> name, bare |-> FALSE,
                 doubtful |-> \/ gap /\ ~nullable
                              \/ \E i \in operands : exprs[i].doubtful])
  /\ rows' = UNION {{Append(row, v) : v \in outcomes[row]} : row \in rows}
  /\ UNCHANGED <<fromVars, dialect, lone, queries>>

\* NULL if an operand is, anything else otherwise.
StrictIn(operands) ==
  [row \in rows |->
     IF \E i \in operands : row[i] = "null" THEN {"null"} ELSE NonNull]

\* A partial operator has no value for some operands that are all there, and
\* the engine answers NULL, not an error: a gap of the arm that types it.
Partly(partial, operands) ==
  [row \in rows |-> StrictIn(operands)[row] \cup (IF partial THEN {"null"} ELSE {})]

Always(values) == [row \in rows |-> values]

\* The number, string, boolean and NULL literals; now(), random(), count(),
\* row_number(), EXISTS and the others that take no operand into account.
Literal(v) ==
  Emit({}, v = "null", "unknown", FALSE, Always({v}))

\* IS [NOT] NULL and its kin.
IsNotNull(i) ==
  Emit({}, FALSE, "unknown", FALSE,
       [row \in rows |-> IF row[i] = "null" THEN {"0"} ELSE {"1"}])

\* Arithmetic, comparison, ||, LIKE, BETWEEN, POSITION, age, make_date,
\* jsonb_set, array_to_json and MySQL's CONCAT: NULL if any operand is.
AllOperands(i, j) == Maybe(i) \/ Maybe(j)

\* An infix operation is named after its left operand, a call by its function,
\* LIKE and BETWEEN not at all.  Partial: PostgreSQL's jsonb @@ jsonpath; MySQL's
\* DIV, a date that an interval takes out of range, a CONCAT that is too long.
Strict(i, j, partial, name) ==
  Emit({i, j}, AllOperands(i, j), name, partial, Partly(partial, {i, j}))

\* The same arm types / and %, which MySQL answers with NULL on a zero
\* divisor, where PostgreSQL fails.
Quotient(i, j) ==
  Emit({i, j}, AllOperands(i, j), exprs[i].name, dialect = "mysql",
       [row \in rows |->
          IF "null" \in {row[i], row[j]} THEN {"null"}
          ELSE IF row[j] # "0" THEN NonNull
          ELSE IF dialect = "mysql" THEN {"null"} ELSE {}])

\* AND and OR: three-valued, and inferred as if strict.
Connective(i, j, absorbing) ==
  Emit({i, j}, AllOperands(i, j), exprs[i].name, FALSE,
       [row \in rows |->
          IF absorbing \in {row[i], row[j]} THEN {absorbing}
          ELSE IF "null" \in {row[i], row[j]} THEN {"null"}
          ELSE NonNull \ {absorbing}])

\* The strict functions typed by `first_arg_nullable' alone, and IN over a
\* list or a subquery typed by its left operand alone, as AT TIME ZONE is by
\* its timestamp: a nullable operand further right is a gap.  Partial:
\* PostgreSQL's substring(s from pattern) without a match; MySQL's mod(x, 0),
\* sqrt(-1), ln(0), acos(2), lpad(s, -1, p).
FirstOperand(i, j, partial, name) ==
  Emit({i, j}, Maybe(i), name, Maybe(j) \/ partial, Partly(partial, {i, j}))

\* `x = ANY (...)', ALL, ntile and setval are typed as never NULL.
AnyOrAll(i, j) ==
  Emit({i, j}, FALSE, "unknown", Maybe(i) \/ Maybe(j), StrictIn({i, j}))

\* CAST and ::, NOT, unary minus, EXTRACT, TRIM, CEIL, DATE: strict in their
\* operand.  What cannot be converted TRY_CAST gives as NULL, and is typed so;
\* and so does MySQL leniently, CAST('abc' AS DATE) and DATE('bad'), where the
\* arm follows the operand: a gap.
Convert(i, failing, name) ==
  /\ failing = "lenient" => dialect = "mysql"
  /\ Emit({i}, Maybe(i) \/ failing = "tried", name, failing = "lenient",
          Partly(failing # "refused", {i}))

\* JSON arrows, named after their left operand; sum, avg, min, max and
\* array_agg over a group that may be empty; nullif; LAG and LEAD without a
\* default: nullable whatever they are applied to.
AlwaysNullable(name) ==
  Emit({}, TRUE, name, FALSE, Always(Values))

-----------------------------------------------------------------------------
\* COALESCE is NULL only if every argument is.
Fallback(i, j) == Maybe(i) /\ Maybe(j)

Coalesce(i, j) ==
  Emit({i, j}, Fallback(i, j), "coalesce", FALSE,
       [row \in rows |-> {IF row[i] # "null" THEN row[i] ELSE row[j]}])

\* GREATEST and LEAST: MySQL returns NULL for any NULL argument, the others
\* skip NULLs.
Greatest(i, j) ==
  IF dialect = "mysql"
  THEN Emit({i, j}, AllOperands(i, j), "greatest", FALSE, StrictIn({i, j}))
  ELSE Emit({i, j}, Fallback(i, j), "greatest", FALSE,
            [row \in rows |->
               IF {row[i], row[j]} = {"null"} THEN {"null"} ELSE NonNull])

\* concat and concat_ws outside MySQL: typed as never NULL; concat_ws is
\* NULL when its separator is.
ConcatWs(separator) ==
  /\ dialect # "mysql"
  /\ Emit({separator}, FALSE, "concat_ws", Maybe(separator),
          StrictIn({separator}))

\* is_not_null_guard, same_column_identity: two names that agree, both of
\* them qualified columns unless the scope has one source.  A name says
\* little of an expression: `a IS NOT NULL' also guards `a + b'.
Guards(i, j) ==
  /\ exprs[i].name = exprs[j].name
  /\ lone \/ (exprs[i].bare /\ exprs[j].bare)

NoElse == 0
ElseLiteral == MaxSize + 1

\* CASE WHEN i IS NOT NULL THEN j [ELSE k] END.
CaseNotNull(i, j, k) ==
  Emit({i, j, k} \cap Operands,
       \/ Maybe(j) /\ ~Guards(i, j)
       \/ k = NoElse
       \/ k \in Operands /\ Maybe(k),
       "case", Guards(i, j) /\ i # j,
       [row \in rows |->
          CASE row[i] # "null" -> {row[j]}
            [] row[i] = "null" /\ k = NoElse      -> {"null"}
            [] row[i] = "null" /\ k = ElseLiteral -> NonNull
            [] OTHER                              -> {row[k]}])

\* sum and avg OVER (...): typed as never NULL.  The window holds the current
\* row unless its frame, or a FILTER, excludes it.
WindowTotal(i, excluded) ==
  Emit({i}, FALSE, "sum", Maybe(i) \/ excluded,
       [row \in rows |->
          NonNull \cup (IF excluded \/ row[i] = "null" THEN {"null"} ELSE {})])

\* min and max OVER (...) follow their argument.
WindowExtreme(i, excluded) ==
  Emit({i}, Maybe(i), "min", excluded,
       [row \in rows |->
          NonNull \cup (IF excluded \/ row[i] = "null" THEN {"null"} ELSE {})])

\* LAG and LEAD with a default: another row's operand, or the default here.
LagOrDefault(i, j) ==
  Emit({i, j}, AllOperands(i, j), "lag", FALSE,
       [row \in rows |-> {row[j]} \cup {other[i] : other \in rows}])

\* is_single_row_aggregate_query: one ungrouped aggregate, without HAVING;
\* LIMIT and OFFSET are not looked at.
SingleRow(aggregate, grouped, limited) == aggregate /\ ~grouped

\* (SELECT count(...) ...) and (SELECT column ...) as an expression.
ScalarSubquery(aggregate, grouped, limited) ==
  Emit({}, ~SingleRow(aggregate, grouped, limited), "subquery", limited,
       Always(NonNull \cup
              (IF aggregate /\ ~grouped /\ ~limited THEN {} ELSE {"null"})))

-----------------------------------------------------------------------------
(* Queries over queries. *)

Another ==
  /\ Selecting
  /\ queries < MaxQueries
  /\ queries' = queries + 1
  /\ UNCHANGED <<fromVars, dialect>>

\* Two result columns, as a derived table, a view or a CTE, become the
\* columns of the next SELECT (ScopeColumn::from_analyzed_column); `outer'
\* puts it on the nullable side of a join.
Requery(i, j, outer) ==
  /\ Another
  /\ exprs' = <<Column(1, Maybe(i) \/ outer, exprs[i].doubtful),
                Column(2, Maybe(j) \/ outer, exprs[j].doubtful)>>
  /\ rows' = {<<row[i], row[j]>> : row \in rows} \cup
             (IF outer THEN {<<"null", "null">>} ELSE {})
  /\ lone' = ~outer

\* A mutation of TwoColumns: the arms need not have as many columns.
TwoColumnsNot == TRUE

\* Arms of another number of columns are refused (column_count_mismatch).
TwoColumns == Len(exprs) = 2

\* A column of a set operation, or of the rows of VALUES.
Widened(left, right) == left \/ right

\* UNION with an arm whose columns in `nulls' are nullable.
UnionWith(nulls) ==
  /\ Another
  /\ TwoColumns
  /\ exprs' = [i \in 1..2 |-> Column(i, Widened(Maybe(i), i \in nulls),
                                     exprs[i].doubtful)]
  /\ rows' = rows \cup {row \in Values \X Values :
                          \A i \in 1..2 : row[i] = "null" => i \in nulls}
  /\ lone' = TRUE

\* The rows of a recursive CTE: term[i] is the column of the previous row that
\* the recursive term selects as column i, 0 a typed NULL.
Iterated(term, row) ==
  [i \in 1..2 |-> IF term[i] = 0 THEN "null" ELSE row[term[i]]]

\* analyze_query types the term once over the anchor's columns and joins the
\* two; it does not repeat that until nothing changes, so a column that the
\* term fills from one that only the term makes nullable is a gap.
RecursiveCte(term) ==
  LET once == [i \in 1..2 |-> Widened(Maybe(i), term[i] = 0 \/ Maybe(term[i]))]
      settled == \A i \in 1..2 : term[i] # 0 /\ once[term[i]] => once[i]
      second == {Iterated(term, row) : row \in rows}
      third == {Iterated(term, row) : row \in second}
  IN /\ Another
     /\ TwoColumns
     /\ exprs' = [i \in 1..2 |->
                    Column(i, once[i], ~settled \/ \E k \in 1..2 : exprs[k].doubtful)]
     /\ rows' = rows \cup second \cup third
     /\ lone' = TRUE

-----------------------------------------------------------------------------
OneOperand(i) ==
  \/ IsNotNull(i)
  \/ \E failing \in {"refused", "tried", "lenient"} : Convert(i, failing, exprs[i].name)
  \/ Convert(i, "refused", "unknown")
  \/ \E name \in {exprs[i].name, "nullif"} : AlwaysNullable(name)
  \/ ConcatWs(i)
  \/ \E excluded \in BOOLEAN : WindowTotal(i, excluded) \/ WindowExtreme(i, excluded)

TwoOperands(i, j) ==
  \/ \E name \in {exprs[i].name, "age", "unknown"} : Strict(i, j, FALSE, name)
  \/ Strict(i, j, TRUE, exprs[i].name)
  \/ Quotient(i, j)
  \/ \E absorbing \in NonNull : Connective(i, j, absorbing)
  \/ \E name \in {"replace", "unknown"} : FirstOperand(i, j, FALSE, name)
  \/ FirstOperand(i, j, TRUE, "replace")
  \/ Coalesce(i, j)
  \/ Greatest(i, j)
  \/ LagOrDefault(i, j)
  \/ \E k \in Operands \cup {NoElse, ElseLiteral} : CaseNotNull(i, j, k)
  \/ \E outer \in BOOLEAN : Requery(i, j, outer)

SelectStep ==
  \/ Project
  \/ \E i, j \in Operands : AnyOrAll(i, j)
  \/ \E v \in Values : Literal(v)
  \/ \E aggregate, grouped, limited \in BOOLEAN :
       ScalarSubquery(aggregate, grouped, limited)
  \/ \E i \in Operands : OneOperand(i)
  \/ \E i, j \in Operands : TwoOperands(i, j)
  \/ \E nulls \in SUBSET (1..2) : UnionWith(nulls)
  \/ \E term \in [1..2 -> 0..2] : RecursiveCte(term)
  \/ \E grouped \in SUBSET (1..2) : Subtotals(grouped)

FromStep ==
  /\ ~Selecting
  /\ FromNext
  /\ UNCHANGED <<dialect, selectVars>>

NullNext == FromStep \/ SelectStep

NullSpec == NullInit /\ [][NullNext]_nullVars

-----------------------------------------------------------------------------
\* Type invariant of the analysis.
NullTypeOK ==
  /\ FromTypeOK
  /\ dialect \in Dialects
  /\ exprs \in Seq(Info)
  /\ rows \in SUBSET Seq(Values)
  /\ \A row \in rows : Len(row) = Len(exprs)
  /\ lone \in BOOLEAN
  /\ queries \in 0..MaxQueries

\* No generated type promises a value where the engine can return NULL: for
\* every column and expression, through joins, every arm of the inference,
\* derived tables, UNIONs and recursive CTEs, but for the gaps the arms name.
\* (A2, soundness, of the conformance runner; TypeInfo::nullable.)
NonNullIsSound ==
  \A i \in DOMAIN exprs :
    ~exprs[i].nullable /\ ~exprs[i].doubtful => \A row \in rows : row[i] # "null"

\* The same with no gap excepted, as the conformance runner states it: an
\* observed NULL implies a nullable column.
NullImpliesNullable ==
  \A i \in DOMAIN exprs : \A row \in rows : row[i] = "null" => exprs[i].nullable
=============================================================================
